------------------------------ MODULE DaoProofs ------------------------------
(***************************************************************************)
(* Proofs about DAOs: the proposal prefixes and the tree of DaoTree, what  *)
(* DaoCore's formulas answer once a DAO's changes are extracted, and what  *)
(* those of NftStaking and of ProposalModule do, for any number of blocks, *)
(* modules, items, tokens, stakers, proposals and voters, every page size  *)
(* and any jobs that come late, fail or are lost.                          *)
(***************************************************************************)
EXTENDS DaoTree, DaoCore, NftStaking, ProposalModule, Induction, SequenceTheorems

-----------------------------------------------------------------------------
(* The walk through the SubDAOs.                                           *)

\* Reach is defined: its recursion ends.
LEMMA ReachIs ==
  ASSUME tree \in [Daos -> SUBSET Daos]
  PROVE  /\ Reach \in [Nat -> SUBSET Daos] /\ Reach[0] = {Root}
         /\ \A n \in Nat : Reach[n + 1] = WithSubDaos(Reach[n])
<1> DEFINE S == SUBSET Daos
           next == [i \in Nat \ {0} |-> i - 1]
           G == [i \in Nat \ {0} |-> [T \in S |-> WithSubDaos(T)]]
<1>1. {Root} \in S
  BY DaoTreeAssumption
<1>2. next \in [Nat \ {0} -> Nat] /\ \A i \in Nat \ {0} : next[i] = i - 1 /\ next[i] < i
  OBVIOUS
<1>3. \A T \in S : WithSubDaos(T) \in S
  BY DEF WithSubDaos
<1>4. G \in [Nat \ {0} -> [S -> S]] /\ \A i \in Nat \ {0} : \A T \in S : G[i][T] = WithSubDaos(T)
  BY <1>3
<1>5. Smaller(next)
  BY <1>2 DEF Smaller
<1>6. G \in [Nat \ {0} -> [S -> S]]
  BY <1>4
<1> DEFINE c == {Root}
<1> HIDE DEF next, G, S, c
<1>7. \E f : Recurs(f, S, c, next, G)
  <2>1. c \in S
    BY <1>1 DEF c
  <2> QED
    BY <1>5, <1>6, <2>1, Recursion
<1>8. PICK f : Recurs(f, S, c, next, G)
  BY <1>7
<1>9. f \in [Nat -> S] /\ f[0] = {Root} /\ \A i \in Nat \ {0} : f[i] = G[i][f[next[i]]]
  BY <1>8 DEF c, Recurs
<1>10. \A i \in Nat \ {0} : f[i] = WithSubDaos(f[i - 1])
  <2> SUFFICES ASSUME NEW i \in Nat \ {0} PROVE f[i] = WithSubDaos(f[i - 1])
    OBVIOUS
  <2>1. i - 1 \in Nat /\ f[i - 1] \in S
    BY <1>9
  <2> QED
    BY <1>2, <1>4, <1>9, <2>1
<1>11. f = [n \in Nat |-> IF n = 0 THEN {Root} ELSE WithSubDaos(f[n - 1])]
  BY <1>9, <1>10
<1>12. Reach = CHOOSE g : g = [n \in Nat |-> IF n = 0 THEN {Root} ELSE WithSubDaos(g[n - 1])]
  BY DEF Reach
<1>13. Reach = [n \in Nat |-> IF n = 0 THEN {Root} ELSE WithSubDaos(Reach[n - 1])]
  BY <1>11, <1>12, Zenon
<1>14. Reach[0] = {Root} /\ \A n \in Nat : Reach[n + 1] = WithSubDaos(Reach[n])
  <2>1. \A n \in Nat : n + 1 \in Nat /\ n + 1 # 0 /\ (n + 1) - 1 = n
    OBVIOUS
  <2> QED
    BY <1>13, <2>1
<1>15. \A n \in Nat : n \in {k \in Nat : Reach[k] \in S}
  <2> DEFINE P == {k \in Nat : Reach[k] \in S}
  <2>1. 0 \in P
    BY <1>1, <1>14
  <2>2. \A n \in Nat : n \in P => n + 1 \in P
    BY <1>3, <1>14
  <2> HIDE DEF P
  <2>3. \A n \in Nat : n \in P
    BY <2>1, <2>2, Successors
  <2> QED
    BY <2>3 DEF P
<1> QED
  BY <1>13, <1>14, <1>15 DEF S

\* More steps reach no less.
LEMMA ReachGrows ==
  ASSUME tree \in [Daos -> SUBSET Daos], NEW k \in Nat, NEW n \in Nat, k <= n
  PROVE  Reach[k] \subseteq Reach[n]
<1> DEFINE P == {d \in Nat : Reach[k] \subseteq Reach[k + d]}
<1>1. 0 \in P
  <2>1. k + 0 = k
    OBVIOUS
  <2> QED
    BY <2>1
<1>2. ASSUME NEW d \in Nat, d \in P PROVE d + 1 \in P
  <2>1. k + d \in Nat /\ k + (d + 1) = (k + d) + 1
    OBVIOUS
  <2>2. Reach[k + (d + 1)] = WithSubDaos(Reach[k + d])
    BY <2>1, ReachIs
  <2> QED
    BY <1>2, <2>2 DEF WithSubDaos
<1> HIDE DEF P
<1>3. n - k \in P
  BY <1>1, <1>2, Successors
<1> QED
  BY <1>3 DEF P

\* Steps that add nothing are followed by steps that add nothing.
LEMMA ReachStays ==
  ASSUME tree \in [Daos -> SUBSET Daos], NEW k \in Nat, Reach[k + 1] = Reach[k], NEW n \in Nat, k <= n
  PROVE  Reach[n] = Reach[k]
<1> DEFINE P == {d \in Nat : Reach[k + d] = Reach[k]}
<1>1. 0 \in P
  <2>1. k + 0 = k
    OBVIOUS
  <2> QED
    BY <2>1
<1>2. ASSUME NEW d \in Nat, d \in P PROVE d + 1 \in P
  <2>1. k + d \in Nat /\ k + (d + 1) = (k + d) + 1
    OBVIOUS
  <2>2. Reach[k + (d + 1)] = WithSubDaos(Reach[k + d]) /\ Reach[k + 1] = WithSubDaos(Reach[k])
    BY <2>1, ReachIs
  <2> QED
    BY <1>2, <2>2
<1> HIDE DEF P
<1>3. n - k \in P
  BY <1>1, <1>2, Successors
<1> QED
  BY <1>3 DEF P

\* As many steps as there are DAOs reach all that any number reaches.
LEMMA ReachEnds ==
  ASSUME tree \in [Daos -> SUBSET Daos], NEW n \in Nat
  PROVE  Reach[n] \subseteq Reach[Cardinality(Daos)]
<1> DEFINE N == Cardinality(Daos)
           P == {m \in Nat : \/ Cardinality(Reach[m]) >= m + 1
                             \/ \E k \in Nat : k < m /\ Reach[k + 1] = Reach[k]}
<1>1. /\ IsFiniteSet(Daos) /\ N \in Nat
      /\ \A m \in Nat : IsFiniteSet(Reach[m]) /\ Cardinality(Reach[m]) \in Nat /\ Cardinality(Reach[m]) <= N
  <2>1. IsFiniteSet(Daos) /\ N \in Nat
    BY DaoTreeAssumption, FS_CardinalityType
  <2>2. ASSUME NEW m \in Nat
        PROVE  IsFiniteSet(Reach[m]) /\ Cardinality(Reach[m]) \in Nat /\ Cardinality(Reach[m]) <= N
    <3>1. Reach[m] \subseteq Daos
      BY ReachIs
    <3> QED
      BY <2>1, <3>1, FS_Subset, FS_CardinalityType
  <2> QED
    BY <2>1, <2>2
<1>2. 0 \in P
  <2>1. Cardinality(Reach[0]) = 1
    BY ReachIs, FS_Singleton
  <2> QED
    BY <2>1
<1>3. ASSUME NEW m \in Nat, m \in P PROVE m + 1 \in P
  <2>1. CASE \E k \in Nat : k < m /\ Reach[k + 1] = Reach[k]
    BY <2>1
  <2>2. CASE Reach[m + 1] = Reach[m]
    BY <2>2
  <2>3. CASE Cardinality(Reach[m]) >= m + 1 /\ Reach[m + 1] # Reach[m]
    <3>1. m + 1 \in Nat /\ m <= m + 1
      OBVIOUS
    <3>2. Reach[m] \subseteq Reach[m + 1]
      BY <3>1, ReachGrows
    <3>3. Cardinality(Reach[m]) < Cardinality(Reach[m + 1])
      BY <1>1, <2>3, <3>1, <3>2, FS_Subset
    <3>4. Cardinality(Reach[m + 1]) >= (m + 1) + 1
      BY <1>1, <2>3, <3>1, <3>3
    <3> QED
      BY <3>1, <3>4
  <2> QED
    BY <1>3, <2>1, <2>2, <2>3
<1>4. N \in P
  <2> HIDE DEF P
  <2> QED
    BY <1>1, <1>2, <1>3, Successors
<1>5. PICK k \in Nat : k < N /\ Reach[k + 1] = Reach[k]
  BY <1>1, <1>4
<1> HIDE DEF N
<1>6. Reach[N] = Reach[k]
  BY <1>1, <1>5, ReachStays
<1>7. CASE n <= k
  <2>1. Reach[n] \subseteq Reach[k]
    BY <1>7, ReachGrows
  <2> QED
    BY <1>6, <2>1 DEF N
<1>8. CASE k <= n
  <2>1. Reach[n] = Reach[k]
    BY <1>5, <1>8, ReachStays
  <2> QED
    BY <1>6, <2>1 DEF N
<1> QED
  BY <1>6, <1>7, <1>8 DEF N

\* What is pending was seen, what was seen can be reached, and the SubDAOs of what was
\* seen and is no longer pending were seen.
WalkInv ==
    /\ tree \in [Daos -> SUBSET Daos] /\ module \in 0..PrefixBound
    /\ Root \in walk.seen /\ walk.pending \subseteq walk.seen
    /\ \A d \in walk.seen : \E n \in Nat : d \in Reach[n]
    /\ \A d \in walk.seen \ walk.pending : tree[d] \subseteq walk.seen

LEMMA WalkFirst == DaoTreeInit => WalkInv
<1> SUFFICES ASSUME DaoTreeInit PROVE WalkInv
  OBVIOUS
<1>1. tree \in [Daos -> SUBSET Daos] /\ module = 0 /\ walk.seen = {Root} /\ walk.pending = {Root}
  BY DEF DaoTreeInit
<1>2. Root \in Reach[0]
  BY <1>1, ReachIs
<1>3. 0 \in 0..PrefixBound
  BY DaoTreeAssumption
<1> QED
  BY <1>1, <1>2, <1>3 DEF WalkInv

LEMMA WalkStep == WalkInv /\ [DaoTreeNext]_daoTreeVars => WalkInv'
<1> SUFFICES ASSUME WalkInv, [DaoTreeNext]_daoTreeVars PROVE WalkInv'
  OBVIOUS
<1>1. CASE getUniqueSubDaosInTree
  <2>1. PICK d \in walk.pending :
            walk' = [pending |-> (walk.pending \ {d}) \cup (tree[d] \ walk.seen),
                     seen |-> walk.seen \cup (tree[d] \ walk.seen)]
    BY <1>1 DEF getUniqueSubDaosInTree, Unseen
  <2>2. UNCHANGED <<tree, module>>
    BY <1>1 DEF getUniqueSubDaosInTree
  <2>3. /\ walk'.seen = walk.seen \cup tree[d]
        /\ walk'.pending = (walk.pending \ {d}) \cup (tree[d] \ walk.seen)
    BY <2>1
  <2>4. Reach' = Reach
    BY <2>2 DEF Reach, WithSubDaos
  <2>5. ASSUME NEW x \in tree[d] PROVE \E n \in Nat : x \in Reach[n]
    <3>1. PICK n \in Nat : d \in Reach[n]
      BY DEF WalkInv
    <3>2. x \in Reach[n + 1]
      BY <3>1, ReachIs DEF WalkInv, WithSubDaos
    <3>3. n + 1 \in Nat
      OBVIOUS
    <3> QED
      BY <3>2, <3>3
  <2>6. \A x \in walk'.seen : \E n \in Nat : x \in Reach[n]
    BY <2>3, <2>5 DEF WalkInv
  <2>7. \A x \in walk'.seen \ walk'.pending : tree[x] \subseteq walk'.seen
    BY <2>3 DEF WalkInv
  <2>8. Root \in walk'.seen /\ walk'.pending \subseteq walk'.seen
    BY <2>3 DEF WalkInv
  <2> QED
    BY <2>2, <2>4, <2>6, <2>7, <2>8 DEF WalkInv
<1>2. CASE NextModule
  <2>1. UNCHANGED <<tree, walk>> /\ module' \in 0..PrefixBound
    BY <1>2, DaoTreeAssumption DEF NextModule, WalkInv
  <2>2. Reach' = Reach
    BY <2>1 DEF Reach, WithSubDaos
  <2> QED
    BY <2>1, <2>2 DEF WalkInv
<1>3. CASE UNCHANGED daoTreeVars
  <2>1. UNCHANGED <<tree, walk, module>>
    BY <1>3 DEF daoTreeVars
  <2>2. Reach' = Reach
    BY <2>1 DEF Reach, WithSubDaos
  <2> QED
    BY <2>1, <2>2 DEF WalkInv
<1> QED
  BY <1>1, <1>2, <1>3 DEF DaoTreeNext

LEMMA WalkEnds == WalkInv => WalkFindsTree
<1> SUFFICES ASSUME WalkInv, walk.pending = {} PROVE walk.seen = Reach[Cardinality(Daos)]
  BY DEF WalkFindsTree
<1>1. walk.seen \subseteq Reach[Cardinality(Daos)]
  BY ReachEnds DEF WalkInv
<1>2. \A n \in Nat : n \in {k \in Nat : Reach[k] \subseteq walk.seen}
  <2> DEFINE P == {k \in Nat : Reach[k] \subseteq walk.seen}
  <2>1. 0 \in P
    BY ReachIs DEF WalkInv
  <2>2. ASSUME NEW n \in Nat, n \in P PROVE n + 1 \in P
    <3>1. Reach[n + 1] = WithSubDaos(Reach[n])
      BY ReachIs DEF WalkInv
    <3>2. WithSubDaos(Reach[n]) \subseteq walk.seen
      BY <2>2 DEF WithSubDaos, WalkInv
    <3> QED
      BY <3>1, <3>2
  <2> HIDE DEF P
  <2>3. \A n \in Nat : n \in P
    BY <2>1, <2>2, Successors
  <2> QED
    BY <2>3 DEF P
<1>3. Cardinality(Daos) \in Nat
  BY DaoTreeAssumption, FS_CardinalityType
<1> QED
  BY <1>1, <1>2, <1>3

-----------------------------------------------------------------------------
(* The prefixes of the proposal modules.                                   *)

\* A quotient and its remainder.
LEMMA Quotients ==
  ASSUME NEW a \in Nat, NEW b \in Nat \ {0}
  PROVE  /\ a \div b \in Nat /\ a % b \in Nat /\ a % b < b
         /\ a = b * (a \div b) + (a % b)
<1>1. a \div b \in Nat
  OBVIOUS
<1>2. a % b \in Nat /\ a % b < b
  OBVIOUS
<1>3. a = b * (a \div b) + (a % b)
  BY SMTT(30)
<1> QED
  BY <1>1, <1>2, <1>3

\* There is one quotient.
LEMMA OneQuotient ==
  ASSUME NEW b \in Nat \ {0}, NEW q \in Nat, NEW r \in Nat, r < b,
         NEW p \in Nat, NEW s \in Nat, s < b, b * q + r = b * p + s
  PROVE  p = q /\ s = r
<1>1. CASE p = q
  BY <1>1
<1>2. CASE p > q
  <2> DEFINE d == (p - q) - 1
  <2>1. d \in Nat /\ p = q + 1 + d
    BY <1>2
  <2>2. b * (q + 1 + d) = b * q + b + b * d /\ b * d \in Nat /\ b * q \in Nat
    BY <2>1
  <2> HIDE DEF d
  <2>3. b * p = b * q + b + b * d
    BY <2>1, <2>2
  <2> QED
    BY <2>2, <2>3
<1>3. CASE q > p
  <2> DEFINE d == (q - p) - 1
  <2>1. d \in Nat /\ q = p + 1 + d
    BY <1>3
  <2>2. b * (p + 1 + d) = b * p + b + b * d /\ b * d \in Nat /\ b * p \in Nat
    BY <2>1
  <2> HIDE DEF d
  <2>3. b * q = b * p + b + b * d
    BY <2>1, <2>2
  <2> QED
    BY <2>2, <2>3
<1> QED
  BY <1>1, <1>2, <1>3

LEMMA QuotientIs ==
  ASSUME NEW b \in Nat \ {0}, NEW q \in Nat, NEW r \in Nat, r < b
  PROVE  (b * q + r) \div b = q /\ (b * q + r) % b = r
<1> DEFINE a == b * q + r
           p == a \div b
           s == a % b
<1>1. b * q \in Nat
  OBVIOUS
<1>2. a \in Nat
  BY <1>1
<1>3. a = b * q + r
  OBVIOUS
<1> HIDE DEF a
<1>4. p \in Nat /\ s \in Nat /\ s < b /\ a = b * p + s
  BY <1>2, Quotients
<1> HIDE DEF p, s
<1>5. b * q + r = b * p + s
  BY <1>3, <1>4
<1>6. p = q /\ s = r
  BY <1>4, <1>5, OneQuotient
<1> QED
  BY <1>6 DEF p, s, a

\* The letter of an index and the index that gives the letters before it
\* (indexToProposalModulePrefix).
LEMMA IndexIs ==
  ASSUME NEW q \in Nat, NEW r \in Nat, r < Letters
  PROVE  /\ Letters * q + r + 1 \in Nat \ {0} /\ q < Letters * q + r + 1
         /\ ((Letters * q + r + 1) - 1) % Letters = r
         /\ NextIndex(Letters * q + r + 1) = q
<1> DEFINE m == Letters * q
<1>1. Letters \in Nat \ {0} /\ 1 < Letters
  BY DaoTreeAssumption
<1>2. m \in Nat /\ q <= m
  BY <1>1
<1>3. (m + r) % Letters = r /\ (m + 1) \div Letters = q
  BY <1>1, QuotientIs
<1> HIDE DEF m
<1>4. m + r + 1 \in Nat \ {0} /\ q < m + r + 1 /\ (m + r + 1) - 1 = m + r
  BY <1>2
<1>5. (m + r + 1) - r = m + 1
  BY <1>2
<1>6. NextIndex(m + r + 1) = q
  BY <1>3, <1>4, <1>5 DEF NextIndex
<1> QED
  BY <1>3, <1>4, <1>6 DEF m

\* Every index has a letter and an index before it.
LEMMA IndexSplits ==
  ASSUME NEW i \in Nat \ {0}
  PROVE  \E q \in Nat : \E r \in Nat : r < Letters /\ i = Letters * q + r + 1
<1>1. Letters \in Nat \ {0}
  BY DaoTreeAssumption
<1>2. i - 1 \in Nat
  OBVIOUS
<1> DEFINE q == (i - 1) \div Letters
           r == (i - 1) % Letters
<1>3. q \in Nat /\ r \in Nat /\ r < Letters /\ i - 1 = Letters * q + r
  BY <1>1, <1>2, Quotients
<1> HIDE DEF q, r
<1>4. Letters * q \in Nat
  BY <1>1, <1>3
<1>5. i = Letters * q + r + 1
  BY <1>3, <1>4
<1> QED
  BY <1>3, <1>5

\* Prefix is defined: its recursion ends.
LEMMA PrefixIs ==
  /\ \A i \in 0..(PrefixBound + 1) : Prefix[i] \in Seq(Nat)
  /\ Prefix[0] = <<>>
  /\ \A q, r \in Nat : r < Letters /\ Letters * q + r + 1 <= PrefixBound + 1 =>
         Prefix[Letters * q + r + 1] = Append(Prefix[q], r)
<1> DEFINE S == Seq(Nat)
           c == <<>>
           next == [i \in Nat \ {0} |-> NextIndex(i)]
           G == [i \in Nat \ {0} |-> [s \in S |-> Append(s, (i - 1) % Letters)]]
           D == 0..(PrefixBound + 1)
<1>1. c \in S
  OBVIOUS
<1>2. \A i \in Nat \ {0} : NextIndex(i) \in Nat /\ NextIndex(i) < i /\ (i - 1) % Letters \in Nat
  <2> SUFFICES ASSUME NEW i \in Nat \ {0}
               PROVE  NextIndex(i) \in Nat /\ NextIndex(i) < i /\ (i - 1) % Letters \in Nat
    OBVIOUS
  <2>1. PICK q \in Nat, r \in Nat : r < Letters /\ i = Letters * q + r + 1
    BY IndexSplits
  <2>2. NextIndex(i) = q /\ q < i /\ (i - 1) % Letters = r
    BY <2>1, IndexIs
  <2> QED
    BY <2>2
<1>3. Smaller(next)
  BY <1>2 DEF Smaller
<1>4. \A i \in Nat \ {0} : next[i] = NextIndex(i)
  OBVIOUS
<1>5. G \in [Nat \ {0} -> [S -> S]]
  <2>1. ASSUME NEW i \in Nat \ {0}, NEW s \in S PROVE Append(s, (i - 1) % Letters) \in S
    <3> DEFINE l == (i - 1) % Letters
    <3>1. l \in Nat
      BY <1>2
    <3> HIDE DEF l
    <3>2. Append(s, l) \in S
      BY <3>1
    <3> QED
      BY <3>2 DEF l
  <2> HIDE DEF S
  <2> QED
    BY <2>1
<1>6. \A i \in Nat \ {0} : \A s \in S : G[i][s] = Append(s, (i - 1) % Letters)
  OBVIOUS
<1> HIDE DEF next, G, S, c
<1>7. PICK f : Recurs(f, S, c, next, G)
  BY <1>1, <1>3, <1>5, Recursion
<1>8. \A i \in Nat \ {0} : f[i] = Append(f[NextIndex(i)], (i - 1) % Letters)
  BY <1>2, <1>4, <1>6, <1>7 DEF Recurs
<1>9. f[0] = <<>> /\ \A i \in Nat : f[i] \in S
  BY <1>7 DEF Recurs, c
<1> DEFINE h == [i \in D |-> f[i]]
<1>10. D \subseteq Nat /\ 0 \in D /\ \A i \in D : i # 0 => i \in Nat \ {0} /\ NextIndex(i) \in D
  <2>1. PrefixBound \in Nat
    BY DaoTreeAssumption
  <2>2. ASSUME NEW i \in D, i # 0 PROVE i \in Nat \ {0} /\ NextIndex(i) \in D
    <3>1. i \in Nat \ {0} /\ i <= PrefixBound + 1
      BY <2>1, <2>2
    <3>2. NextIndex(i) \in Nat /\ NextIndex(i) < i
      BY <1>2, <3>1
    <3> QED
      BY <2>1, <3>1, <3>2
  <2> QED
    BY <2>1, <2>2
<1> HIDE DEF D
<1>11. h = [i \in D |-> IF i = 0 THEN <<>> ELSE Append(h[NextIndex(i)], (i - 1) % Letters)]
  BY <1>8, <1>9, <1>10
<1>12. Prefix = CHOOSE g : g = [i \in D |-> IF i = 0 THEN <<>> ELSE Append(g[NextIndex(i)], (i - 1) % Letters)]
  BY DEF Prefix, D
<1> HIDE DEF h
<1>13. Prefix = [i \in D |-> IF i = 0 THEN <<>> ELSE Append(Prefix[NextIndex(i)], (i - 1) % Letters)]
  BY <1>11, <1>12, Zenon
<1>14. Prefix[0] = <<>>
  BY <1>10, <1>13, Zenon
<1>15. \A i \in D : i # 0 => Prefix[i] = Append(Prefix[NextIndex(i)], (i - 1) % Letters)
  BY <1>13, Zenon
<1>16. ASSUME NEW q \in Nat, NEW r \in Nat, r < Letters, Letters * q + r + 1 <= PrefixBound + 1
       PROVE  Prefix[Letters * q + r + 1] = Append(Prefix[q], r)
  <2> DEFINE i == Letters * q + r + 1
  <2>1. i \in Nat \ {0} /\ (i - 1) % Letters = r /\ NextIndex(i) = q
    BY <1>16, IndexIs
  <2>2. i <= PrefixBound + 1
    BY <1>16
  <2> HIDE DEF i
  <2>3. i \in D /\ i # 0
    BY <2>1, <2>2, DaoTreeAssumption DEF D
  <2>4. Prefix[i] = Append(Prefix[q], r)
    BY <1>15, <2>1, <2>3
  <2> QED
    BY <2>4 DEF i
<1>17. \A i \in D : Prefix[i] \in S
  <2> DEFINE P == {i \in Nat : i \in D => Prefix[i] \in S}
  <2>1. ASSUME NEW n \in Nat, \A m \in 0..(n - 1) : m \in P PROVE n \in P
    <3> SUFFICES ASSUME n \in D PROVE Prefix[n] \in S
      OBVIOUS
    <3>1. CASE n = 0
      BY <1>1, <1>14, <3>1 DEF c
    <3>2. CASE n # 0
      <4> DEFINE k == NextIndex(n)
      <4>1. k \in Nat /\ k < n /\ k \in D
        BY <1>2, <1>10, <3>2
      <4> HIDE DEF k
      <4>2. k \in 0..(n - 1)
        BY <4>1
      <4>3. Prefix[k] \in S
        BY <2>1, <4>1, <4>2
      <4>4. (n - 1) % Letters \in Nat
        BY <1>2, <3>2
      <4>5. Append(Prefix[k], (n - 1) % Letters) \in S
        BY <4>3, <4>4, AppendProperties DEF S
      <4> QED
        BY <1>15, <3>2, <4>5 DEF k
    <3> QED
      BY <3>1, <3>2
  <2> HIDE DEF P
  <2>2. \A n \in Nat : n \in P
    BY <2>1, AllBelow
  <2> QED
    BY <1>10, <2>2 DEF P
<1> QED
  BY <1>14, <1>16, <1>17 DEF D, S

\* The order of two prefixes is not changed by what is appended to them.
LEMMA FollowsAppended ==
  ASSUME NEW p \in Seq(Nat), NEW q \in Seq(Nat), NEW a \in Nat, NEW b \in Nat, Follows(p, q)
  PROVE  Follows(Append(p, a), Append(q, b))
<1> DEFINE x == Append(p, a)
           y == Append(q, b)
<1>1. /\ x \in Seq(Nat) /\ Len(x) = Len(p) + 1 /\ \A i \in 1..Len(p) : x[i] = p[i]
      /\ y \in Seq(Nat) /\ Len(y) = Len(q) + 1 /\ \A i \in 1..Len(q) : y[i] = q[i]
  BY AppendProperties
<1>2. /\ DOMAIN x = 1..Len(x) /\ DOMAIN p = 1..Len(p) /\ Len(p) \in Nat /\ Len(q) \in Nat
  BY <1>1, LenProperties
<1> HIDE DEF x, y
<1>3. CASE Len(p) > Len(q)
  BY <1>1, <1>2, <1>3 DEF Follows, x, y
<1>4. CASE Len(p) = Len(q) /\ \E i \in DOMAIN p : p[i] > q[i] /\ \A j \in 1..(i - 1) : p[j] = q[j]
  <2>1. PICK i \in DOMAIN p : p[i] > q[i] /\ \A j \in 1..(i - 1) : p[j] = q[j]
    BY <1>4
  <2>2. i \in 1..Len(p) /\ i \in DOMAIN x /\ \A j \in 1..(i - 1) : j \in 1..Len(p)
    BY <1>1, <1>2, <2>1
  <2>3. x[i] > y[i] /\ \A j \in 1..(i - 1) : x[j] = y[j]
    BY <1>1, <1>4, <2>1, <2>2
  <2>4. Len(x) = Len(y)
    BY <1>1, <1>4
  <2>5. Follows(x, y)
    BY <2>2, <2>3, <2>4 DEF Follows
  <2> QED
    BY <2>5 DEF x, y
<1> QED
  BY <1>3, <1>4 DEF Follows

\* A prefix is followed by the same with a later last letter.
LEMMA FollowsLetter ==
  ASSUME NEW p \in Seq(Nat), NEW a \in Nat
  PROVE  Follows(Append(p, a + 1), Append(p, a))
<1> DEFINE x == Append(p, a + 1)
           y == Append(p, a)
<1>1. a + 1 \in Nat /\ a + 1 > a
  OBVIOUS
<1>2. /\ x \in Seq(Nat) /\ Len(x) = Len(p) + 1 /\ (\A i \in 1..Len(p) : x[i] = p[i]) /\ x[Len(p) + 1] = a + 1
      /\ y \in Seq(Nat) /\ Len(y) = Len(p) + 1 /\ (\A i \in 1..Len(p) : y[i] = p[i]) /\ y[Len(p) + 1] = a
  BY <1>1, AppendProperties
<1>3. DOMAIN x = 1..Len(x) /\ Len(p) \in Nat
  BY <1>2, LenProperties
<1> HIDE DEF x, y
<1> DEFINE i == Len(p) + 1
<1>4. i \in DOMAIN x /\ x[i] > y[i] /\ \A j \in 1..(i - 1) : x[j] = y[j]
  BY <1>1, <1>2, <1>3
<1>5. Follows(x, y)
  BY <1>2, <1>4 DEF Follows
<1> QED
  BY <1>5 DEF x, y

\* The prefix of a module follows the one before it.
LEMMA PrefixFollows ==
  \A i \in Nat : i <= PrefixBound => Follows(Prefix[i + 1], Prefix[i])
<1> DEFINE P == {i \in Nat : i <= PrefixBound => Follows(Prefix[i + 1], Prefix[i])}
<1>1. PrefixBound \in Nat /\ Letters \in Nat /\ 1 < Letters
  BY DaoTreeAssumption
<1>2. ASSUME NEW i \in Nat, \A m \in 0..(i - 1) : m \in P PROVE i \in P
  <2> SUFFICES ASSUME i <= PrefixBound PROVE Follows(Prefix[i + 1], Prefix[i])
    OBVIOUS
  <2>1. CASE i = 0
    <3>1. Letters * 0 + 0 + 1 = 1 /\ 1 <= PrefixBound + 1 /\ 0 \in Nat /\ 0 < Letters
      BY <1>1
    <3>2. Prefix[1] = Append(Prefix[0], 0) /\ Prefix[0] = <<>>
      BY <3>1, PrefixIs
    <3>3. Follows(Prefix[1], Prefix[0])
      BY <3>2 DEF Follows
    <3> QED
      BY <2>1, <3>3
  <2>2. CASE i # 0
    <3>1. PICK q \in Nat, r \in Nat : r < Letters /\ i = Letters * q + r + 1
      BY <2>2, IndexSplits
    <3>2. q < i
      BY <3>1, IndexIs
    <3>3. q <= PrefixBound /\ q \in 0..(PrefixBound + 1) /\ q + 1 \in 0..(PrefixBound + 1)
      BY <1>1, <3>2
    <3>4. Prefix[i] = Append(Prefix[q], r)
      <4>1. Letters * q + r + 1 <= PrefixBound + 1
        BY <1>1, <3>1
      <4> QED
        BY <3>1, <4>1, PrefixIs
    <3>5. Prefix[q] \in Seq(Nat) /\ Prefix[q + 1] \in Seq(Nat)
      BY <3>3, PrefixIs
    <3> DEFINE m == Letters * q
    <3>6. m \in Nat /\ Letters * (q + 1) = m + Letters /\ i = m + r + 1
      BY <1>1, <3>1
    <3>7. CASE r + 1 < Letters
      <4>1. Letters * q + (r + 1) + 1 = i + 1
        <5> HIDE DEF m
        <5>1. m + (r + 1) + 1 = i + 1
          BY <3>6
        <5> QED
          BY <5>1 DEF m
      <4>2. r + 1 \in Nat /\ Letters * q + (r + 1) + 1 <= PrefixBound + 1
        BY <1>1, <4>1
      <4>3. Prefix[Letters * q + (r + 1) + 1] = Append(Prefix[q], r + 1)
        BY <3>7, <4>2, PrefixIs
      <4>4. Prefix[i + 1] = Append(Prefix[q], r + 1)
        BY <4>1, <4>3
      <4> QED
        BY <3>4, <3>5, <4>4, FollowsLetter
    <3>8. CASE r + 1 = Letters
      <4>1. Letters * (q + 1) + 0 + 1 = i + 1
        <5> HIDE DEF m
        <5>1. (m + Letters) + 0 + 1 = i + 1
          BY <1>1, <3>6, <3>8
        <5> QED
          BY <3>6, <5>1
      <4>2. q + 1 \in Nat /\ 0 \in Nat /\ 0 < Letters /\ Letters * (q + 1) + 0 + 1 <= PrefixBound + 1
        BY <1>1, <4>1
      <4>3. Prefix[Letters * (q + 1) + 0 + 1] = Append(Prefix[q + 1], 0)
        BY <4>2, PrefixIs
      <4>4. Prefix[i + 1] = Append(Prefix[q + 1], 0)
        BY <4>1, <4>3
      <4>5. q \in 0..(i - 1)
        BY <3>2
      <4>6. Follows(Prefix[q + 1], Prefix[q])
        BY <1>2, <3>3, <4>5
      <4> QED
        BY <3>4, <3>5, <4>4, <4>6, FollowsAppended
    <3> QED
      BY <1>1, <3>1, <3>7, <3>8
  <2> QED
    BY <2>1, <2>2
<1> HIDE DEF P
<1>3. \A i \in Nat : i \in P
  BY <1>2, AllBelow
<1> QED
  BY <1>3 DEF P

LEMMA ModulesFollow == WalkInv => PrefixesFollow
<1> SUFFICES ASSUME WalkInv, module > 0
             PROVE  Follows(indexToProposalModulePrefix(module), indexToProposalModulePrefix(module - 1))
  BY DEF PrefixesFollow
<1>1. module \in Nat /\ module <= PrefixBound /\ (module - 1) + 1 = module
  BY DaoTreeAssumption DEF WalkInv
<1> QED
  BY <1>1, PrefixFollows DEF indexToProposalModulePrefix

\* The walk through the SubDAOs ends with exactly the DAOs the root reaches, whatever
\* cycles there are, and each module's prefix follows the one before it.
THEOREM TreeHolds == DaoTreeSpec => []TreeIsNamed
<1>1. WalkInv => TreeIsNamed
  BY WalkEnds, ModulesFollow DEF TreeIsNamed
<1> QED
  BY WalkFirst, WalkStep, <1>1, PTL DEF DaoTreeSpec

-----------------------------------------------------------------------------
(* The state of a DAO. Parts of the invariant are stated over the states d *)
(* of the chain, so that they can be moved from one state to the next.     *)

ModuleStatus == {"none", "enabled", "disabled"}
DaoState == [config : {1, 2}, voting : {1, 2}, paused : BOOLEAN, items : SUBSET DaoItems,
             modules : [DaoModules -> ModuleStatus]]
DumpType == [voting : {1, 2}, paused : BOOLEAN, modules : [DaoModules -> ModuleStatus]]
RowType == [config : {0, 1, 2}, dump : {<<>>} \cup {<<x>> : x \in DumpType},
            items : {<<>>} \cup {<<x>> : x \in SUBSET DaoItems},
            modules : [DaoModules -> ModuleStatus \cup {NoData}]]
DaoJobType == [block : Nat, modules : BOOLEAN]
RunningType == [block : Nat, all : BOOLEAN, left : SUBSET {"dump", "config", "items"}, after : Int,
                rows : RowType, items : SUBSET DaoItems]
DaoBoundType == [blocks : 1..DaoBlocks, runs : Nat, failures : Nat, repeats : Nat, known : SUBSET BOOLEAN]

DaoTypeOK ==
    /\ version \in {1, 2}
    /\ dao \in Seq(DaoState) /\ Len(dao) \in 1..DaoBlocks
    /\ \A h \in 1..Len(dao) : IsFiniteSet(dao[h].items)
    /\ daoJobs \in SUBSET DaoJobType
    /\ daoJob \in SUBSET RunningType
    /\ daoBound \in DaoBoundType
    /\ extraction \in [1..DaoBlocks -> RowType]

Last(d) == d[Len(d)]

\* Since block h nothing changed what an extraction saves.
SameConfig(d, h) == \A g \in h..Len(d) : d[g].config = d[Len(d)].config
SameVoting(d, h) == \A g \in h..Len(d) : d[g].voting = d[Len(d)].voting
SameItems(d, h) == \A g \in h..Len(d) : d[g].items = d[Len(d)].items
SameModules(d, h) == \A g \in h..Len(d) : d[g].modules = d[Len(d)].modules

\* Block h changed the modules; it changed something.
ChangesModules(d, h) == h = 1 \/ d[h].modules # d[h - 1].modules
ChangesDao(d, h) ==
    \/ ChangesModules(d, h)
    \/ d[h].config # d[h - 1].config \/ d[h].voting # d[h - 1].voting \/ d[h].items # d[h - 1].items

\* What was read for block h is the present, unless it changed since.
ConfigOK(d, h, c) == SameConfig(d, h) => c = d[Len(d)].config
DumpOK(d, h, dump) ==
    /\ dump # <<>>
    /\ SameVoting(d, h) => dump[1].voting = d[Len(d)].voting
    /\ SameModules(d, h) => dump[1].modules = d[Len(d)].modules
ModulesOK(d, h, modules) ==
    SameModules(d, h) =>
        \A m \in DaoModules :
            /\ modules[m] # NoData => modules[m] = d[Len(d)].modules[m]
            /\ ChangesModules(d, h) /\ d[Len(d)].modules[m] # "none" => modules[m] # NoData
ItemsOK(d, h, items) == SameItems(d, h) => items = d[Len(d)].items

\* The rows of block h.
RowsOK(d, h, x) ==
    /\ h <= Len(d) /\ x.config # 0 /\ x.items # <<>>
    /\ ConfigOK(d, h, x.config) /\ DumpOK(d, h, x.dump) /\ ModulesOK(d, h, x.modules) /\ ItemsOK(d, h, x.items[1])

\* A V2 DAO has every module that was saved.
HasModules(d, v, modules) ==
    v = 2 => \A m \in DaoModules : modules[m] # NoData => d[Len(d)].modules[m] # "none"

\* A run: what it read so far.
RunningOK(d, v, j) ==
    /\ j.block \in 1..Len(d) /\ (ChangesModules(d, j.block) => j.all)
    /\ HasModules(d, v, j.rows.modules)
    /\ "dump" \notin j.left => DumpOK(d, j.block, j.rows.dump) /\ ModulesOK(d, j.block, j.rows.modules)
    /\ "config" \notin j.left => ConfigOK(d, j.block, j.rows.config) /\ j.rows.config # 0
    /\ "items" \in j.left => ItemsOK(d, j.block, j.items \cup {k \in Last(d).items : k > j.after})
    /\ "items" \notin j.left => j.rows.items # <<>> /\ ItemsOK(d, j.block, j.rows.items[1])

\* Every block that changed something is still to be extracted, or was.
Handled(h) ==
    \/ \E j \in daoJobs : j.block = h
    \/ \E j \in daoJob : j.block = h
    \/ extraction[h].items # <<>>
    \/ h \in daoLost

DaoInv ==
    /\ DaoTypeOK
    /\ \A j \in daoJobs : j.block \in 1..Len(dao) /\ (ChangesModules(dao, j.block) => j.modules)
    /\ \A j \in daoJob : RunningOK(dao, version, j)
    /\ \A h \in 1..DaoBlocks : /\ extraction[h] = NoRows \/ RowsOK(dao, h, extraction[h])
                               /\ HasModules(dao, version, extraction[h].modules)
    /\ \A h \in 1..Len(dao) : ChangesDao(dao, h) => Handled(h)

\* A block that comes changes nothing of what was read unless it changes what it is about.
LEMMA ReadStays ==
  ASSUME NEW d \in Seq(DaoState), NEW st \in DaoState, NEW h \in 1..Len(d)
  PROVE  /\ Append(d, st) \in Seq(DaoState) /\ Len(Append(d, st)) = Len(d) + 1 /\ Len(d) \in Nat
         /\ \A g \in 1..Len(d) : Append(d, st)[g] = d[g]
         /\ Append(d, st)[Len(d) + 1] = st /\ Append(d, st)[Len(Append(d, st))] = st
         /\ ChangesModules(Append(d, st), h) <=> ChangesModules(d, h)
         /\ ChangesDao(Append(d, st), h) <=> ChangesDao(d, h)
         /\ SameConfig(Append(d, st), h) => SameConfig(d, h) /\ st.config = d[Len(d)].config
         /\ SameVoting(Append(d, st), h) => SameVoting(d, h) /\ st.voting = d[Len(d)].voting
         /\ SameItems(Append(d, st), h) => SameItems(d, h) /\ st.items = d[Len(d)].items
         /\ SameModules(Append(d, st), h) => SameModules(d, h) /\ st.modules = d[Len(d)].modules
<1> DEFINE e == Append(d, st)
           n == Len(d)
<1>1. /\ e \in Seq(DaoState) /\ Len(e) = n + 1 /\ n \in Nat /\ e[n + 1] = st
      /\ \A g \in 1..n : e[g] = d[g]
  BY AppendProperties, LenProperties
<1> HIDE DEF e
<1>2. n \in 1..n /\ \A g \in h..n : g \in h..(n + 1) /\ g \in 1..n
  BY <1>1
<1>3. n \in h..n /\ n + 1 \in h..(n + 1)
  BY <1>1
<1>4. ChangesModules(e, h) <=> ChangesModules(d, h)
  <2>1. h # 1 => h - 1 \in 1..n
    BY <1>1
  <2> QED
    BY <1>1, <2>1 DEF ChangesModules
<1>5. ChangesDao(e, h) <=> ChangesDao(d, h)
  <2>1. h # 1 => h - 1 \in 1..n
    BY <1>1
  <2>2. h = 1 => ChangesModules(e, h) /\ ChangesModules(d, h)
    BY DEF ChangesModules
  <2> QED
    BY <1>1, <1>4, <2>1, <2>2 DEF ChangesDao
<1> HIDE DEF n
<1>6. SameConfig(e, h) => SameConfig(d, h) /\ st.config = d[n].config
  <2> SUFFICES ASSUME SameConfig(e, h) PROVE SameConfig(d, h) /\ st.config = d[n].config
    OBVIOUS
  <2>1. \A g \in h..(n + 1) : e[g].config = st.config
    BY <1>1 DEF SameConfig
  <2>2. \A g \in h..n : d[g].config = st.config
    BY <1>1, <1>2, <2>1
  <2> QED
    BY <1>3, <2>2 DEF SameConfig, n
<1>7. SameVoting(e, h) => SameVoting(d, h) /\ st.voting = d[n].voting
  <2> SUFFICES ASSUME SameVoting(e, h) PROVE SameVoting(d, h) /\ st.voting = d[n].voting
    OBVIOUS
  <2>1. \A g \in h..(n + 1) : e[g].voting = st.voting
    BY <1>1 DEF SameVoting
  <2>2. \A g \in h..n : d[g].voting = st.voting
    BY <1>1, <1>2, <2>1
  <2> QED
    BY <1>3, <2>2 DEF SameVoting, n
<1>8. SameItems(e, h) => SameItems(d, h) /\ st.items = d[n].items
  <2> SUFFICES ASSUME SameItems(e, h) PROVE SameItems(d, h) /\ st.items = d[n].items
    OBVIOUS
  <2>1. \A g \in h..(n + 1) : e[g].items = st.items
    BY <1>1 DEF SameItems
  <2>2. \A g \in h..n : d[g].items = st.items
    BY <1>1, <1>2, <2>1
  <2> QED
    BY <1>3, <2>2 DEF SameItems, n
<1>9. SameModules(e, h) => SameModules(d, h) /\ st.modules = d[n].modules
  <2> SUFFICES ASSUME SameModules(e, h) PROVE SameModules(d, h) /\ st.modules = d[n].modules
    OBVIOUS
  <2>1. \A g \in h..(n + 1) : e[g].modules = st.modules
    BY <1>1 DEF SameModules
  <2>2. \A g \in h..n : d[g].modules = st.modules
    BY <1>1, <1>2, <2>1
  <2> QED
    BY <1>3, <2>2 DEF SameModules, n
<1> QED
  BY <1>1, <1>4, <1>5, <1>6, <1>7, <1>8, <1>9 DEF e, n

\* A module of a V2 DAO does not go away.
Keeps(d, v, st) == v = 2 => \A m \in DaoModules : d[Len(d)].modules[m] # "none" => st.modules[m] # "none"

LEMMA RowsStay ==
  ASSUME NEW d \in Seq(DaoState), NEW st \in DaoState, NEW h \in 1..Len(d), NEW x, NEW v, Keeps(d, v, st)
  PROVE  /\ RowsOK(d, h, x) => RowsOK(Append(d, st), h, x)
         /\ HasModules(d, v, x.modules) => HasModules(Append(d, st), v, x.modules)
<1> DEFINE e == Append(d, st)
<1>1. /\ Len(e) = Len(d) + 1 /\ Len(d) \in Nat /\ e[Len(e)] = st
      /\ ChangesModules(e, h) <=> ChangesModules(d, h)
      /\ SameConfig(e, h) => SameConfig(d, h) /\ st.config = d[Len(d)].config
      /\ SameVoting(e, h) => SameVoting(d, h) /\ st.voting = d[Len(d)].voting
      /\ SameItems(e, h) => SameItems(d, h) /\ st.items = d[Len(d)].items
      /\ SameModules(e, h) => SameModules(d, h) /\ st.modules = d[Len(d)].modules
  BY ReadStays
<1> HIDE DEF e
<1>2. HasModules(d, v, x.modules) => HasModules(e, v, x.modules)
  BY <1>1 DEF HasModules, Keeps
<1>3. ASSUME RowsOK(d, h, x) PROVE RowsOK(e, h, x)
  <2>1. ConfigOK(e, h, x.config) /\ ItemsOK(e, h, x.items[1])
    BY <1>1, <1>3 DEF RowsOK, ConfigOK, ItemsOK
  <2>2. DumpOK(e, h, x.dump) /\ ModulesOK(e, h, x.modules)
    BY <1>1, <1>3 DEF RowsOK, DumpOK, ModulesOK
  <2>3. h <= Len(e)
    BY <1>1
  <2> QED
    BY <1>3, <2>1, <2>2, <2>3 DEF RowsOK
<1> QED
  BY <1>2, <1>3 DEF e

LEMMA RunningStays ==
  ASSUME NEW d \in Seq(DaoState), NEW st \in DaoState, NEW v, Keeps(d, v, st), NEW j, RunningOK(d, v, j)
  PROVE  RunningOK(Append(d, st), v, j)
<1> DEFINE e == Append(d, st)
           h == j.block
<1>1. h \in 1..Len(d)
  BY DEF RunningOK
<1> HIDE DEF h
<1>2. /\ Len(e) = Len(d) + 1 /\ Len(d) \in Nat /\ e[Len(e)] = st
      /\ ChangesModules(e, h) <=> ChangesModules(d, h)
      /\ SameConfig(e, h) => SameConfig(d, h) /\ st.config = d[Len(d)].config
      /\ SameVoting(e, h) => SameVoting(d, h) /\ st.voting = d[Len(d)].voting
      /\ SameItems(e, h) => SameItems(d, h) /\ st.items = d[Len(d)].items
      /\ SameModules(e, h) => SameModules(d, h) /\ st.modules = d[Len(d)].modules
  BY <1>1, ReadStays
<1> HIDE DEF e
<1>3. HasModules(e, v, j.rows.modules) /\ h \in 1..Len(e) /\ (ChangesModules(e, h) => j.all)
  BY <1>1, <1>2 DEF RunningOK, HasModules, Keeps, h
<1>4. "dump" \notin j.left => DumpOK(e, h, j.rows.dump) /\ ModulesOK(e, h, j.rows.modules)
  BY <1>2 DEF RunningOK, DumpOK, ModulesOK, h
<1>5. "config" \notin j.left => ConfigOK(e, h, j.rows.config) /\ j.rows.config # 0
  BY <1>2 DEF RunningOK, ConfigOK, h
<1>6. "items" \in j.left => ItemsOK(e, h, j.items \cup {k \in Last(e).items : k > j.after})
  <2> SUFFICES ASSUME "items" \in j.left
               PROVE  ItemsOK(e, h, j.items \cup {k \in Last(e).items : k > j.after})
    OBVIOUS
  <2>1. ItemsOK(d, h, j.items \cup {k \in Last(d).items : k > j.after})
    BY DEF RunningOK, h
  <2> QED
    BY <1>2, <2>1 DEF ItemsOK, Last
<1>7. "items" \notin j.left => j.rows.items # <<>> /\ ItemsOK(e, h, j.rows.items[1])
  BY <1>2 DEF RunningOK, ItemsOK, h
<1> QED
  BY <1>3, <1>4, <1>5, <1>6, <1>7 DEF RunningOK, e, h

LEMMA NoRowsIs ==
  /\ NoRows \in RowType /\ NoRows.items = <<>> /\ NoRows.dump = <<>> /\ NoRows.config = 0
  /\ \A m \in DaoModules : NoRows.modules[m] = NoData
  /\ NoData \notin ModuleStatus
<1>1. NoData \notin ModuleStatus
  BY DEF NoData, ModuleStatus
<1> QED
  BY <1>1 DEF NoRows, RowType

LEMMA DaoFirst == DaoInit => DaoInv
<1> SUFFICES ASSUME DaoInit PROVE DaoInv
  OBVIOUS
<1> DEFINE st == [config |-> 1, voting |-> 1, paused |-> FALSE, items |-> {},
                  modules |-> [m \in DaoModules |-> IF m = Min(DaoModules) THEN "enabled" ELSE "none"]]
<1>1. /\ version \in {1, 2} /\ dao = <<st>> /\ daoJob = {}
      /\ daoJobs = IF daoKnown THEN {[block |-> 1, modules |-> TRUE]} ELSE {}
      /\ daoLost = IF daoKnown THEN {} ELSE {1}
      /\ extraction = [h \in 1..DaoBlocks |-> NoRows] /\ daoBound \in DaoBoundType
  BY DaoAssumption DEF DaoInit, DaoBoundType
<1>2. st \in DaoState /\ st.items = {}
  BY DEF DaoState, ModuleStatus
<1> HIDE DEF st
<1>3. dao \in Seq(DaoState) /\ Len(dao) = 1 /\ dao[1] = st /\ DaoBlocks \in Nat /\ 1 \in 1..DaoBlocks
  BY <1>1, <1>2, DaoAssumption
<1>4. \A h \in 1..Len(dao) : h = 1 /\ IsFiniteSet(dao[h].items)
  <2>1. IsFiniteSet(st.items)
    BY <1>2, FS_EmptySet
  <2> QED
    BY <1>3, <2>1
<1>5. \A h \in 1..DaoBlocks : extraction[h] = NoRows
  BY <1>1
<1>6. DaoTypeOK
  BY <1>1, <1>3, <1>4, <1>5, NoRowsIs DEF DaoTypeOK, DaoJobType
<1>7. \A j \in daoJobs : j.block \in 1..Len(dao) /\ (ChangesModules(dao, j.block) => j.modules)
  BY <1>1, <1>3
<1>8. \A h \in 1..DaoBlocks : HasModules(dao, version, extraction[h].modules)
  BY <1>5, NoRowsIs DEF HasModules
<1>9. \A h \in 1..Len(dao) : Handled(h)
  BY <1>1, <1>4 DEF Handled
<1> QED
  BY <1>1, <1>5, <1>6, <1>7, <1>8, <1>9 DEF DaoInv

\* An operation. A job is queued for it unless it changes nothing that is extracted.
LEMMA OperateInv ==
  ASSUME DaoInv, NEW st \in DaoState, NEW queued \in BOOLEAN, NEW modules \in BOOLEAN,
         Operate(st, queued, modules), IsFiniteSet(st.items), Keeps(dao, version, st),
         st.modules # DaoNow.modules => queued /\ modules,
         ~queued => st.config = DaoNow.config /\ st.voting = DaoNow.voting /\ st.items = DaoNow.items
  PROVE  DaoInv'
<1> DEFINE n == Len(dao)
<1>1. /\ n < daoBound.blocks /\ dao' = Append(dao, st) /\ UNCHANGED <<version, daoJob, extraction, daoLost, daoBound>>
      /\ daoJobs' = IF queued THEN daoJobs \cup {[block |-> n + 1, modules |-> modules]} ELSE daoJobs
  BY DEF Operate, DaoTip
<1>2. DaoTypeOK /\ dao \in Seq(DaoState) /\ n \in 1..DaoBlocks /\ n \in Nat /\ DaoBlocks \in Nat /\ DaoNow = dao[n]
  BY DaoAssumption DEF DaoInv, DaoTypeOK, DaoNow, DaoTip
<1>3. /\ dao' \in Seq(DaoState) /\ Len(dao') = n + 1 /\ dao'[n + 1] = st
      /\ \A g \in 1..n : dao'[g] = dao[g]
  BY <1>1, <1>2, ReadStays
<1>4. \A h \in 1..n : (ChangesModules(dao', h) <=> ChangesModules(dao, h)) /\ (ChangesDao(dao', h) <=> ChangesDao(dao, h))
  BY <1>1, <1>2, ReadStays
<1> HIDE DEF n
<1>0. daoBound.blocks \in 1..DaoBlocks
  <2>1. daoBound \in DaoBoundType
    BY <1>2 DEF DaoTypeOK
  <2> QED
    BY <2>1 DEF DaoBoundType
<1>5. n + 1 \in 1..DaoBlocks /\ n + 1 # 1 /\ (n + 1) - 1 = n /\ n \in 1..n /\ \A h \in 1..(n + 1) : h = n + 1 \/ h \in 1..n
  <2>1. n < daoBound.blocks /\ n \in 1..DaoBlocks /\ DaoBlocks \in Nat
    BY <1>1, <1>2
  <2>2. PICK b \in 1..DaoBlocks : b = daoBound.blocks
    BY <1>0
  <2>3. n < b
    BY <2>1, <2>2
  <2> QED
    BY ONLY <2>1, <2>3
<1>6. /\ ChangesModules(dao', n + 1) <=> st.modules # dao[n].modules
      /\ ChangesDao(dao', n + 1) => queued
  <2>1. ChangesModules(dao', n + 1) <=> st.modules # dao[n].modules
    BY <1>3, <1>5 DEF ChangesModules
  <2>2. ChangesDao(dao', n + 1) => \/ st.modules # dao[n].modules \/ st.config # dao[n].config
                                   \/ st.voting # dao[n].voting \/ st.items # dao[n].items
    BY <1>3, <1>5, <2>1 DEF ChangesDao
  <2> QED
    BY <1>2, <2>1, <2>2
<1>7. daoJobs' \in SUBSET DaoJobType
  <2>1. [block |-> n + 1, modules |-> modules] \in DaoJobType
    BY <1>2 DEF DaoJobType
  <2> QED
    BY <1>1, <1>2, <2>1 DEF DaoTypeOK
<1>8. DaoTypeOK'
  <2>1. \A h \in 1..Len(dao') : IsFiniteSet(dao'[h].items)
    BY <1>2, <1>3, <1>5 DEF DaoTypeOK, n
  <2> QED
    BY <1>1, <1>2, <1>3, <1>5, <1>7, <2>1 DEF DaoTypeOK
<1>9. ASSUME NEW j \in daoJobs' PROVE j.block \in 1..Len(dao') /\ (ChangesModules(dao', j.block) => j.modules)
  <2>1. CASE j \in daoJobs
    <3>1. j.block \in 1..n /\ (ChangesModules(dao, j.block) => j.modules)
      BY <2>1 DEF DaoInv, n
    <3> QED
      BY <1>2, <1>3, <1>4, <3>1
  <2>2. CASE queued /\ j = [block |-> n + 1, modules |-> modules]
    <3>1. j.block = n + 1 /\ j.modules = modules
      BY <2>2
    <3> QED
      BY <1>2, <1>3, <1>5, <1>6, <3>1
  <2> QED
    BY <1>1, <2>1, <2>2
<1>10. \A j \in daoJob' : RunningOK(dao', version', j)
  BY <1>1, <1>2, RunningStays DEF DaoInv
<1>11. ASSUME NEW h \in 1..DaoBlocks
       PROVE  (extraction'[h] = NoRows \/ RowsOK(dao', h, extraction'[h])) /\ HasModules(dao', version', extraction'[h].modules)
  <2>1. CASE extraction[h] = NoRows
    BY <1>1, <2>1, NoRowsIs DEF HasModules
  <2>2. CASE RowsOK(dao, h, extraction[h])
    <3>1. h \in 1..n
      BY <1>2, <2>2 DEF RowsOK, n
    <3>2. HasModules(dao, version, extraction[h].modules)
      BY DEF DaoInv
    <3> QED
      BY <1>1, <1>2, <2>2, <3>1, <3>2, RowsStay DEF n
  <2> QED
    BY <2>1, <2>2 DEF DaoInv
<1>12. ASSUME NEW h \in 1..Len(dao'), ChangesDao(dao', h) PROVE Handled(h)'
  <2>1. CASE h = n + 1
    <3>1. [block |-> n + 1, modules |-> modules] \in daoJobs'
      BY <1>1, <1>6, <1>12, <2>1
    <3> QED
      BY <2>1, <3>1 DEF Handled
  <2>2. CASE h \in 1..n
    <3>1. Handled(h)
      BY <1>1, <1>4, <1>12, <2>2 DEF DaoInv, n
    <3> QED
      BY <1>1, <3>1 DEF Handled
  <2> QED
    BY <1>3, <1>5, <2>1, <2>2
<1> QED
  BY <1>8, <1>9, <1>10, <1>11, <1>12 DEF DaoInv

LEMMA ContractInv ==
  ASSUME DaoInv, SetItem \/ RemoveItem \/ UpdateConfig \/ UpdateVotingModule \/ UpdateProposalModules \/ Pause
  PROVE  DaoInv'
<1>1. DaoNow \in DaoState /\ IsFiniteSet(DaoNow.items) /\ version \in {1, 2}
  <2>1. Len(dao) \in 1..Len(dao)
    BY DEF DaoInv, DaoTypeOK
  <2> QED
    BY <2>1 DEF DaoInv, DaoTypeOK, DaoNow, DaoTip
<1>2. \A st : st.modules = DaoNow.modules => Keeps(dao, version, st)
  BY DEF Keeps, DaoNow, DaoTip
<1>3. CASE SetItem
  <2>1. PICK k \in DaoItems : Operate([DaoNow EXCEPT !.items = @ \cup {k}], TRUE, FALSE)
    BY <1>3 DEF SetItem
  <2> DEFINE st == [DaoNow EXCEPT !.items = @ \cup {k}]
  <2>2. st \in DaoState /\ st.modules = DaoNow.modules /\ st.items = DaoNow.items \cup {k}
    BY <1>1 DEF DaoState
  <2> HIDE DEF st
  <2>3. IsFiniteSet(st.items)
    BY <1>1, <2>2, FS_AddElement
  <2>4. Operate(st, TRUE, FALSE)
    BY <2>1 DEF st
  <2> QED
    BY <1>2, <2>2, <2>3, <2>4, OperateInv
<1>4. CASE RemoveItem
  <2>1. PICK k \in DaoNow.items : Operate([DaoNow EXCEPT !.items = @ \ {k}], TRUE, FALSE)
    BY <1>4 DEF RemoveItem
  <2> DEFINE st == [DaoNow EXCEPT !.items = @ \ {k}]
  <2>2. st \in DaoState /\ st.modules = DaoNow.modules /\ st.items = DaoNow.items \ {k}
    BY <1>1 DEF DaoState
  <2> HIDE DEF st
  <2>3. IsFiniteSet(st.items)
    BY <1>1, <2>2, FS_RemoveElement
  <2>4. Operate(st, TRUE, FALSE)
    BY <2>1 DEF st
  <2> QED
    BY <1>2, <2>2, <2>3, <2>4, OperateInv
<1>5. CASE UpdateConfig
  <2> DEFINE st == [DaoNow EXCEPT !.config = 3 - @]
  <2>1. st \in DaoState /\ st.modules = DaoNow.modules /\ st.items = DaoNow.items
    BY <1>1 DEF DaoState
  <2>2. Operate(st, TRUE, FALSE)
    BY <1>5 DEF UpdateConfig
  <2> HIDE DEF st
  <2> QED
    BY <1>1, <1>2, <2>1, <2>2, OperateInv
<1>6. CASE UpdateVotingModule
  <2> DEFINE st == [DaoNow EXCEPT !.voting = 3 - @]
  <2>1. st \in DaoState /\ st.modules = DaoNow.modules /\ st.items = DaoNow.items
    BY <1>1 DEF DaoState
  <2>2. Operate(st, TRUE, FALSE)
    BY <1>6 DEF UpdateVotingModule
  <2> HIDE DEF st
  <2> QED
    BY <1>1, <1>2, <2>1, <2>2, OperateInv
<1>7. CASE UpdateProposalModules
  <2>1. PICK m \in DaoModules :
            Operate([DaoNow EXCEPT !.modules[m] =
                        CASE @ = "enabled" -> IF version = 1 THEN "none" ELSE "disabled"
                          [] OTHER -> "enabled"], TRUE, TRUE)
    BY <1>7 DEF UpdateProposalModules, SavesModules
  <2> DEFINE status == IF DaoNow.modules[m] = "enabled" THEN IF version = 1 THEN "none" ELSE "disabled" ELSE "enabled"
             st == [DaoNow EXCEPT !.modules = [DaoNow.modules EXCEPT ![m] = status]]
  <2>2. Operate(st, TRUE, TRUE)
    BY <2>1
  <2>3. status \in ModuleStatus /\ (version = 2 => status # "none")
    BY <1>1 DEF ModuleStatus
  <2> HIDE DEF status
  <2>4. st \in DaoState /\ st.modules = [DaoNow.modules EXCEPT ![m] = status] /\ st.items = DaoNow.items
    BY <1>1, <2>3 DEF DaoState
  <2>5. Keeps(dao, version, st)
    BY <1>1, <2>3, <2>4 DEF Keeps, DaoNow, DaoTip, DaoState
  <2> HIDE DEF st
  <2> QED
    BY <1>1, <2>2, <2>4, <2>5, OperateInv
<1>8. CASE Pause
  <2> DEFINE st == [DaoNow EXCEPT !.paused = TRUE]
  <2>1. /\ st \in DaoState /\ st.modules = DaoNow.modules /\ st.items = DaoNow.items
        /\ st.config = DaoNow.config /\ st.voting = DaoNow.voting
    BY <1>1 DEF DaoState
  <2>2. Operate(st, FALSE, FALSE)
    BY <1>8 DEF Pause
  <2> HIDE DEF st
  <2> QED
    BY <1>1, <1>2, <2>1, <2>2, OperateInv
<1> QED
  BY <1>3, <1>4, <1>5, <1>6, <1>7, <1>8

\* A query changes one run.
LEMMA RunInv ==
  ASSUME DaoInv, NEW i \in daoJob, NEW j \in RunningType, Run(i, j), j.block = i.block, RunningOK(dao, version, j)
  PROVE  DaoInv'
<1>1. /\ UNCHANGED <<dao, version, daoJobs, extraction, daoLost, daoBound>>
      /\ daoJob' = (daoJob \ {i}) \cup {j}
  BY DEF Run
<1>2. DaoTypeOK'
  BY <1>1 DEF DaoInv, DaoTypeOK
<1>3. \A l \in daoJob' : RunningOK(dao, version, l)
  BY <1>1 DEF DaoInv
<1>4. ASSUME NEW h \in 1..Len(dao), ChangesDao(dao, h) PROVE Handled(h)'
  <2>1. Handled(h)
    BY <1>4 DEF DaoInv
  <2>2. j \in daoJob' /\ \A l \in daoJob : l.block = h => \E m \in daoJob' : m.block = h
    BY <1>1
  <2> QED
    BY <1>1, <2>1, <2>2 DEF Handled
<1> QED
  BY <1>1, <1>2, <1>3, <1>4 DEF DaoInv

LEMMA StartDaoJobInv == ASSUME DaoInv, StartDaoJob PROVE DaoInv'
<1>1. UNCHANGED <<dao, version, extraction, daoLost, daoBound>>
  BY DEF StartDaoJob
<1>2. PICK i \in daoJobs :
          /\ daoJob' = daoJob \cup {[block |-> i.block, all |-> i.modules, left |-> {"dump", "config", "items"},
                                     after |-> -1, rows |-> NoRows, items |-> {}]}
          /\ daoJobs' = daoJobs \ {i}
  BY DEF StartDaoJob
<1> DEFINE j == [block |-> i.block, all |-> i.modules, left |-> {"dump", "config", "items"},
                 after |-> -1, rows |-> NoRows, items |-> {}]
<1>3. i \in DaoJobType /\ i.block \in 1..Len(dao) /\ (ChangesModules(dao, i.block) => i.modules)
  BY DEF DaoInv, DaoTypeOK
<1>4. /\ j \in RunningType /\ j.block = i.block /\ j.all = i.modules /\ j.left = {"dump", "config", "items"}
      /\ j.rows = NoRows /\ j.items = {} /\ j.after = -1
  BY <1>3, NoRowsIs DEF RunningType, DaoJobType
<1>5. daoJob' = daoJob \cup {j}
  BY <1>2
<1> HIDE DEF j
<1>6. RunningOK(dao, version, j)
  <2>1. Last(dao) \in DaoState
    <3>1. Len(dao) \in 1..Len(dao)
      BY DEF DaoInv, DaoTypeOK
    <3> QED
      BY <3>1 DEF DaoInv, DaoTypeOK, Last
  <2>2. \A k \in Last(dao).items : k > -1
    <3>1. Last(dao).items \in SUBSET DaoItems
      BY <2>1 DEF DaoState
    <3>2. \A k \in Last(dao).items : k \in Nat
      BY <3>1, DaoAssumption
    <3> QED
      BY <3>2
  <2>3. ItemsOK(dao, j.block, j.items \cup {k \in Last(dao).items : k > j.after})
    BY <1>4, <2>2 DEF ItemsOK, Last
  <2> QED
    BY <1>3, <1>4, <2>3, NoRowsIs DEF RunningOK, HasModules
<1>7. DaoTypeOK'
  BY <1>1, <1>2, <1>4, <1>5 DEF DaoInv, DaoTypeOK
<1>8. ASSUME NEW h \in 1..Len(dao), ChangesDao(dao, h) PROVE Handled(h)'
  <2>1. Handled(h)
    BY <1>8 DEF DaoInv
  <2>2. j \in daoJob' /\ \A l \in daoJob : l \in daoJob'
    BY <1>5
  <2> QED
    BY <1>1, <1>2, <1>4, <2>1, <2>2 DEF Handled
<1>9. \A l \in daoJob' : RunningOK(dao, version, l)
  BY <1>5, <1>6 DEF DaoInv
<1> QED
  BY <1>1, <1>2, <1>7, <1>8, <1>9 DEF DaoInv

\* A job that is ignored is lost.
LEMMA IgnoreDaoJobInv == ASSUME DaoInv, IgnoreDaoJob PROVE DaoInv'
<1>1. UNCHANGED <<dao, version, daoJob, extraction, daoBound>>
  BY DEF IgnoreDaoJob
<1>2. PICK i \in daoJobs : daoJobs' = daoJobs \ {i} /\ daoLost' = daoLost \cup {i.block}
  BY DEF IgnoreDaoJob
<1>3. DaoTypeOK'
  BY <1>1, <1>2 DEF DaoInv, DaoTypeOK
<1>4. ASSUME NEW h \in 1..Len(dao), ChangesDao(dao, h) PROVE Handled(h)'
  <2>1. Handled(h)
    BY <1>4 DEF DaoInv
  <2> QED
    BY <1>1, <1>2, <2>1 DEF Handled
<1> QED
  BY <1>1, <1>2, <1>3, <1>4 DEF DaoInv

\* What is known of a run and of the present.
LEMMA RunFacts ==
  ASSUME DaoInv, NEW i \in daoJob
  PROVE  /\ i \in RunningType /\ RunningOK(dao, version, i) /\ DaoNow \in DaoState /\ DaoNow = dao[Len(dao)]
         /\ IsFiniteSet(DaoNow.items) /\ DaoTypeOK /\ Len(dao) \in 1..DaoBlocks /\ DaoBlocks \in Nat
         /\ i.block \in 1..Len(dao) /\ i.rows \in RowType
<1>1. DaoTypeOK /\ RunningOK(dao, version, i)
  BY DEF DaoInv
<1>2. /\ dao \in Seq(DaoState) /\ Len(dao) \in 1..DaoBlocks /\ DaoBlocks \in Nat
      /\ i \in RunningType /\ \A h \in 1..Len(dao) : IsFiniteSet(dao[h].items)
  BY <1>1, DaoAssumption DEF DaoTypeOK
<1>3. Len(dao) \in 1..Len(dao) /\ DaoNow = dao[Len(dao)]
  BY <1>2 DEF DaoNow, DaoTip
<1>4. DaoNow \in DaoState /\ IsFiniteSet(DaoNow.items)
  BY <1>2, <1>3
<1>5. i.block \in 1..Len(dao)
  BY <1>1 DEF RunningOK
<1>6. i.rows \in RowType
  BY <1>2 DEF RunningType
<1> QED
  BY <1>1, <1>2, <1>3, <1>4, <1>5, <1>6

\* What the node answers now is the present.
LEMMA QueryDumpInv == ASSUME DaoInv, NEW i \in daoJob, QueryDump(i) PROVE DaoInv'
<1> DEFINE dump == [voting |-> DaoNow.voting, paused |-> DaoNow.paused, modules |-> DaoNow.modules]
           modules == [m \in DaoModules |-> IF i.all /\ DaoNow.modules[m] # "none" THEN DaoNow.modules[m] ELSE NoData]
           rows == [i.rows EXCEPT !.dump = <<dump>>, !.modules = modules]
           j == [i EXCEPT !.left = @ \ {"dump"}, !.rows = rows]
<1>1. Run(i, j)
  BY DEF QueryDump
<1>2. i \in RunningType /\ RunningOK(dao, version, i) /\ DaoNow \in DaoState /\ DaoNow = dao[Len(dao)] /\ i.rows \in RowType
  BY RunFacts
<1>3. dump \in DumpType /\ dump.voting = DaoNow.voting /\ dump.modules = DaoNow.modules
  BY <1>2 DEF DumpType, DaoState
<1> HIDE DEF dump
<1>4. /\ modules \in [DaoModules -> ModuleStatus \cup {NoData}]
      /\ \A m \in DaoModules : modules[m] = IF i.all /\ DaoNow.modules[m] # "none" THEN DaoNow.modules[m] ELSE NoData
  BY <1>2 DEF DaoState
<1> HIDE DEF modules
<1>5. /\ rows \in RowType /\ rows.dump = <<dump>> /\ rows.modules = modules
      /\ rows.config = i.rows.config /\ rows.items = i.rows.items
  BY <1>2, <1>3, <1>4 DEF RowType
<1> HIDE DEF rows
<1>6. /\ j \in RunningType /\ j.block = i.block /\ j.left = i.left \ {"dump"} /\ j.all = i.all /\ j.rows = rows
      /\ j.items = i.items /\ j.after = i.after
  BY <1>2, <1>5 DEF RunningType
<1> HIDE DEF j
<1>7. DumpOK(dao, i.block, rows.dump)
  BY <1>2, <1>3, <1>5 DEF DumpOK
<1>8. ModulesOK(dao, i.block, rows.modules) /\ HasModules(dao, version, rows.modules)
  <2>1. ChangesModules(dao, i.block) => i.all
    BY <1>2 DEF RunningOK
  <2>2. \A m \in DaoModules : DaoNow.modules[m] # NoData
    BY <1>2, NoRowsIs DEF DaoState
  <2> QED
    BY <1>2, <1>4, <1>5, <2>1, <2>2 DEF ModulesOK, HasModules
<1>9. RunningOK(dao, version, j)
  <2>1. j.block \in 1..Len(dao) /\ (ChangesModules(dao, j.block) => j.all)
    BY <1>2, <1>6 DEF RunningOK
  <2>2. "config" \notin j.left => ConfigOK(dao, j.block, j.rows.config) /\ j.rows.config # 0
    BY <1>2, <1>5, <1>6 DEF RunningOK
  <2>3. "items" \in j.left => ItemsOK(dao, j.block, j.items \cup {k \in Last(dao).items : k > j.after})
    BY <1>2, <1>6 DEF RunningOK
  <2>4. "items" \notin j.left => j.rows.items # <<>> /\ ItemsOK(dao, j.block, j.rows.items[1])
    BY <1>2, <1>5, <1>6 DEF RunningOK
  <2> QED
    BY <1>6, <1>7, <1>8, <2>1, <2>2, <2>3, <2>4 DEF RunningOK
<1> QED
  BY <1>1, <1>6, <1>9, RunInv

LEMMA QueryConfigInv == ASSUME DaoInv, NEW i \in daoJob, QueryConfig(i) PROVE DaoInv'
<1> DEFINE rows == [i.rows EXCEPT !.config = DaoNow.config]
           j == [i EXCEPT !.left = @ \ {"config"}, !.rows = rows]
<1>1. Run(i, j)
  BY DEF QueryConfig
<1>2. i \in RunningType /\ RunningOK(dao, version, i) /\ DaoNow \in DaoState /\ DaoNow = dao[Len(dao)] /\ i.rows \in RowType
  BY RunFacts
<1>3. /\ rows \in RowType /\ rows.config = DaoNow.config /\ DaoNow.config # 0
      /\ rows.dump = i.rows.dump /\ rows.modules = i.rows.modules /\ rows.items = i.rows.items
  <2>1. DaoNow.config \in {1, 2}
    BY <1>2 DEF DaoState
  <2> QED
    BY <1>2, <2>1 DEF RowType
<1> HIDE DEF rows
<1>4. /\ j \in RunningType /\ j.block = i.block /\ j.left = i.left \ {"config"} /\ j.all = i.all /\ j.rows = rows
      /\ j.items = i.items /\ j.after = i.after
  BY <1>2, <1>3 DEF RunningType
<1> HIDE DEF j
<1>5. RunningOK(dao, version, j)
  <2>1. ConfigOK(dao, j.block, j.rows.config) /\ j.rows.config # 0
    BY <1>2, <1>3, <1>4 DEF ConfigOK
  <2>2. "items" \in j.left => ItemsOK(dao, j.block, j.items \cup {k \in Last(dao).items : k > j.after})
    BY <1>2, <1>4 DEF RunningOK
  <2>3. "items" \notin j.left => j.rows.items # <<>> /\ ItemsOK(dao, j.block, j.rows.items[1])
    BY <1>2, <1>3, <1>4 DEF RunningOK
  <2>4. /\ j.block \in 1..Len(dao) /\ (ChangesModules(dao, j.block) => j.all) /\ HasModules(dao, version, j.rows.modules)
        /\ "dump" \notin j.left => DumpOK(dao, j.block, j.rows.dump) /\ ModulesOK(dao, j.block, j.rows.modules)
    BY <1>2, <1>3, <1>4 DEF RunningOK
  <2> QED
    BY <2>1, <2>2, <2>3, <2>4 DEF RunningOK
<1> QED
  BY <1>1, <1>4, <1>5, RunInv

\* The pages of items join to all of them if none changed meanwhile.
LEMMA QueryItemsInv == ASSUME DaoInv, NEW i \in daoJob, QueryItems(i) PROVE DaoInv'
<1> DEFINE rest == {k \in DaoNow.items : k > i.after}
           page == {k \in rest : Cardinality({l \in rest : l < k}) < ItemLimit}
           found == i.items \cup page
           rows == [i.rows EXCEPT !.items = <<found>>]
           last == [i EXCEPT !.left = {}, !.rows = rows]
<1>1. /\ i.left = {"items"}
      /\ Run(i, IF LastPage(page) THEN last ELSE [i EXCEPT !.after = Max(page), !.items = found])
  BY DEF QueryItems
<1>2. /\ i \in RunningType /\ RunningOK(dao, version, i) /\ DaoNow \in DaoState /\ DaoNow = dao[Len(dao)]
      /\ IsFiniteSet(DaoNow.items) /\ i.rows \in RowType
  BY RunFacts
<1>3. rest \in SUBSET Nat /\ rest \in SUBSET DaoNow.items /\ DaoNow.items \in SUBSET DaoItems /\ DaoItems \in SUBSET Nat
  BY <1>2, DaoAssumption DEF DaoState
<1>4. page = {k \in rest : Cardinality({l \in rest : l < k}) < ItemLimit}
  OBVIOUS
<1>5. \A k \in DaoNow.items : k \in rest <=> k > i.after
  OBVIOUS
<1>6. rest = {k \in Last(dao).items : k > i.after}
  BY <1>2 DEF Last
<1> HIDE DEF rest, page
<1>7. IsFiniteSet(rest) /\ ItemLimit \in Nat \ {0}
  BY <1>2, <1>3, DaoAssumption, FS_Subset
<1>8. /\ IsFiniteSet(page) /\ Cardinality(page) \in Nat /\ page \subseteq rest
      /\ \A k \in page, l \in rest : l < k => l \in page
      /\ Cardinality(page) < ItemLimit => page = rest
  BY <1>3, <1>4, <1>7, PagesAre
<1>9. ItemsOK(dao, i.block, i.items \cup rest)
  BY <1>1, <1>2, <1>6 DEF RunningOK
<1>10. /\ i.block \in 1..Len(dao) /\ (ChangesModules(dao, i.block) => i.all) /\ HasModules(dao, version, i.rows.modules)
       /\ DumpOK(dao, i.block, i.rows.dump) /\ ModulesOK(dao, i.block, i.rows.modules)
       /\ ConfigOK(dao, i.block, i.rows.config) /\ i.rows.config # 0
  BY <1>1, <1>2 DEF RunningOK
<1>11. i.items \in SUBSET DaoItems /\ found \in SUBSET DaoItems
  BY <1>2, <1>3, <1>8 DEF RunningType
<1> HIDE DEF found
<1>12. CASE LastPage(page)
  <2>1. found = i.items \cup rest
    BY <1>8, <1>12 DEF LastPage, found
  <2>2. /\ rows \in RowType /\ rows.items = <<found>> /\ rows.dump = i.rows.dump /\ rows.config = i.rows.config
        /\ rows.modules = i.rows.modules /\ rows.items[1] = found /\ rows.items # <<>>
    BY <1>2, <1>11 DEF RowType
  <2> HIDE DEF rows
  <2>3. last \in RunningType /\ last.block = i.block /\ last.left = {} /\ last.all = i.all /\ last.rows = rows
    BY <1>2, <2>2 DEF RunningType
  <2> HIDE DEF last
  <2>4. RunningOK(dao, version, last)
    BY <1>9, <1>10, <2>1, <2>2, <2>3 DEF RunningOK
  <2>5. Run(i, last)
    BY <1>1, <1>12
  <2> QED
    BY <2>3, <2>4, <2>5, RunInv
<1>13. CASE ~LastPage(page)
  <2> DEFINE m == Max(page)
             j == [i EXCEPT !.after = m, !.items = found]
  <2>1. Run(i, j)
    BY <1>1, <1>13
  <2>2. page # {}
    BY <1>7, <1>8, <1>13, FS_EmptySet DEF LastPage
  <2>3. m \in page /\ \A k \in page : k <= m
    BY <1>3, <1>8, <2>2, MaxOf
  <2> HIDE DEF m
  <2>4. m \in Nat /\ m > i.after /\ i.after \in Int
    <3>1. m \in rest /\ m \in DaoNow.items /\ m \in Nat
      BY <1>3, <1>8, <2>3
    <3> QED
      BY <1>2, <1>5, <3>1 DEF RunningType
  <2>5. /\ j \in RunningType /\ j.block = i.block /\ j.left = {"items"} /\ j.all = i.all /\ j.rows = i.rows
        /\ j.items = found /\ j.after = m
    <3>1. m \in Int
      BY <2>4
    <3> QED
      BY <1>1, <1>2, <1>11, <3>1 DEF RunningType
  <2> HIDE DEF j
  <2>6. found \cup {k \in Last(dao).items : k > m} = i.items \cup rest
    <3>1. ASSUME NEW k \in DaoNow.items PROVE k \in rest <=> k \in page \/ k > m
      <4>1. k \in Nat
        BY <1>3
      <4>2. k > m => k \in rest
        BY <1>5, <2>4, <4>1
      <4>3. k \in rest /\ ~(k > m) => k \in page
        BY <1>8, <2>3, <2>4, <4>1
      <4> QED
        BY <1>8, <4>2, <4>3
    <3> QED
      BY <1>2, <1>3, <1>8, <3>1 DEF found, Last
  <2>7. RunningOK(dao, version, j)
    <3>1. ItemsOK(dao, j.block, j.items \cup {k \in Last(dao).items : k > j.after})
      BY <1>9, <2>5, <2>6
    <3> QED
      BY <1>10, <2>5, <3>1 DEF RunningOK
  <2> QED
    BY <2>1, <2>5, <2>7, RunInv
<1> QED
  BY <1>12, <1>13

\* What is stored for a block, over what an attempt before stored for it.
LEMMA SaveDaoInv == ASSUME DaoInv, NEW i \in daoJob, SaveDao(i) PROVE DaoInv'
<1> DEFINE old == extraction[i.block]
           modules == [m \in DaoModules |-> IF i.rows.modules[m] = NoData THEN old.modules[m] ELSE i.rows.modules[m]]
           x == [i.rows EXCEPT !.modules = modules]
<1>1. /\ i.left = {} /\ UNCHANGED <<dao, version, daoJobs, daoLost, daoBound>>
      /\ extraction' = [extraction EXCEPT ![i.block] = x] /\ daoJob' = daoJob \ {i}
  BY DEF SaveDao
<1>2. /\ i \in RunningType /\ RunningOK(dao, version, i) /\ DaoTypeOK /\ Len(dao) \in 1..DaoBlocks /\ DaoBlocks \in Nat
      /\ i.block \in 1..Len(dao) /\ i.rows \in RowType
  BY RunFacts
<1>3. i.block \in 1..DaoBlocks
  BY <1>2
<1>4. /\ old \in RowType /\ HasModules(dao, version, old.modules)
      /\ old = NoRows \/ RowsOK(dao, i.block, old)
  BY <1>2, <1>3 DEF DaoInv, DaoTypeOK
<1>5. /\ i.rows.config # 0 /\ i.rows.items # <<>> /\ ConfigOK(dao, i.block, i.rows.config)
      /\ DumpOK(dao, i.block, i.rows.dump) /\ ModulesOK(dao, i.block, i.rows.modules)
      /\ ItemsOK(dao, i.block, i.rows.items[1]) /\ HasModules(dao, version, i.rows.modules)
  BY <1>1, <1>2 DEF RunningOK
<1> HIDE DEF old
<1>6. /\ modules \in [DaoModules -> ModuleStatus \cup {NoData}]
      /\ \A m \in DaoModules : modules[m] = IF i.rows.modules[m] = NoData THEN old.modules[m] ELSE i.rows.modules[m]
  BY <1>2, <1>4 DEF RowType
<1> HIDE DEF modules
<1>7. /\ x \in RowType /\ x.modules = modules /\ x.config = i.rows.config /\ x.items = i.rows.items
      /\ x.dump = i.rows.dump
  BY <1>2, <1>6 DEF RowType
<1> HIDE DEF x
<1>8. ModulesOK(dao, i.block, modules) /\ HasModules(dao, version, modules)
  <2>1. ModulesOK(dao, i.block, old.modules) \/ \A m \in DaoModules : old.modules[m] = NoData
    BY <1>4, NoRowsIs DEF RowsOK
  <2>2. HasModules(dao, version, modules)
    BY <1>4, <1>5, <1>6 DEF HasModules
  <2>3. ModulesOK(dao, i.block, modules)
    BY <1>5, <1>6, <2>1 DEF ModulesOK
  <2> QED
    BY <2>2, <2>3
<1>9. RowsOK(dao, i.block, x) /\ HasModules(dao, version, x.modules)
  <2>1. i.block <= Len(dao)
    BY <1>2
  <2> QED
    BY <1>5, <1>7, <1>8, <2>1 DEF RowsOK
<1>10. /\ extraction' \in [1..DaoBlocks -> RowType] /\ extraction'[i.block] = x
       /\ \A h \in 1..DaoBlocks : h # i.block => extraction'[h] = extraction[h]
  BY <1>1, <1>2, <1>3, <1>7 DEF DaoTypeOK
<1>11. DaoTypeOK'
  BY <1>1, <1>2, <1>10 DEF DaoTypeOK
<1>12. ASSUME NEW h \in 1..Len(dao), ChangesDao(dao, h) PROVE Handled(h)'
  <2>1. Handled(h)
    BY <1>12 DEF DaoInv
  <2>2. x.items # <<>> /\ h \in 1..DaoBlocks
    BY <1>2, <1>5, <1>7
  <2>3. CASE h = i.block
    BY <1>10, <2>2, <2>3 DEF Handled
  <2>4. CASE h # i.block
    <3>1. \A l \in daoJob : l.block = h => l \in daoJob'
      BY <1>1, <2>4
    <3> QED
      BY <1>1, <1>10, <2>1, <2>2, <2>4, <3>1 DEF Handled
  <2> QED
    BY <2>3, <2>4
<1>13. \A h \in 1..DaoBlocks : /\ extraction'[h] = NoRows \/ RowsOK(dao, h, extraction'[h])
                               /\ HasModules(dao, version, extraction'[h].modules)
  BY <1>9, <1>10 DEF DaoInv
<1>14. \A l \in daoJob' : RunningOK(dao, version, l)
  BY <1>1 DEF DaoInv
<1> QED
  BY <1>1, <1>11, <1>12, <1>13, <1>14 DEF DaoInv

\* An attempt that ends without a result is repeated or lost; the run may go on.
LEMMA EndDaoRunInv == ASSUME DaoInv, NEW i \in daoJob, TryDaoAgain(i) \/ FailDaoJob(i) PROVE DaoInv'
<1> DEFINE again == [block |-> i.block, modules |-> i.all]
<1>1. UNCHANGED <<dao, version, extraction>> /\ daoJob' \in {daoJob, daoJob \ {i}}
  BY DEF TryDaoAgain, FailDaoJob
<1>2. \/ daoJobs' = daoJobs \cup {again} /\ daoLost' = daoLost
      \/ daoJobs' = daoJobs /\ daoLost' = daoLost \cup {i.block}
  BY DEF TryDaoAgain, FailDaoJob
<1>3. /\ i \in RunningType /\ i.block \in 1..Len(dao) /\ (ChangesModules(dao, i.block) => i.all)
  BY RunFacts DEF RunningOK
<1>4. again \in DaoJobType /\ again.block = i.block /\ again.modules = i.all
  BY <1>3 DEF DaoJobType, RunningType
<1> HIDE DEF again
<1>5. daoBound' \in DaoBoundType
  <2>1. daoBound \in DaoBoundType
    BY DEF DaoInv, DaoTypeOK
  <2>2. DaoSpend("failures") \/ DaoSpend("repeats")
    BY DEF TryDaoAgain, FailDaoJob
  <2>3. CASE DaoSpend("failures")
    <3>1. daoBound.failures > 0 /\ daoBound' = [daoBound EXCEPT !.failures = daoBound.failures - 1]
      BY <2>3 DEF DaoSpend
    <3>2. daoBound.failures - 1 \in Nat
      BY <2>1, <3>1 DEF DaoBoundType
    <3> QED
      BY <2>1, <3>1, <3>2 DEF DaoBoundType
  <2>4. CASE DaoSpend("repeats")
    <3>1. daoBound.repeats > 0 /\ daoBound' = [daoBound EXCEPT !.repeats = daoBound.repeats - 1]
      BY <2>4 DEF DaoSpend
    <3>2. daoBound.repeats - 1 \in Nat
      BY <2>1, <3>1 DEF DaoBoundType
    <3> QED
      BY <2>1, <3>1, <3>2 DEF DaoBoundType
  <2> QED
    BY <2>2, <2>3, <2>4
<1>6. DaoTypeOK'
  BY <1>1, <1>2, <1>4, <1>5 DEF DaoInv, DaoTypeOK
<1>7. ASSUME NEW h \in 1..Len(dao), ChangesDao(dao, h) PROVE Handled(h)'
  <2>1. Handled(h)
    BY <1>7 DEF DaoInv
  <2>2. \A l \in daoJob : l \in daoJob' \/ l = i
    BY <1>1
  <2> QED
    BY <1>1, <1>2, <1>4, <2>1, <2>2 DEF Handled
<1>8. \A j \in daoJobs' : j.block \in 1..Len(dao) /\ (ChangesModules(dao, j.block) => j.modules)
  BY <1>2, <1>3, <1>4 DEF DaoInv
<1>9. \A l \in daoJob' : RunningOK(dao, version, l)
  BY <1>1 DEF DaoInv
<1> QED
  BY <1>1, <1>6, <1>7, <1>8, <1>9 DEF DaoInv

LEMMA DaoStep == DaoInv /\ [DaoNext]_daoVars => DaoInv'
<1> SUFFICES ASSUME DaoInv, [DaoNext]_daoVars PROVE DaoInv'
  OBVIOUS
<1>1. CASE UNCHANGED <<dao, version, daoJobs, daoJob, extraction, daoLost, daoBound>>
  <2>1. DaoTypeOK'
    BY <1>1 DEF DaoInv, DaoTypeOK
  <2>2. \A h : Handled(h)' <=> Handled(h)
    BY <1>1 DEF Handled
  <2> QED
    BY <1>1, <2>1, <2>2 DEF DaoInv
<1>2. UNCHANGED daoVars \/ LearnDaoCode => UNCHANGED <<dao, version, daoJobs, daoJob, extraction, daoLost, daoBound>>
  BY DEF daoVars, LearnDaoCode
<1>3. CASE SetItem \/ RemoveItem \/ UpdateConfig \/ UpdateVotingModule \/ UpdateProposalModules \/ Pause
  BY <1>3, ContractInv
<1>4. CASE StartDaoJob \/ IgnoreDaoJob
  BY <1>4, StartDaoJobInv, IgnoreDaoJobInv
<1>5. ASSUME NEW j \in daoJob, QueryDump(j) \/ QueryConfig(j) \/ QueryItems(j) PROVE DaoInv'
  BY <1>5, QueryDumpInv, QueryConfigInv, QueryItemsInv
<1>6. ASSUME NEW j \in daoJob, SaveDao(j) \/ TryDaoAgain(j) \/ FailDaoJob(j) PROVE DaoInv'
  BY <1>6, SaveDaoInv, EndDaoRunInv
<1> QED
  BY <1>1, <1>2, <1>3, <1>4, <1>5, <1>6 DEF DaoNext

\* What does not change from one block to the next is the same from the first to the last.
LEMMA NoChange ==
  ASSUME NEW n \in Nat, NEW f, NEW h \in 1..n, \A g \in (h + 1)..n : f[g] = f[g - 1]
  PROVE  \A g \in h..n : f[g] = f[n]
<1> DEFINE P == {d \in Nat : n - d >= h => f[n - d] = f[n]}
<1>1. 0 \in P
  <2>1. n - 0 = n
    OBVIOUS
  <2> QED
    BY <2>1
<1>2. ASSUME NEW d \in Nat, d \in P PROVE d + 1 \in P
  <2> SUFFICES ASSUME n - (d + 1) >= h PROVE f[n - (d + 1)] = f[n]
    OBVIOUS
  <2>1. n - d >= h /\ n - d \in (h + 1)..n /\ (n - d) - 1 = n - (d + 1)
    OBVIOUS
  <2> QED
    BY <1>2, <2>1
<1> HIDE DEF P
<1>3. \A d \in Nat : d \in P
  BY <1>1, <1>2, Successors
<1>4. ASSUME NEW g \in h..n PROVE f[g] = f[n]
  <2>1. n - g \in Nat /\ n - (n - g) = g /\ g >= h
    OBVIOUS
  <2>2. n - g \in P
    BY <1>3, <2>1
  <2> QED
    BY <2>1, <2>2 DEF P
<1> QED
  BY <1>4

\* Nothing changed since the last block that changed something.
LEMMA LatestIsNow ==
  ASSUME DaoInv, NEW h \in 1..Len(dao), \A g \in 1..Len(dao) : ChangesDao(dao, g) => g <= h
  PROVE  SameConfig(dao, h) /\ SameVoting(dao, h) /\ SameItems(dao, h) /\ SameModules(dao, h)
<1> DEFINE n == Len(dao)
<1>1. n \in Nat
  BY DEF DaoInv, DaoTypeOK
<1>2. ASSUME NEW g \in (h + 1)..n
      PROVE  /\ g \in 1..n /\ g - 1 \in 1..n /\ dao[g].config = dao[g - 1].config /\ dao[g].voting = dao[g - 1].voting
             /\ dao[g].items = dao[g - 1].items /\ dao[g].modules = dao[g - 1].modules
  <2>1. g \in 1..n /\ g - 1 \in 1..n /\ ~(g <= h)
    BY <1>1
  <2>2. ~ChangesDao(dao, g)
    BY <2>1
  <2> QED
    BY <2>1, <2>2 DEF ChangesDao, ChangesModules
<1> DEFINE c == [g \in 1..n |-> dao[g].config]
           v == [g \in 1..n |-> dao[g].voting]
           i == [g \in 1..n |-> dao[g].items]
           m == [g \in 1..n |-> dao[g].modules]
<1>3. \A g \in 1..n : c[g] = dao[g].config /\ v[g] = dao[g].voting /\ i[g] = dao[g].items /\ m[g] = dao[g].modules
  OBVIOUS
<1> HIDE DEF n, c, v, i, m
<1>4. \A g \in (h + 1)..n : c[g] = c[g - 1] /\ v[g] = v[g - 1] /\ i[g] = i[g - 1] /\ m[g] = m[g - 1]
  BY <1>2, <1>3
<1>5. h \in 1..n /\ n \in 1..n /\ \A g \in h..n : g \in 1..n
  BY <1>1 DEF n
<1>6. \A g \in h..n : c[g] = c[n]
  BY <1>1, <1>4, <1>5, NoChange
<1>7. \A g \in h..n : v[g] = v[n]
  BY <1>1, <1>4, <1>5, NoChange
<1>8. \A g \in h..n : i[g] = i[n]
  BY <1>1, <1>4, <1>5, NoChange
<1>9. \A g \in h..n : m[g] = m[n]
  BY <1>1, <1>4, <1>5, NoChange
<1> QED
  BY <1>3, <1>5, <1>6, <1>7, <1>8, <1>9 DEF SameConfig, SameVoting, SameItems, SameModules, n

\* The last changes are what they are called.
LEMMA LastChangeIs ==
  ASSUME DaoInv
  PROVE  LET c == LastChange({"config", "voting", "items", "modules"})
             m == LastChange({"modules"})
         IN  /\ c \in 1..Len(dao) /\ ChangesDao(dao, c)
             /\ \A h \in 1..Len(dao) : ChangesDao(dao, h) => h <= c
             /\ m \in 1..Len(dao) /\ ChangesModules(dao, m)
             /\ \A h \in 1..Len(dao) : ChangesModules(dao, h) => h <= m
<1> DEFINE n == Len(dao)
           Any == {h \in 1..n : ChangesDao(dao, h)}
           Mods == {h \in 1..n : ChangesModules(dao, h)}
<1>1. n \in Nat /\ 1 \in 1..n /\ DaoTip = n
  BY DaoAssumption DEF DaoInv, DaoTypeOK, DaoTip
<1>2. \A h \in 1..n : ChangesDao(dao, h) <=>
          h = 1 \/ \E f \in {"config", "voting", "items", "modules"} : dao[h][f] # dao[h - 1][f]
  BY DEF ChangesDao, ChangesModules
<1>3. \A h \in 1..n : ChangesModules(dao, h) <=> h = 1 \/ \E f \in {"modules"} : dao[h][f] # dao[h - 1][f]
  BY DEF ChangesModules
<1>4. LastChange({"config", "voting", "items", "modules"}) = Max(Any)
  <2>1. Any = {h \in 1..DaoTip : h = 1 \/ \E f \in {"config", "voting", "items", "modules"} :
                                              dao[h][f] # dao[h - 1][f]}
    BY <1>1, <1>2
  <2> HIDE DEF Any
  <2> QED
    BY <2>1 DEF LastChange
<1>5. LastChange({"modules"}) = Max(Mods)
  <2>1. Mods = {h \in 1..DaoTip : h = 1 \/ \E f \in {"modules"} : dao[h][f] # dao[h - 1][f]}
    BY <1>1, <1>3
  <2> HIDE DEF Mods
  <2> QED
    BY <2>1 DEF LastChange
<1>6. 1 \in Any /\ 1 \in Mods /\ Any \in SUBSET (1..n) /\ Mods \in SUBSET (1..n)
  BY <1>1 DEF ChangesDao, ChangesModules
<1>7. Max(Any) \in Any /\ \A h \in Any : h <= Max(Any)
  <2> HIDE DEF Any
  <2> QED
    BY <1>1, <1>6, MaxIs
<1>8. Max(Mods) \in Mods /\ \A h \in Mods : h <= Max(Mods)
  <2> HIDE DEF Mods
  <2> QED
    BY <1>1, <1>6, MaxIs
<1> QED
  BY <1>4, <1>5, <1>7, <1>8

\* What is known of the rows of a block once no job is left.
LEMMA RowsAre ==
  ASSUME DaoInv, daoJobs = {}, daoJob = {}, NEW h \in 1..Len(dao)
  PROVE  /\ HasModules(dao, version, extraction[h].modules) /\ extraction[h] \in RowType
         /\ extraction[h].items # <<>> <=> RowsOK(dao, h, extraction[h])
         /\ extraction[h].items # <<>> <=> extraction[h].config # 0
         /\ extraction[h].items # <<>> <=> extraction[h].dump # <<>>
         /\ \A m \in DaoModules : extraction[h].modules[m] # NoData => extraction[h].items # <<>>
         /\ ChangesDao(dao, h) /\ h \notin daoLost => extraction[h].items # <<>>
<1>1. h \in 1..DaoBlocks
  BY DaoAssumption DEF DaoInv, DaoTypeOK
<1>2. (extraction[h] = NoRows \/ RowsOK(dao, h, extraction[h])) /\ HasModules(dao, version, extraction[h].modules)
      /\ extraction[h] \in RowType
  BY <1>1 DEF DaoInv, DaoTypeOK
<1>3. ChangesDao(dao, h) /\ h \notin daoLost => extraction[h].items # <<>>
  BY DEF DaoInv, Handled
<1> QED
  BY <1>2, <1>3, NoRowsIs DEF RowsOK, DumpOK

LEMMA DaoInvTells ==
  ASSUME DaoInv, daoJobs = {}, daoJob = {},
         LastChange({"config", "voting", "items", "modules"}) \notin daoLost
  PROVE  /\ config = DaoNow.config
         /\ votingModule = DaoNow.voting
         /\ listItems = DaoNow.items
         /\ [dumpState EXCEPT !.paused = DaoNow.paused] =
                [voting |-> DaoNow.voting, paused |-> DaoNow.paused, modules |-> DaoNow.modules]
<1> DEFINE n == Len(dao)
           H == {h \in 1..n : extraction[h].items # <<>>}
           t == Max(H)
           c == LastChange({"config", "voting", "items", "modules"})
<1>1. n \in Nat /\ n \in 1..n /\ 1 \in 1..n /\ DaoTip = n /\ DaoNow = dao[n] /\ \A h \in 1..n : h \in 1..DaoBlocks
  BY DaoAssumption DEF DaoInv, DaoTypeOK, DaoTip, DaoNow
<1>2. ASSUME NEW h \in 1..n
      PROVE  /\ h \in H <=> RowsOK(dao, h, extraction[h])
             /\ h \in H <=> extraction[h].config # 0
             /\ h \in H <=> extraction[h].dump # <<>>
             /\ extraction[h] \in RowType
  BY RowsAre
<1>3. c \in H /\ c \in 1..n /\ \A h \in 1..n : ChangesDao(dao, h) => h <= c
  BY LastChangeIs, RowsAre
<1> HIDE DEF c
<1>4. t \in H /\ \A h \in H : h <= t
  <2>1. H \in SUBSET (1..n)
    OBVIOUS
  <2> HIDE DEF H
  <2> QED
    BY <1>1, <1>3, <2>1, MaxIs
<1>5. t \in 1..n /\ t > 0 /\ RowsOK(dao, t, extraction[t]) /\ extraction[t] \in RowType
  <2>1. t \in 1..n
    BY <1>4
  <2> HIDE DEF t, H
  <2> QED
    BY <1>1, <1>2, <1>4, <2>1
<1>6. \A g \in 1..n : ChangesDao(dao, g) => g <= t
  <2>1. c <= t
    BY <1>3, <1>4
  <2> HIDE DEF t
  <2> QED
    BY <1>3, <1>5, <2>1
<1>7. {h \in 1..DaoTip : extraction[h].config # 0} = H /\ {h \in 1..DaoTip : extraction[h].dump # <<>>} = H
      /\ {h \in 1..DaoTip : extraction[h].items # <<>>} = H
  BY <1>1, <1>2
<1>8. config = extraction[t].config /\ dumpState = extraction[t].dump[1] /\ listItems = extraction[t].items[1]
  <2>1. H # {}
    BY <1>3
  <2> HIDE DEF H
  <2>2. config = extraction[t].config
    BY <1>5, <1>7, <2>1 DEF config, NewestWhere
  <2>3. dumpState = extraction[t].dump[1]
    BY <1>5, <1>7, <2>1 DEF dumpState, NewestWhere
  <2>4. listItems = extraction[t].items[1]
    BY <1>5, <1>7, <2>1 DEF listItems, NewestWhere
  <2> QED
    BY <2>2, <2>3, <2>4
<1> HIDE DEF t
<1>9. SameConfig(dao, t) /\ SameVoting(dao, t) /\ SameItems(dao, t) /\ SameModules(dao, t)
  BY <1>5, <1>6, LatestIsNow
<1>10. config = DaoNow.config /\ listItems = DaoNow.items
  BY <1>1, <1>5, <1>8, <1>9 DEF RowsOK, ConfigOK, ItemsOK
<1>11. dumpState.voting = DaoNow.voting /\ dumpState.modules = DaoNow.modules
  BY <1>1, <1>5, <1>8, <1>9 DEF RowsOK, DumpOK
<1>12. dumpState \in DumpType
  <2>1. extraction[t].dump # <<>>
    BY <1>5 DEF RowsOK, DumpOK
  <2>2. PICK x \in DumpType : extraction[t].dump = <<x>>
    BY <1>5, <2>1 DEF RowType
  <2>3. extraction[t].dump[1] = x
    BY <2>2
  <2> QED
    BY <1>8, <2>2, <2>3
<1>13. [dumpState EXCEPT !.paused = DaoNow.paused] =
           [voting |-> DaoNow.voting, paused |-> DaoNow.paused, modules |-> DaoNow.modules]
  <2> DEFINE x == dumpState
  <2>1. x \in DumpType /\ x.voting = DaoNow.voting /\ x.modules = DaoNow.modules
    BY <1>11, <1>12
  <2> HIDE DEF x
  <2>2. [x EXCEPT !.paused = DaoNow.paused] =
            [voting |-> DaoNow.voting, paused |-> DaoNow.paused, modules |-> DaoNow.modules]
    BY <2>1 DEF DumpType
  <2> QED
    BY <2>2 DEF x
<1> QED
  BY <1>10, <1>11, <1>13 DEF votingModule

LEMMA DaoInvModules ==
  ASSUME DaoInv, daoJobs = {}, daoJob = {}, LastChange({"modules"}) \notin daoLost
  PROVE  \A m \in DaoModules : \/ version = 1 /\ DaoNow.modules[m] = "none"
                               \/ proposalModules[m] = DaoNow.modules[m]
<1> DEFINE n == Len(dao)
           Rows(m) == {h \in 1..n : extraction[h].modules[m] # NoData}
           Row(m) == IF Rows(m) = {} THEN 0 ELSE Max(Rows(m))
<1>a. /\ n \in Nat /\ n \in 1..n /\ 1 \in 1..n /\ DaoTip = n /\ DaoNow = dao[n]
      /\ DaoNow \in DaoState
  BY DaoAssumption DEF DaoInv, DaoTypeOK, DaoTip, DaoNow
<1>b. ASSUME NEW h \in 1..n
      PROVE  /\ HasModules(dao, version, extraction[h].modules)
             /\ \A l \in DaoModules : extraction[h].modules[l] # NoData => RowsOK(dao, h, extraction[h])
  BY RowsAre
<1>1. proposalModules = IF \A m \in DaoModules : Row(m) = 0 THEN DaoNow.modules
                        ELSE [m \in DaoModules |-> IF Row(m) = 0 THEN "none" ELSE extraction[Row(m)].modules[m]]
  BY <1>a DEF proposalModules, NewestWhere
<1> SUFFICES ASSUME NEW m \in DaoModules, ~(version = 1 /\ DaoNow.modules[m] = "none")
             PROVE  proposalModules[m] = DaoNow.modules[m]
  OBVIOUS
<1>2. CASE DaoNow.modules[m] = "none"
  <2>1. version = 2
    BY <1>2 DEF DaoInv, DaoTypeOK
  <2>2. Rows(m) = {}
    BY <1>a, <1>b, <1>2, <2>1 DEF HasModules
  <2>3. Row(m) = 0
    BY <2>2
  <2> HIDE DEF Row
  <2> QED
    BY <1>1, <1>2, <2>3
<1>3. CASE DaoNow.modules[m] # "none"
  \* The last block that changed the modules saved them.
  <2> DEFINE c == LastChange({"modules"})
  <2>2. c \in 1..n /\ ChangesModules(dao, c) /\ c \notin daoLost
    BY LastChangeIs
  <2>1. \A h \in 1..n : ChangesModules(dao, h) => h <= c
    BY LastChangeIs
  <2> HIDE DEF c
  <2>3. SameModules(dao, c)
    <3> DEFINE f == [g \in 1..n |-> dao[g].modules]
    <3>1. ASSUME NEW g \in (c + 1)..n PROVE f[g] = f[g - 1]
      <4>1. g \in 1..n /\ g - 1 \in 1..n /\ ~(g <= c)
        BY <1>a, <2>2
      <4>2. dao[g].modules = dao[g - 1].modules
        BY <2>1, <4>1 DEF ChangesModules
      <4> QED
        BY <4>1, <4>2
    <3>2. \A g \in 1..n : f[g] = dao[g].modules
      OBVIOUS
    <3> HIDE DEF f
    <3>3. \A g \in c..n : f[g] = f[n]
      BY <1>a, <2>2, <3>1, NoChange
    <3>4. \A g \in c..n : g \in 1..n
      BY <1>a, <2>2
    <3> QED
      BY <1>a, <3>2, <3>3, <3>4 DEF SameModules
  <2>4. c \in Rows(m)
    <3>1. RowsOK(dao, c, extraction[c])
      BY <2>2, RowsAre DEF ChangesDao
    <3> QED
      BY <1>a, <1>3, <2>2, <2>3, <3>1 DEF RowsOK, ModulesOK
  <2> DEFINE r == Max(Rows(m))
  <2>5. r \in Rows(m) /\ \A h \in Rows(m) : h <= r
    <3>1. Rows(m) \in SUBSET (1..n)
      OBVIOUS
    <3> HIDE DEF Rows
    <3> QED
      BY <1>a, <2>4, <3>1, MaxIs
  <2>6. Row(m) = r /\ r \in 1..n /\ extraction[r].modules[m] # NoData
    BY <2>4, <2>5
  <2> HIDE DEF Row, r
  <2>7. c <= r
    BY <2>4, <2>5
  <2>8. SameModules(dao, r)
    <3>1. \A g \in r..n : g \in c..n
      BY <1>a, <2>2, <2>6, <2>7
    <3> QED
      BY <2>3, <3>1 DEF SameModules
  <2>9. RowsOK(dao, r, extraction[r])
    BY <1>b, <2>6
  <2>10. extraction[r].modules[m] = DaoNow.modules[m]
    BY <1>a, <2>6, <2>8, <2>9 DEF RowsOK, ModulesOK
  <2>11. Row(m) # 0
    BY <2>6
  <2> QED
    BY <1>1, <2>6, <2>10, <2>11
<1> QED
  BY <1>2, <1>3

LEMMA DaoInvSettles == DaoInv => DaoSettles
BY DaoInvTells, DaoInvModules DEF DaoSettles

\* When no job is left, the formulas of a DAO tell its state as soon as the job of its
\* last change was not lost, whatever operations came while jobs ran, however many runs
\* overlapped, were repeated or went on after their timeout, and whichever earlier jobs
\* failed or were ignored (DaoExtractor, daoCore formulas).
THEOREM DaoHolds == DaoSpec => []DaoSettles
<1> QED
  BY DaoFirst, DaoStep, DaoInvSettles, PTL DEF DaoSpec

-----------------------------------------------------------------------------
(* Voting with staked NFTs. Parts of the invariant are stated over the     *)
(* owners o of the chain's blocks, so that they can be moved from one      *)
(* state to the next.                                                      *)

Owner == {{}} \cup {{s} : s \in Stakers}
Shares == [Tokens -> Owner]
NftJobType == [height : Nat, sender : Stakers, phase : {"total", "power", "tokens", "save"},
               total : Nat, power : Nat, after : Nat, tokens : SUBSET Tokens]
TotalRowType == [name : Nat, height : Nat, data : Nat]
StakerRowType == [name : Stakers, height : Nat, data : [power : Nat, tokens : SUBSET Tokens]]
OwnerRowType == [name : Tokens, height : Nat, data : Stakers]

NftTypeOK ==
    /\ owners \in Seq(Shares) /\ Len(owners) >= 1 /\ owners[1] = [t \in Tokens |-> {}]
    /\ nftJobs \in SUBSET NftJobType
    /\ totalRows \in SUBSET TotalRowType
    /\ stakerRows \in SUBSET StakerRowType
    /\ ownerRows \in SUBSET OwnerRowType

\* Since block h nothing changed for a staker; for a token.
SameStaker(o, h, s) == \A g \in h..Len(o) : StakedBy(o[g], s) = StakedBy(o[Len(o)], s)
SameToken(o, h, t) == \A g \in h..Len(o) : o[g][t] = o[Len(o)][t]

\* What was read for block h is the present, unless it changed since.
TotalOK(o, late, h, total) == h \notin late => total = Cardinality(Staked(o[h]))
PowerOK(o, h, s, power) == SameStaker(o, h, s) => power = Cardinality(StakedBy(o[Len(o)], s))
TokensOK(o, h, s, tokens) ==
    /\ SameStaker(o, h, s) => tokens = StakedBy(o[Len(o)], s)
    /\ \A t \in Tokens : SameToken(o, h, t) => (t \in tokens <=> o[Len(o)][t] = {s})

\* The tokens a run has read, with those it has still to read.
PagesOf(o, s, tokens, after) == tokens \cup {t \in StakedBy(o[Len(o)], s) : t > after}
Pages(o, j) == PagesOf(o, j.sender, j.tokens, j.after)

\* A job that asked for the total waited for the block after its own.
NftJobOK(o, late, j) ==
    /\ j.height \in 2..Len(o)
    /\ j.phase # "total" => j.height < Len(o) /\ TotalOK(o, late, j.height, j.total)
    /\ j.phase \in {"tokens", "save"} => PowerOK(o, j.height, j.sender, j.power)
    /\ j.phase \in {"total", "power"} => j.after = 0 /\ j.tokens = {}
    /\ j.phase = "tokens" => TokensOK(o, j.height, j.sender, Pages(o, j))
    /\ j.phase = "save" => TokensOK(o, j.height, j.sender, j.tokens)

TotalRowOK(o, late, r) == r.height \in 2..Len(o) /\ TotalOK(o, late, r.height, r.data)
StakerRowOK(o, r) ==
    /\ r.height \in 2..Len(o) /\ PowerOK(o, r.height, r.name, r.data.power)
    /\ SameStaker(o, r.height, r.name) => r.data.tokens = StakedBy(o[Len(o)], r.name)
OwnerRowOK(o, r) ==
    /\ r.height \in 2..Len(o)
    /\ SameToken(o, r.height, r.name) => o[Len(o)][r.name] = {r.data}

\* Every change is still to be extracted, or was, or its job was lost.
Lost(lost, h, s) == [height |-> h, sender |-> s] \in lost
Asks(jobs, h, s) == \E j \in jobs : j.height = h /\ j.sender = s
HasRow(rows, h, name) == \E r \in rows : r.height = h /\ r.name = name
TotalHandled(o, jobs, rows, lost, h) ==
    o[h] # o[h - 1] => (\E s \in Stakers : Asks(jobs, h, s) \/ Lost(lost, h, s)) \/ HasRow(rows, h, h)
StakerHandled(o, jobs, rows, lost, h, s) ==
    StakedBy(o[h], s) # StakedBy(o[h - 1], s) => Lost(lost, h, s) \/ Asks(jobs, h, s) \/ HasRow(rows, h, s)
TokenHandled(o, jobs, rows, lost, h, t) ==
    \A s \in Stakers :
        o[h][t] = {s} /\ o[h - 1][t] # {s} /\ SameToken(o, h, t)
            => Lost(lost, h, s) \/ Asks(jobs, h, s) \/ HasRow(rows, h, t)

NftInv ==
    /\ NftTypeOK
    /\ \A j \in nftJobs : NftJobOK(owners, nftLate, j)
    /\ \A r \in totalRows : TotalRowOK(owners, nftLate, r)
    /\ \A r \in stakerRows : StakerRowOK(owners, r)
    /\ \A r \in ownerRows : OwnerRowOK(owners, r)
    /\ \A h \in 2..Len(owners) :
           /\ TotalHandled(owners, nftJobs, totalRows, nftLost, h)
           /\ \A s \in Stakers : StakerHandled(owners, nftJobs, stakerRows, nftLost, h, s)
           /\ \A t \in Tokens : TokenHandled(owners, nftJobs, ownerRows, nftLost, h, t)

\* The numbers of tokens are naturals.
LEMMA CountsAre ==
  ASSUME NEW o
  PROVE  /\ IsFiniteSet(Staked(o)) /\ Cardinality(Staked(o)) \in Nat
         /\ \A s \in Stakers : /\ IsFiniteSet(StakedBy(o, s)) /\ Cardinality(StakedBy(o, s)) \in Nat
                               /\ (Cardinality(StakedBy(o, s)) > 0 <=> StakedBy(o, s) # {})
                               /\ Cardinality(StakedBy(o, s)) <= Cardinality(Staked(o))
<1>1. IsFiniteSet(Tokens)
  BY NftStakingAssumption
<1>2. Staked(o) \subseteq Tokens /\ \A s \in Stakers : StakedBy(o, s) \subseteq Staked(o)
  BY DEF Staked, StakedBy
<1>3. IsFiniteSet(Staked(o)) /\ Cardinality(Staked(o)) \in Nat
  BY <1>1, <1>2, FS_Subset, FS_CardinalityType
<1>4. ASSUME NEW s \in Stakers
      PROVE  /\ IsFiniteSet(StakedBy(o, s)) /\ Cardinality(StakedBy(o, s)) \in Nat
             /\ (Cardinality(StakedBy(o, s)) > 0 <=> StakedBy(o, s) # {})
             /\ Cardinality(StakedBy(o, s)) <= Cardinality(Staked(o))
  <2>1. IsFiniteSet(StakedBy(o, s)) /\ Cardinality(StakedBy(o, s)) <= Cardinality(Staked(o))
    BY <1>2, <1>3, FS_Subset
  <2>2. Cardinality(StakedBy(o, s)) \in Nat /\ (Cardinality(StakedBy(o, s)) = 0 <=> StakedBy(o, s) = {})
    BY <2>1, FS_CardinalityType, FS_EmptySet
  <2> QED
    BY <2>1, <2>2
<1> QED
  BY <1>3, <1>4

\* A block that comes changes nothing of what was read unless it changes what it is about.
LEMMA OwnersLater ==
  ASSUME NEW o \in Seq(Shares), NEW st \in Shares, NEW h \in 1..Len(o)
  PROVE  /\ Append(o, st) \in Seq(Shares) /\ Len(Append(o, st)) = Len(o) + 1 /\ Len(o) \in Nat
         /\ \A g \in 1..Len(o) : Append(o, st)[g] = o[g]
         /\ Append(o, st)[Len(o) + 1] = st /\ Append(o, st)[Len(Append(o, st))] = st
         /\ \A s \in Stakers : SameStaker(Append(o, st), h, s)
                => SameStaker(o, h, s) /\ StakedBy(st, s) = StakedBy(o[Len(o)], s)
         /\ \A t \in Tokens : SameToken(Append(o, st), h, t)
                => SameToken(o, h, t) /\ st[t] = o[Len(o)][t]
<1> DEFINE e == Append(o, st)
           n == Len(o)
<1>1. /\ e \in Seq(Shares) /\ Len(e) = n + 1 /\ n \in Nat /\ e[n + 1] = st
      /\ \A g \in 1..n : e[g] = o[g]
  BY AppendProperties, LenProperties
<1> HIDE DEF e
<1>2. n \in 1..n /\ \A g \in h..n : g \in h..(n + 1) /\ g \in 1..n
  BY <1>1
<1>3. n \in h..n /\ n + 1 \in h..(n + 1)
  BY <1>1
<1> HIDE DEF n
<1>4. ASSUME NEW s \in Stakers, SameStaker(e, h, s)
      PROVE  SameStaker(o, h, s) /\ StakedBy(st, s) = StakedBy(o[n], s)
  <2>1. \A g \in h..(n + 1) : StakedBy(e[g], s) = StakedBy(st, s)
    BY <1>1, <1>4 DEF SameStaker
  <2>2. \A g \in h..n : StakedBy(o[g], s) = StakedBy(st, s)
    BY <1>1, <1>2, <2>1
  <2> QED
    BY <1>3, <2>2 DEF SameStaker, n
<1>5. ASSUME NEW t \in Tokens, SameToken(e, h, t)
      PROVE  SameToken(o, h, t) /\ st[t] = o[n][t]
  <2>1. \A g \in h..(n + 1) : e[g][t] = st[t]
    BY <1>1, <1>5 DEF SameToken
  <2>2. \A g \in h..n : o[g][t] = st[t]
    BY <1>1, <1>2, <2>1
  <2> QED
    BY <1>3, <2>2 DEF SameToken, n
<1> QED
  BY <1>1, <1>4, <1>5 DEF e, n

\* What was read for block h stays right from o to e.
Carries(o, e, late, h) ==
    /\ \A total : TotalOK(o, late, h, total) => TotalOK(e, late, h, total)
    /\ \A s \in Stakers : \A power : PowerOK(o, h, s, power) => PowerOK(e, h, s, power)
    /\ \A s \in Stakers : \A tokens : TokensOK(o, h, s, tokens) => TokensOK(e, h, s, tokens)
    /\ \A s \in Stakers : \A tokens, after :
           TokensOK(o, h, s, PagesOf(o, s, tokens, after)) => TokensOK(e, h, s, PagesOf(e, s, tokens, after))
    /\ \A s \in Stakers : \A tokens :
           (SameStaker(o, h, s) => tokens = StakedBy(o[Len(o)], s))
             => (SameStaker(e, h, s) => tokens = StakedBy(e[Len(e)], s))
    /\ \A t \in Tokens : \A s : (SameToken(o, h, t) => o[Len(o)][t] = {s})
                              => (SameToken(e, h, t) => e[Len(e)][t] = {s})

\* A block carries what was read.
LEMMA ReadLater ==
  ASSUME NEW o \in Seq(Shares), NEW st \in Shares, NEW late, NEW h \in 1..Len(o), NEW e, e = Append(o, st)
  PROVE  Carries(o, e, late, h)
<1> DEFINE n == Len(o)
<1>1. /\ Len(e) = n + 1 /\ n \in Nat /\ e[h] = o[h] /\ e[Len(e)] = st
      /\ \A s \in Stakers : SameStaker(e, h, s) => SameStaker(o, h, s) /\ StakedBy(st, s) = StakedBy(o[n], s)
      /\ \A t \in Tokens : SameToken(e, h, t) => SameToken(o, h, t) /\ st[t] = o[n][t]
  BY OwnersLater
<1>2. \A total : TotalOK(o, late, h, total) => TotalOK(e, late, h, total)
  BY <1>1 DEF TotalOK
<1>3. \A s \in Stakers : \A power : PowerOK(o, h, s, power) => PowerOK(e, h, s, power)
  BY <1>1 DEF PowerOK
<1>4. \A s \in Stakers : \A tokens : TokensOK(o, h, s, tokens) => TokensOK(e, h, s, tokens)
  BY <1>1 DEF TokensOK
<1>7. ASSUME NEW s \in Stakers, NEW tokens, NEW after,
             TokensOK(o, h, s, PagesOf(o, s, tokens, after))
      PROVE  TokensOK(e, h, s, PagesOf(e, s, tokens, after))
  <2> DEFINE O == tokens \cup {t \in StakedBy(o[n], s) : t > after}
             E == tokens \cup {t \in StakedBy(st, s) : t > after}
  <2>0. PagesOf(o, s, tokens, after) = O /\ PagesOf(e, s, tokens, after) = E
    BY <1>1 DEF PagesOf
  <2>1. SameStaker(e, h, s) => E = StakedBy(st, s)
    <3>1. SameStaker(e, h, s) => O = StakedBy(o[n], s) /\ StakedBy(st, s) = StakedBy(o[n], s)
      BY <1>1, <1>7, <2>0 DEF TokensOK
    <3> QED
      BY <3>1
  <2>2. ASSUME NEW t \in Tokens, SameToken(e, h, t) PROVE t \in E <=> st[t] = {s}
    <3>1. SameToken(o, h, t) /\ st[t] = o[n][t]
      BY <1>1, <2>2
    <3>2. t \in O <=> o[n][t] = {s}
      BY <1>7, <2>0, <3>1 DEF TokensOK
    <3>3. t \in StakedBy(st, s) <=> t \in StakedBy(o[n], s)
      BY <3>1 DEF StakedBy
    <3> QED
      BY <3>1, <3>2, <3>3
  <2> HIDE DEF O, E
  <2>3. TokensOK(e, h, s, E)
    BY <1>1, <2>1, <2>2 DEF TokensOK
  <2> QED
    BY <2>0, <2>3
<1>5. \A s \in Stakers : \A tokens :
         (SameStaker(o, h, s) => tokens = StakedBy(o[n], s)) => (SameStaker(e, h, s) => tokens = StakedBy(e[Len(e)], s))
  BY <1>1
<1>6. \A t \in Tokens : \A s : (SameToken(o, h, t) => o[n][t] = {s}) => (SameToken(e, h, t) => e[Len(e)][t] = {s})
  BY <1>1
<1> QED
  BY <1>2, <1>3, <1>4, <1>5, <1>6, <1>7 DEF Carries

\* The owners after a block, and the senders of its events.
Moved(now, moved, to) == [t \in Tokens |-> IF t \in moved THEN to[t] ELSE now[t]]
Senders(now, moved, to) == UNION {to[t] \cup now[t] : t \in moved}

\* Who is affected by a block is among the senders of its events.
LEMMA MovesAreSent ==
  ASSUME NEW now \in Shares, NEW moved \in SUBSET Tokens, NEW to \in [moved -> Owner],
         NEW st, st = Moved(now, moved, to), NEW senders, senders = Senders(now, moved, to)
  PROVE  /\ st \in Shares /\ senders \subseteq Stakers
         /\ st # now => senders # {}
         /\ \A s \in Stakers : StakedBy(st, s) # StakedBy(now, s) => s \in senders
         /\ \A s \in Stakers, t \in Tokens : st[t] = {s} /\ now[t] # {s} => s \in senders
<1>1. \A t \in Tokens : st[t] = IF t \in moved THEN to[t] ELSE now[t]
  BY DEF Moved
<1>2. \A t \in Tokens : now[t] \in Owner
  BY DEF Shares
<1>3. st \in Shares
  BY <1>2 DEF Shares, Moved
<1>4. \A x \in Owner : x \subseteq Stakers
  BY DEF Owner
<1>5. senders \subseteq Stakers
  BY <1>2, <1>4 DEF Senders
<1>6. \A t \in Tokens : st[t] # now[t] => t \in moved /\ st[t] \cup now[t] \subseteq senders
  BY <1>1 DEF Senders
<1>7. ASSUME st # now PROVE senders # {}
  <2>1. PICK t \in Tokens : st[t] # now[t]
    BY <1>3, <1>7 DEF Shares
  <2>2. st[t] \cup now[t] \subseteq senders
    BY <1>6, <2>1
  <2> QED
    BY <2>1, <2>2
<1>8. ASSUME NEW s \in Stakers, NEW t \in Tokens, st[t] = {s} /\ now[t] # {s} PROVE s \in senders
  BY <1>6, <1>8
<1>9. ASSUME NEW s \in Stakers, StakedBy(st, s) # StakedBy(now, s) PROVE s \in senders
  <2>1. PICK t \in Tokens : (st[t] = {s}) # (now[t] = {s})
    BY <1>9 DEF StakedBy
  <2>2. st[t] # now[t] /\ s \in st[t] \cup now[t]
    BY <2>1
  <2> QED
    BY <1>6, <2>2
<1> QED
  BY <1>3, <1>5, <1>7, <1>8, <1>9

\* A block is added and its events are to be extracted.
LEMMA NftBlockKeeps ==
  ASSUME NftInv, NftBlock
  PROVE  NftInv'
<1> DEFINE n == Len(owners)
           JobAt(h, s) == NewJob(h, s)
<1>1. PICK moved \in SUBSET Tokens : \E to \in [moved -> Owner] :
         /\ owners' = Append(owners, Moved(Now, moved, to))
         /\ nftJobs' = nftJobs \cup {JobAt(n + 1, s) : s \in Senders(Now, moved, to)}
         /\ UNCHANGED <<totalRows, stakerRows, ownerRows, nftLate, nftLost, indexed>>
  BY DEF NftBlock, kSubset, Owner, NftHeight, Moved, Senders
<1>2. PICK to \in [moved -> Owner] :
         /\ owners' = Append(owners, Moved(Now, moved, to))
         /\ nftJobs' = nftJobs \cup {JobAt(n + 1, s) : s \in Senders(Now, moved, to)}
         /\ UNCHANGED <<totalRows, stakerRows, ownerRows, nftLate, nftLost, indexed>>
  BY <1>1
<1>3. PICK st : st = Moved(Now, moved, to)
  OBVIOUS
<1>4. PICK senders : senders = Senders(Now, moved, to)
  OBVIOUS
<1>5. /\ NftTypeOK /\ owners \in Seq(Shares) /\ n \in Nat /\ n >= 1 /\ Now \in Shares /\ Now = owners[n]
      /\ n \in 1..n /\ \A h \in 2..n : h \in 1..n /\ h - 1 \in 1..n
  <2>1. NftTypeOK /\ owners \in Seq(Shares) /\ n \in Nat /\ n >= 1
    BY LenProperties DEF NftInv, NftTypeOK
  <2>2. n \in 1..n
    BY <2>1
  <2> QED
    BY <2>1, <2>2, ElementOfSeq DEF Now, NftHeight
<1>6. /\ st \in Shares /\ senders \subseteq Stakers
      /\ st # Now => senders # {}
      /\ \A s \in Stakers : StakedBy(st, s) # StakedBy(Now, s) => s \in senders
      /\ \A s \in Stakers, t \in Tokens : st[t] = {s} /\ Now[t] # {s} => s \in senders
  <2>1. moved \in SUBSET Tokens
    BY <1>1
  <2>2. to \in [moved -> Owner]
    BY <1>2
  <2>3. Now \in Shares
    BY <1>5
  <2> QED
    BY ONLY <1>3, <1>4, <2>1, <2>2, <2>3, MovesAreSent
<1>7. /\ owners' = Append(owners, st)
      /\ nftJobs' = nftJobs \cup {JobAt(n + 1, s) : s \in senders}
      /\ totalRows' = totalRows /\ stakerRows' = stakerRows /\ ownerRows' = ownerRows
      /\ nftLate' = nftLate /\ nftLost' = nftLost
  BY <1>2, <1>3, <1>4
<1>8. \A h \in 1..n :
         /\ Append(owners, st) \in Seq(Shares) /\ Len(Append(owners, st)) = n + 1
         /\ \A g \in 1..n : Append(owners, st)[g] = owners[g]
         /\ Append(owners, st)[n + 1] = st
         /\ \A s \in Stakers : SameStaker(Append(owners, st), h, s) => SameStaker(owners, h, s)
         /\ \A t \in Tokens : SameToken(Append(owners, st), h, t) => SameToken(owners, h, t)
  BY <1>5, <1>6, OwnersLater
<1>9. PICK e : e = Append(owners, st)
  OBVIOUS
<1>10. /\ owners' = e /\ e \in Seq(Shares) /\ Len(e) = n + 1
       /\ \A g \in 1..n : e[g] = owners[g]
       /\ e[n + 1] = st
       /\ \A h \in 1..n, t \in Tokens : SameToken(e, h, t) => SameToken(owners, h, t)
  BY <1>5, <1>7, <1>8, <1>9
<1>11. \A h \in 1..n : Carries(owners, e, nftLate, h)
  BY <1>5, <1>6, <1>9, ReadLater
<1>12. NftTypeOK'
  <2>1. \A s \in senders : JobAt(n + 1, s) \in NftJobType
    BY <1>5, <1>6 DEF NftJobType, NewJob
  <2>2. nftJobs' \in SUBSET NftJobType
    BY <1>5, <1>7, <2>1 DEF NftTypeOK
  <2>3. e[1] = owners[1] /\ Len(e) >= 1
    BY <1>5, <1>10
  <2> QED
    BY <1>5, <1>7, <1>10, <2>2, <2>3 DEF NftTypeOK
<1>13. ASSUME NEW j \in nftJobs' PROVE NftJobOK(e, nftLate, j)
  <2>1. CASE j \in nftJobs
    <3>1. NftJobOK(owners, nftLate, j) /\ j \in NftJobType
      BY <2>1 DEF NftInv, NftTypeOK
    <3>2. j.height \in 2..n /\ j.height \in 1..n /\ j.sender \in Stakers
      BY <1>5, <3>1 DEF NftJobOK, NftJobType
    <3>3. j.height \in 2..(n + 1) /\ j.height < n + 1
      BY <1>5, <3>2
    <3>4. Carries(owners, e, nftLate, j.height)
      BY <1>11, <3>2
    <3>5. j.phase = "tokens" => TokensOK(e, j.height, j.sender, Pages(e, j))
      BY <3>1, <3>2, <3>4 DEF NftJobOK, Carries, Pages
    <3>6. j.phase # "total" => j.height < Len(e) /\ TotalOK(e, nftLate, j.height, j.total)
      BY <1>10, <3>1, <3>3, <3>4 DEF NftJobOK, Carries
    <3>7. /\ j.phase \in {"tokens", "save"} => PowerOK(e, j.height, j.sender, j.power)
          /\ j.phase = "save" => TokensOK(e, j.height, j.sender, j.tokens)
      BY <3>1, <3>2, <3>4 DEF NftJobOK, Carries
    <3> QED
      BY <1>10, <3>1, <3>3, <3>5, <3>6, <3>7 DEF NftJobOK
  <2>2. CASE j \notin nftJobs
    <3>1. j.height = n + 1 /\ j.phase = "total" /\ j.after = 0 /\ j.tokens = {}
      BY <1>7, <2>2 DEF NewJob
    <3> QED
      BY <1>5, <1>10, <3>1 DEF NftJobOK
  <2> QED
    BY <2>1, <2>2
<1>14. ASSUME NEW r \in totalRows PROVE TotalRowOK(e, nftLate, r)
  <2>1. TotalRowOK(owners, nftLate, r)
    BY DEF NftInv
  <2>2. r.height \in 1..n /\ r.height \in 2..(n + 1)
    BY <1>5, <2>1 DEF TotalRowOK
  <2> QED
    BY <1>10, <1>11, <2>1, <2>2 DEF TotalRowOK, Carries
<1>15. ASSUME NEW r \in stakerRows PROVE StakerRowOK(e, r)
  <2>1. StakerRowOK(owners, r) /\ r.name \in Stakers
    BY DEF NftInv, NftTypeOK, StakerRowType
  <2>2. r.height \in 1..n /\ r.height \in 2..(n + 1)
    BY <1>5, <2>1 DEF StakerRowOK
  <2> QED
    BY <1>10, <1>11, <2>1, <2>2 DEF StakerRowOK, Carries
<1>16. ASSUME NEW r \in ownerRows PROVE OwnerRowOK(e, r)
  <2>1. OwnerRowOK(owners, r) /\ r.name \in Tokens
    BY DEF NftInv, NftTypeOK, OwnerRowType
  <2>2. r.height \in 1..n /\ r.height \in 2..(n + 1)
    BY <1>5, <2>1 DEF OwnerRowOK
  <2> QED
    BY <1>10, <1>11, <2>1, <2>2 DEF OwnerRowOK, Carries
<1>17. \A h, s : Asks(nftJobs, h, s) => Asks(nftJobs', h, s)
  BY <1>7 DEF Asks
<1>18. \A s \in senders : Asks(nftJobs', n + 1, s)
  <2> SUFFICES ASSUME NEW s \in senders PROVE Asks(nftJobs', n + 1, s)
    OBVIOUS
  <2>1. JobAt(n + 1, s) \in nftJobs'
    BY <1>7
  <2> QED
    BY <2>1 DEF Asks, NewJob
<1>19. ASSUME NEW h \in 2..n
       PROVE  /\ TotalHandled(e, nftJobs', totalRows, nftLost, h)
              /\ \A s \in Stakers : StakerHandled(e, nftJobs', stakerRows, nftLost, h, s)
              /\ \A t \in Tokens : TokenHandled(e, nftJobs', ownerRows, nftLost, h, t)
  <2>1. /\ TotalHandled(owners, nftJobs, totalRows, nftLost, h)
        /\ \A s \in Stakers : StakerHandled(owners, nftJobs, stakerRows, nftLost, h, s)
        /\ \A t \in Tokens : TokenHandled(owners, nftJobs, ownerRows, nftLost, h, t)
    BY DEF NftInv
  <2>2. e[h] = owners[h] /\ e[h - 1] = owners[h - 1] /\ h \in 1..n
    BY <1>5, <1>10
  <2>3. TotalHandled(e, nftJobs', totalRows, nftLost, h)
    BY <1>17, <2>1, <2>2 DEF TotalHandled
  <2>4. \A s \in Stakers : StakerHandled(e, nftJobs', stakerRows, nftLost, h, s)
    BY <1>17, <2>1, <2>2 DEF StakerHandled
  <2>5. \A t \in Tokens : TokenHandled(e, nftJobs', ownerRows, nftLost, h, t)
    BY <1>10, <1>17, <2>1, <2>2 DEF TokenHandled
  <2> QED
    BY <2>3, <2>4, <2>5
<1>20. /\ TotalHandled(e, nftJobs', totalRows, nftLost, n + 1)
       /\ \A s \in Stakers : StakerHandled(e, nftJobs', stakerRows, nftLost, n + 1, s)
       /\ \A t \in Tokens : TokenHandled(e, nftJobs', ownerRows, nftLost, n + 1, t)
  <2>1. e[n + 1] = st /\ e[(n + 1) - 1] = Now
    BY <1>5, <1>10
  <2>2. TotalHandled(e, nftJobs', totalRows, nftLost, n + 1)
    BY <1>6, <1>18, <2>1 DEF TotalHandled
  <2>3. \A s \in Stakers : StakerHandled(e, nftJobs', stakerRows, nftLost, n + 1, s)
    BY <1>6, <1>18, <2>1 DEF StakerHandled
  <2>4. \A t \in Tokens : TokenHandled(e, nftJobs', ownerRows, nftLost, n + 1, t)
    BY <1>6, <1>18, <2>1 DEF TokenHandled
  <2> QED
    BY <2>2, <2>3, <2>4
<1>21. \A h \in 2..(n + 1) : h \in 2..n \/ h = n + 1
  BY <1>5
<1> HIDE DEF n, JobAt
<1> QED
  BY <1>7, <1>10, <1>12, <1>13, <1>14, <1>15, <1>16, <1>19, <1>20, <1>21 DEF NftInv

\* A total that comes late excuses itself alone.
LEMMA LateExcuses ==
  ASSUME NEW o, NEW late, NEW later, late \subseteq later
  PROVE  /\ \A j : NftJobOK(o, late, j) => NftJobOK(o, later, j)
         /\ \A r : TotalRowOK(o, late, r) => TotalRowOK(o, later, r)
BY DEF NftJobOK, TotalRowOK, TotalOK

\* A job that goes on, starts again or is lost keeps the invariant if what it becomes
\* keeps its own part of it.
LEMMA JobStepKeeps ==
  ASSUME NftInv, NEW j \in nftJobs, NEW x, x \in NftJobType, x.height = j.height, x.sender = j.sender,
         NftJobOK(owners, nftLate', x),
         nftJobs' \subseteq nftJobs \cup {x}, \A y \in nftJobs : y # j => y \in nftJobs',
         j \in nftJobs' \/ x \in nftJobs' \/ Lost(nftLost', j.height, j.sender),
         nftLate \subseteq nftLate', nftLost \subseteq nftLost',
         UNCHANGED <<owners, totalRows, stakerRows, ownerRows>>
  PROVE  NftInv'
<1>1. NftTypeOK /\ NftTypeOK'
  BY DEF NftInv, NftTypeOK
<1>2. /\ \A y \in nftJobs' : NftJobOK(owners, nftLate', y)
      /\ \A r \in totalRows : TotalRowOK(owners, nftLate', r)
  BY LateExcuses DEF NftInv
<1>3. \A h, s : Asks(nftJobs, h, s) \/ Lost(nftLost, h, s) => Asks(nftJobs', h, s) \/ Lost(nftLost', h, s)
  BY DEF Asks, Lost
<1>4. ASSUME NEW h \in 2..Len(owners)
      PROVE  /\ TotalHandled(owners, nftJobs', totalRows, nftLost', h)
             /\ \A s \in Stakers : StakerHandled(owners, nftJobs', stakerRows, nftLost', h, s)
             /\ \A t \in Tokens : TokenHandled(owners, nftJobs', ownerRows, nftLost', h, t)
  <2>1. /\ TotalHandled(owners, nftJobs, totalRows, nftLost, h)
        /\ \A s \in Stakers : StakerHandled(owners, nftJobs, stakerRows, nftLost, h, s)
        /\ \A t \in Tokens : TokenHandled(owners, nftJobs, ownerRows, nftLost, h, t)
    BY DEF NftInv
  <2>2. TotalHandled(owners, nftJobs', totalRows, nftLost', h)
    BY <1>3, <2>1 DEF TotalHandled
  <2>3. \A s \in Stakers : StakerHandled(owners, nftJobs', stakerRows, nftLost', h, s)
    BY <1>3, <2>1 DEF StakerHandled
  <2>4. \A t \in Tokens : TokenHandled(owners, nftJobs', ownerRows, nftLost', h, t)
    BY <1>3, <2>1 DEF TokenHandled
  <2> QED
    BY <2>2, <2>3, <2>4
<1> QED
  BY <1>1, <1>2, <1>4 DEF NftInv

\* What the queries are answered.
LEMMA QueriesSee ==
  ASSUME NftInv, NEW j \in nftJobs
  PROVE  /\ j \in NftJobType /\ NftHeight \in Nat /\ j.height \in 2..NftHeight
         /\ j.height < NftHeight => Before721(NftHeight) = owners[NftHeight - 1] /\ NftHeight - 1 \in j.height..NftHeight
         /\ Cardinality(Staked(Before721(NftHeight))) \in Nat
         /\ Cardinality(StakedBy(Before721(NftHeight), j.sender)) \in Nat
         /\ StakedBy(Now, j.sender) \in SUBSET Tokens
<1>1. j \in NftJobType /\ NftHeight \in Nat /\ j.height \in 2..NftHeight
  BY LenProperties DEF NftInv, NftTypeOK, NftJobOK, NftHeight
<1>2. j.sender \in Stakers /\ j.height \in Nat
  BY <1>1 DEF NftJobType
<1>3. j.height < NftHeight => NftHeight # 1 /\ NftHeight - 1 \in j.height..NftHeight
  BY <1>1, <1>2
<1>4. StakedBy(Now, j.sender) \in SUBSET Tokens
  BY DEF StakedBy
<1> QED
  BY <1>1, <1>2, <1>3, <1>4, CountsAre DEF Before721

LEMMA queryTotalPowerKeeps ==
  ASSUME NftInv, NEW j \in nftJobs, queryTotalPower(j)
  PROVE  NftInv'
<1> DEFINE n == NftHeight
           x == [j EXCEPT !.phase = "power", !.total = Cardinality(Staked(Before721(NftHeight)))]
<1>1. /\ j \in NftJobType /\ n \in Nat /\ j.height \in 2..n /\ n > j.height
      /\ Before721(n) = owners[n - 1] /\ Cardinality(Staked(Before721(n))) \in Nat
  BY QueriesSee DEF queryTotalPower, waitForBlock
<1>2. /\ x \in NftJobType /\ x.height = j.height /\ x.sender = j.sender
      /\ x.phase = "power" /\ x.total = Cardinality(Staked(Before721(n)))
      /\ x.after = j.after /\ x.tokens = j.tokens
  BY <1>1 DEF NftJobType
<1>3. /\ nftJobs' = (nftJobs \ {j}) \cup {x}
      /\ nftLate' = IF n > j.height + 1 THEN nftLate \cup {j.height} ELSE nftLate
      /\ UNCHANGED <<owners, totalRows, stakerRows, ownerRows, nftLost>>
  BY DEF queryTotalPower, Becomes
<1> HIDE DEF x
<1>4. j.height \notin nftLate' => n - 1 = j.height
  BY <1>1, <1>3
<1>6. j.after = 0 /\ j.tokens = {}
  BY DEF queryTotalPower, NftInv, NftJobOK
<1>5. NftJobOK(owners, nftLate', x)
  BY <1>1, <1>2, <1>4, <1>6 DEF NftJobOK, TotalOK, NftHeight
<1> HIDE DEF n
<1> QED
  BY <1>2, <1>3, <1>5, JobStepKeeps

LEMMA queryVotingPowerKeeps ==
  ASSUME NftInv, NEW j \in nftJobs, queryVotingPower(j)
  PROVE  NftInv'
<1> DEFINE n == NftHeight
           x == [j EXCEPT !.phase = "tokens", !.power = Cardinality(StakedBy(Before721(NftHeight), j.sender))]
<1>1. NftJobOK(owners, nftLate, j) /\ j.phase = "power"
  BY DEF NftInv, queryVotingPower
<1>2. /\ j \in NftJobType /\ n \in Nat /\ j.height \in 2..n /\ j.height < n
      /\ Before721(n) = owners[n - 1] /\ n - 1 \in j.height..n
      /\ Cardinality(StakedBy(Before721(n), j.sender)) \in Nat
  BY <1>1, QueriesSee DEF NftJobOK, NftHeight
<1>3. /\ x \in NftJobType /\ x.height = j.height /\ x.sender = j.sender
      /\ x.phase = "tokens" /\ x.power = Cardinality(StakedBy(Before721(n), j.sender)) /\ x.total = j.total
      /\ x.after = j.after /\ x.tokens = j.tokens
  BY <1>2 DEF NftJobType
<1>4. /\ nftJobs' = (nftJobs \ {j}) \cup {x} /\ nftLate' = nftLate
      /\ UNCHANGED <<owners, totalRows, stakerRows, ownerRows, nftLost>>
  BY DEF queryVotingPower, Becomes
<1> HIDE DEF x
<1>5. PowerOK(owners, x.height, x.sender, x.power)
  <2>1. Before721(n) = owners[n - 1] /\ n - 1 \in j.height..Len(owners)
    BY <1>2 DEF NftHeight
  <2> QED
    BY <1>3, <2>1 DEF PowerOK, SameStaker
<1>7. TokensOK(owners, x.height, x.sender, Pages(owners, x))
  <2>1. x.after = 0 /\ x.tokens = {}
    BY <1>1, <1>3 DEF NftJobOK
  <2>2. \A t \in StakedBy(Now, j.sender) : t > 0 /\ t \in Tokens
    BY NftStakingAssumption DEF StakedBy
  <2>3. Pages(owners, x) = StakedBy(owners[Len(owners)], j.sender)
    BY <1>3, <2>1, <2>2 DEF Pages, PagesOf, Now, NftHeight
  <2> QED
    BY <1>3, <2>3 DEF TokensOK, StakedBy
<1>6. NftJobOK(owners, nftLate', x)
  BY <1>1, <1>3, <1>4, <1>5, <1>7 DEF NftJobOK
<1> HIDE DEF n
<1> QED
  BY <1>3, <1>4, <1>6, JobStepKeeps

\* The pages of tokens join to all of them if none moved meanwhile.
LEMMA queryStakedNftsKeeps ==
  ASSUME NftInv, NEW j \in nftJobs, queryStakedNfts(j)
  PROVE  NftInv'
<1> DEFINE all == StakedBy(Now, j.sender)
           rest == {t \in all : t > j.after}
           page == {t \in rest : Cardinality({u \in rest : u < t}) < NftLimit}
           found == j.tokens \cup page
           last == [j EXCEPT !.phase = "save", !.tokens = found]
           more == [j EXCEPT !.after = Max(page), !.tokens = found]
<1>1. NftJobOK(owners, nftLate, j) /\ j.phase = "tokens"
  BY DEF NftInv, queryStakedNfts
<1>2. j \in NftJobType /\ all \in SUBSET Tokens /\ Tokens \in SUBSET Nat /\ IsFiniteSet(Tokens) /\ NftLimit \in Nat \ {0}
  BY QueriesSee, NftStakingAssumption
<1>3. /\ nftJobs' = (nftJobs \ {j}) \cup {IF LastNftPage(page) THEN last ELSE more}
      /\ nftLate' = nftLate /\ UNCHANGED <<owners, totalRows, stakerRows, ownerRows, nftLost>>
  <2>1. Becomes(j, IF LastNftPage(page) THEN last ELSE more)
    BY DEF queryStakedNfts
  <2>2. nftLate' = nftLate /\ UNCHANGED <<owners, totalRows, stakerRows, ownerRows, nftLost>>
    BY DEF queryStakedNfts
  <2> HIDE DEF last, more, page
  <2> QED
    BY <2>1, <2>2 DEF Becomes
<1>4. page = {t \in rest : Cardinality({u \in rest : u < t}) < NftLimit}
  OBVIOUS
<1>5. \A t \in all : t \in rest <=> t > j.after
  OBVIOUS
<1>6. Pages(owners, j) = j.tokens \cup rest
  BY DEF Pages, PagesOf, Now, NftHeight
<1>7. rest \in SUBSET all
  OBVIOUS
<1>8. all = StakedBy(owners[Len(owners)], j.sender)
  BY DEF Now, NftHeight
<1> HIDE DEF all, rest, page
<1>9. IsFiniteSet(rest) /\ rest \in SUBSET Nat
  BY <1>2, <1>7, FS_Subset
<1>10. /\ IsFiniteSet(page) /\ Cardinality(page) \in Nat /\ page \subseteq rest
       /\ \A k \in page, l \in rest : l < k => l \in page
       /\ Cardinality(page) < NftLimit => page = rest
  <2>1. page \subseteq rest
    BY <1>4
  <2>2. NftLimit \in Nat \ {0} /\ rest \in SUBSET Nat /\ IsFiniteSet(rest)
    BY <1>2, <1>9
  <2> QED
    BY ONLY <1>4, <2>1, <2>2, PagesAre
<1>11. found \in SUBSET Tokens /\ TokensOK(owners, j.height, j.sender, j.tokens \cup rest)
  <2>1. j.tokens \in SUBSET Tokens /\ page \in SUBSET Tokens
    BY <1>2, <1>7, <1>10 DEF NftJobType
  <2>2. TokensOK(owners, j.height, j.sender, Pages(owners, j))
    BY <1>1 DEF NftJobOK
  <2> QED
    BY <1>6, <2>1, <2>2
<1>12. CASE LastNftPage(page)
  <2>1. found = j.tokens \cup rest
    BY <1>10, <1>12 DEF LastNftPage
  <2> HIDE DEF found
  <2>2. /\ last \in NftJobType /\ last.height = j.height /\ last.sender = j.sender /\ last.phase = "save"
        /\ last.tokens = found /\ last.total = j.total /\ last.power = j.power
    BY <1>2, <1>11 DEF NftJobType
  <2>3. nftJobs' = (nftJobs \ {j}) \cup {last}
    BY <1>3, <1>12
  <2> HIDE DEF last
  <2>4. NftJobOK(owners, nftLate', last)
    BY <1>1, <1>3, <1>11, <2>1, <2>2 DEF NftJobOK
  <2> QED
    BY <1>3, <2>2, <2>3, <2>4, JobStepKeeps
<1>13. CASE ~LastNftPage(page)
  <2> DEFINE m == Max(page)
  <2>1. page # {}
    BY <1>2, <1>10, <1>13, FS_EmptySet DEF LastNftPage
  <2>2. m \in page /\ \A k \in page : k <= m
    BY <1>9, <1>10, <2>1, MaxOf
  <2>3. nftJobs' = (nftJobs \ {j}) \cup {more}
    BY <1>3, <1>13
  <2> HIDE DEF m
  <2>4. m \in Nat /\ m > j.after /\ j.after \in Nat
    BY <1>2, <1>5, <1>7, <1>9, <1>10, <2>2 DEF NftJobType
  <2>5. found \cup {t \in all : t > m} = j.tokens \cup rest
    <3>1. ASSUME NEW t \in all PROVE t \in rest <=> t \in page \/ t > m
      <4>1. t \in Nat
        BY <1>2
      <4>2. t > m => t \in rest
        BY <1>5, <2>4, <4>1
      <4>3. t \in rest /\ ~(t > m) => t \in page
        BY <1>10, <2>2, <2>4, <4>1
      <4> QED
        BY <1>10, <4>2, <4>3
    <3> QED
      BY <1>7, <1>10, <3>1
  <2> HIDE DEF found
  <2>6. /\ more \in NftJobType /\ more.height = j.height /\ more.sender = j.sender /\ more.phase = "tokens"
        /\ more.tokens = found /\ more.total = j.total /\ more.power = j.power /\ more.after = m
    BY <1>1, <1>2, <1>11, <2>4 DEF NftJobType, m
  <2> HIDE DEF more
  <2>7. Pages(owners, more) = j.tokens \cup rest
    BY <1>8, <2>5, <2>6 DEF Pages, PagesOf
  <2>8. NftJobOK(owners, nftLate', more)
    BY <1>1, <1>3, <1>11, <2>6, <2>7 DEF NftJobOK
  <2> QED
    BY <1>3, <2>3, <2>6, <2>8, JobStepKeeps
<1> QED
  BY <1>12, <1>13

\* A job that is ignored is lost.
LEMMA ignoreNftJobKeeps ==
  ASSUME NftInv, NEW j \in nftJobs, ignoreNftJob(j)
  PROVE  NftInv'
<1>1. /\ UNCHANGED <<owners, totalRows, stakerRows, ownerRows, nftLate>> /\ nftJobs' = nftJobs \ {j}
      /\ nftLost \subseteq nftLost' /\ Lost(nftLost', j.height, j.sender)
  BY DEF ignoreNftJob, Lose, Lost
<1>2. NftJobOK(owners, nftLate', j) /\ j \in NftJobType
  BY <1>1 DEF NftInv, NftTypeOK
<1> QED
  BY <1>1, <1>2, JobStepKeeps

LEMMA attemptFailsKeeps ==
  ASSUME NftInv, NEW j \in nftJobs, attemptFails(j)
  PROVE  NftInv'
<1> DEFINE x == NewJob(j.height, j.sender)
<1>1. /\ UNCHANGED <<owners, totalRows, stakerRows, ownerRows, nftLate>>
      /\ nftJobs' \subseteq nftJobs \cup {x} /\ \A y \in nftJobs : y # j => y \in nftJobs'
      /\ nftLost \subseteq nftLost'
      /\ x \in nftJobs' \/ Lost(nftLost', j.height, j.sender)
  BY DEF attemptFails, Lose, Lost
<1>2. NftJobOK(owners, nftLate, j) /\ j \in NftJobType
  BY DEF NftInv, NftTypeOK
<1>3. /\ x \in NftJobType /\ x.height = j.height /\ x.sender = j.sender /\ x.phase = "total"
      /\ x.after = 0 /\ x.tokens = {}
  BY <1>2 DEF NftJobType, NewJob
<1> HIDE DEF x
<1>4. NftJobOK(owners, nftLate', x)
  BY <1>1, <1>2, <1>3 DEF NftJobOK
<1> QED
  BY <1>1, <1>3, <1>4, JobStepKeeps

\* A row that is upserted over is replaced by one of its name and height.
LEMMA UpsertHas ==
  ASSUME NEW rows, NEW new
  PROVE  /\ Upsert(rows, new) \subseteq rows \cup new /\ new \subseteq Upsert(rows, new)
         /\ \A h, name : HasRow(rows, h, name) => HasRow(Upsert(rows, new), h, name)
         /\ \A r \in new : HasRow(Upsert(rows, new), r.height, r.name)
BY DEF Upsert, HasRow

LEMMA saveKeeps ==
  ASSUME NftInv, NEW j \in nftJobs, save(j)
  PROVE  NftInv'
<1> DEFINE total == [name |-> j.height, height |-> j.height, data |-> j.total]
           staker == [name |-> j.sender, height |-> j.height, data |-> [power |-> j.power, tokens |-> j.tokens]]
           ownersOf == {[name |-> t, height |-> j.height, data |-> j.sender] : t \in j.tokens}
<1>1. /\ nftJobs' = nftJobs \ {j} /\ j.phase = "save"
      /\ totalRows' = Upsert(totalRows, {total})
      /\ stakerRows' = Upsert(stakerRows, {staker})
      /\ ownerRows' = Upsert(ownerRows, ownersOf)
      /\ UNCHANGED <<owners, nftLate, nftLost>>
  BY DEF save
<1>2. /\ j \in NftJobType /\ NftJobOK(owners, nftLate, j)
      /\ j.height \in 2..Len(owners) /\ TotalOK(owners, nftLate, j.height, j.total)
      /\ PowerOK(owners, j.height, j.sender, j.power) /\ TokensOK(owners, j.height, j.sender, j.tokens)
  BY <1>1 DEF NftInv, NftTypeOK, NftJobOK
<1>3. /\ total \in TotalRowType /\ TotalRowOK(owners, nftLate, total)
      /\ total.height = j.height /\ total.name = j.height
  BY <1>2 DEF TotalRowType, TotalRowOK, NftJobType
<1>4. /\ staker \in StakerRowType /\ StakerRowOK(owners, staker)
      /\ staker.height = j.height /\ staker.name = j.sender
  BY <1>2 DEF StakerRowType, StakerRowOK, NftJobType, TokensOK
<1>5. ASSUME NEW r \in ownersOf
      PROVE  r \in OwnerRowType /\ OwnerRowOK(owners, r) /\ r.name \in j.tokens /\ r.height = j.height
  <2>1. PICK t \in j.tokens : r = [name |-> t, height |-> j.height, data |-> j.sender]
    OBVIOUS
  <2>2. t \in Tokens /\ j.sender \in Stakers /\ j.height \in Nat
    BY <1>2, <2>1 DEF NftJobType
  <2>3. SameToken(owners, j.height, t) => owners[Len(owners)][t] = {j.sender}
    BY <1>2, <2>1, <2>2 DEF TokensOK
  <2> QED
    BY <1>2, <2>1, <2>2, <2>3 DEF OwnerRowType, OwnerRowOK
<1>6. \A t \in j.tokens : \E r \in ownersOf : r.name = t /\ r.height = j.height
  <2> SUFFICES ASSUME NEW t \in j.tokens PROVE \E r \in ownersOf : r.name = t /\ r.height = j.height
    OBVIOUS
  <2> WITNESS [name |-> t, height |-> j.height, data |-> j.sender] \in ownersOf
  <2> QED
    OBVIOUS
<1> HIDE DEF total, staker, ownersOf
<1>7. /\ totalRows' \subseteq totalRows \cup {total} /\ stakerRows' \subseteq stakerRows \cup {staker}
      /\ ownerRows' \subseteq ownerRows \cup ownersOf
  BY <1>1, UpsertHas
<1>8. NftTypeOK'
  BY <1>1, <1>3, <1>4, <1>5, <1>7 DEF NftInv, NftTypeOK
<1>9. /\ \A r \in totalRows' : TotalRowOK(owners, nftLate, r)
      /\ \A r \in stakerRows' : StakerRowOK(owners, r)
      /\ \A r \in ownerRows' : OwnerRowOK(owners, r)
  BY <1>3, <1>4, <1>5, <1>7 DEF NftInv
<1>10. /\ \A h, name : HasRow(totalRows, h, name) => HasRow(totalRows', h, name)
       /\ \A h, name : HasRow(stakerRows, h, name) => HasRow(stakerRows', h, name)
       /\ \A h, name : HasRow(ownerRows, h, name) => HasRow(ownerRows', h, name)
       /\ HasRow(totalRows', j.height, j.height) /\ HasRow(stakerRows', j.height, j.sender)
       /\ \A t \in j.tokens : HasRow(ownerRows', j.height, t)
  <2>1. /\ HasRow(totalRows', j.height, j.height)
        /\ \A h, name : HasRow(totalRows, h, name) => HasRow(totalRows', h, name)
    BY <1>1, <1>3, UpsertHas
  <2>2. /\ HasRow(stakerRows', j.height, j.sender)
        /\ \A h, name : HasRow(stakerRows, h, name) => HasRow(stakerRows', h, name)
    BY <1>1, <1>4, UpsertHas
  <2>3. /\ \A t \in j.tokens : HasRow(ownerRows', j.height, t)
        /\ \A h, name : HasRow(ownerRows, h, name) => HasRow(ownerRows', h, name)
    BY <1>1, <1>6, UpsertHas
  <2> QED
    BY <2>1, <2>2, <2>3
<1>11. \A h, s : Asks(nftJobs, h, s) => Asks(nftJobs', h, s) \/ (h = j.height /\ s = j.sender)
  BY <1>1 DEF Asks
<1>12. ASSUME NEW h \in 2..Len(owners)
       PROVE  /\ TotalHandled(owners, nftJobs', totalRows', nftLost, h)
              /\ \A s \in Stakers : StakerHandled(owners, nftJobs', stakerRows', nftLost, h, s)
              /\ \A t \in Tokens : TokenHandled(owners, nftJobs', ownerRows', nftLost, h, t)
  <2>1. /\ TotalHandled(owners, nftJobs, totalRows, nftLost, h)
        /\ \A s \in Stakers : StakerHandled(owners, nftJobs, stakerRows, nftLost, h, s)
        /\ \A t \in Tokens : TokenHandled(owners, nftJobs, ownerRows, nftLost, h, t)
    BY DEF NftInv
  <2>2. TotalHandled(owners, nftJobs', totalRows', nftLost, h)
    BY <1>10, <1>11, <2>1 DEF TotalHandled
  <2>3. \A s \in Stakers : StakerHandled(owners, nftJobs', stakerRows', nftLost, h, s)
    BY <1>10, <1>11, <2>1 DEF StakerHandled
  <2>4. ASSUME NEW t \in Tokens, NEW s \in Stakers,
               owners[h][t] = {s} /\ owners[h - 1][t] # {s} /\ SameToken(owners, h, t)
        PROVE  Lost(nftLost, h, s) \/ Asks(nftJobs', h, s) \/ HasRow(ownerRows', h, t)
    <3>1. Lost(nftLost, h, s) \/ Asks(nftJobs, h, s) \/ HasRow(ownerRows, h, t)
      BY <2>1, <2>4 DEF TokenHandled
    <3>2. CASE h = j.height /\ s = j.sender
      <4>1. h \in h..Len(owners)
        BY <1>2, <3>2
      <4>2. owners[Len(owners)][t] = {s}
        BY <2>4, <4>1 DEF SameToken
      <4>3. t \in j.tokens
        BY <1>2, <2>4, <3>2, <4>2 DEF TokensOK
      <4> QED
        BY <1>10, <3>2, <4>3
    <3> QED
      BY <1>10, <1>11, <3>1, <3>2
  <2> QED
    BY <2>2, <2>3, <2>4 DEF TokenHandled
<1>13. \A y \in nftJobs' : NftJobOK(owners, nftLate, y)
  BY <1>1 DEF NftInv
<1> QED
  BY <1>1, <1>9, <1>12, <1>13, <1>8 DEF NftInv

\* The invariant is inductive.
LEMMA NftInvHolds == NftStakingSpec => []NftInv
<1>1. NftStakingInit => NftInv
  <2> SUFFICES ASSUME NftStakingInit PROVE NftInv
    OBVIOUS
  <2>1. owners = <<[t \in Tokens |-> {}]>>
    BY DEF NftStakingInit
  <2>2. [t \in Tokens |-> {}] \in Shares
    BY DEF Shares, Owner
  <2>3. owners \in Seq(Shares) /\ Len(owners) = 1 /\ owners[1] = [t \in Tokens |-> {}]
    BY <2>1, <2>2
  <2>4. \A h \in 2..Len(owners) : FALSE
    BY <2>3
  <2> QED
    BY <2>3, <2>4 DEF NftStakingInit, NftInv, NftTypeOK
<1>2. NftInv /\ [NftStakingNext]_nftVars => NftInv'
  <2> SUFFICES ASSUME NftInv, [NftStakingNext]_nftVars PROVE NftInv'
    OBVIOUS
  <2>1. CASE UNCHANGED nftVars
    BY <2>1 DEF nftVars, NftInv, NftTypeOK
  <2>2. CASE NftBlock
    BY <2>2, NftBlockKeeps
  <2>3. CASE LearnNftCode
    BY <2>3 DEF LearnNftCode, NftInv, NftTypeOK
  <2>4. ASSUME NEW j \in nftJobs,
               \/ ignoreNftJob(j) \/ queryTotalPower(j) \/ queryVotingPower(j)
               \/ queryStakedNfts(j) \/ save(j) \/ attemptFails(j)
        PROVE  NftInv'
    BY <2>4, ignoreNftJobKeeps, queryTotalPowerKeeps, queryVotingPowerKeeps, queryStakedNftsKeeps, saveKeeps,
       attemptFailsKeeps
  <2> QED
    BY <2>1, <2>2, <2>3, <2>4 DEF NftStakingNext
<1> QED
  BY <1>1, <1>2, PTL DEF NftStakingSpec

\* The latest row of a name is one that no row of that name is higher than.
LEMMA LatestRowIs ==
  ASSUME NEW rows, NEW name, NEW n \in Nat, \A r \in rows : r.height \in 1..n
  PROVE  /\ LatestRow(rows, name) = {} => \A r \in rows : r.name # name
         /\ \A d \in LatestRow(rows, name) :
                \E r \in rows : /\ r.name = name /\ d = r.data
                                /\ \A y \in rows : y.name = name => y.height <= r.height
<1> DEFINE mine == {r \in rows : r.name = name}
           T == {r.height : r \in mine}
<1>1. ASSUME NEW r \in rows, r.name = name PROVE LatestRow(rows, name) # {}
  <2>1. r \in mine /\ r.height \in T /\ T \in SUBSET (1..n)
    BY <1>1
  <2>2. Max(T) \in T /\ \A k \in T : k <= Max(T)
    BY <2>1, MaxIs
  <2>3. PICK x \in mine : x.height = Max(T)
    BY <2>2
  <2>4. \A y \in mine : y.height <= x.height
    BY <2>2, <2>3
  <2>5. x.data \in LatestRow(rows, name)
    BY <2>3, <2>4 DEF LatestRow
  <2> QED
    BY <2>5
<1>2. \A d \in LatestRow(rows, name) :
         \E r \in rows : r.name = name /\ d = r.data /\ \A y \in rows : y.name = name => y.height <= r.height
  BY DEF LatestRow
<1> QED
  BY <1>1, <1>2

\* The owners are those of some block.
LEMMA NowIs ==
  ASSUME NftInv
  PROVE  /\ NftHeight \in Nat /\ NftHeight >= 1 /\ Now \in Shares /\ Now = owners[Len(owners)] /\ NftHeight = Len(owners)
         /\ \A h \in 1..NftHeight : owners[h] \in Shares /\ Before721(h) \in Shares
         /\ \A s \in Stakers : StakedBy(owners[1], s) = {}
         /\ Staked(owners[1]) = {}
         /\ State(Now) = IF indexed THEN Now ELSE owners[1]
<1>1. owners \in Seq(Shares) /\ NftHeight \in Nat /\ NftHeight >= 1 /\ owners[1] = [t \in Tokens |-> {}]
  BY LenProperties DEF NftInv, NftTypeOK, NftHeight
<1>2. \A h \in 1..NftHeight : owners[h] \in Shares
  BY <1>1, ElementOfSeq DEF NftHeight
<1>3. NftHeight \in 1..NftHeight /\ 1 \in 1..NftHeight /\ \A h \in 1..NftHeight : h # 1 => h - 1 \in 1..NftHeight
  BY <1>1
<1>4. \A s \in Stakers : StakedBy(owners[1], s) = {}
  BY <1>1 DEF StakedBy
<1>5. Staked(owners[1]) = {}
  BY <1>1 DEF Staked
<1>6. \A h \in 1..NftHeight : Before721(h) \in Shares
  BY <1>2, <1>3 DEF Before721
<1>7. State(Now) = IF indexed THEN Now ELSE owners[1]
  BY <1>1 DEF State
<1> QED
  BY <1>1, <1>2, <1>3, <1>4, <1>5, <1>6, <1>7 DEF Now, NftHeight

\* The last block that changed a value.
LEMMA LastMoveIs ==
  ASSUME NEW n \in Nat, n >= 1, NEW f, NEW m, m = Max({h \in 1..n : h = 1 \/ f[h] # f[h - 1]})
  PROVE  /\ m \in 1..n /\ (m = 1 \/ f[m] # f[m - 1])
         /\ \A h \in m..n : f[h] = f[n]
<1> DEFINE T == {h \in 1..n : h = 1 \/ f[h] # f[h - 1]}
<1>1. 1 \in T /\ T \in SUBSET (1..n)
  OBVIOUS
<1>2. m \in T /\ \A h \in T : h <= m
  BY <1>1, MaxIs
<1>3. ASSUME NEW k \in (m + 1)..n PROVE f[k] = f[k - 1]
  <2>1. k \in 1..n /\ k # 1 /\ ~(k <= m)
    BY <1>1, <1>2
  <2> QED
    BY <1>2, <2>1
<1>4. m \in Nat
  BY <1>1, <1>2
<1> HIDE DEF T
<1>5. \A h \in m..n : f[h] = f[n]
  BY <1>3, <1>4, NoneChanged
<1> QED
  BY <1>2, <1>5 DEF T

\* Once the jobs are done a staker's answers are those of the contract, unless the
\* job of its last event was lost.
LEMMA StakerSettles ==
  ASSUME NftInv, nftJobs = {}, NEW s \in Stakers, ~StakerLost(s)
  PROVE  cw721StakedNfts(s) = StakedBy(Now, s) /\ cw721Balance(s) = Cardinality(StakedBy(Now, s))
<1> DEFINE n == Len(owners)
           f == [h \in 1..n |-> StakedBy(owners[h], s)]
           L == LatestRow(stakerRows, s)
<1>1. /\ n \in Nat /\ n >= 1 /\ Now = owners[n] /\ StakedBy(owners[1], s) = {}
      /\ State(Now) = IF indexed THEN Now ELSE owners[1]
  BY NowIs
<1>3. \A r \in stakerRows : r.height \in 1..n /\ StakerRowOK(owners, r)
  BY <1>1 DEF NftInv, StakerRowOK
<1>2. PICK m : m = Max({h \in 1..n : h = 1 \/ f[h] # f[h - 1]})
  OBVIOUS
<1>4. m \in 1..n /\ (m = 1 \/ f[m] # f[m - 1]) /\ \A h \in m..n : f[h] = f[n]
  <2> HIDE DEF f, n
  <2> QED
    BY <1>1, <1>2, LastMoveIs
<1>7. {h \in 1..n : h = 1 \/ f[h] # f[h - 1]} =
          {h \in 1 .. NftHeight : h = 1 \/ StakedBy(owners[h], s) # StakedBy(owners[h - 1], s)}
  <2>1. \A h \in 1..n : h # 1 => h - 1 \in 1..n
    BY <1>1
  <2> QED
    BY <2>1 DEF NftHeight
<1>8. ~Lost(nftLost, m, s)
  BY <1>2, <1>7 DEF StakerLost, LastMove, Lost
<1>9. m = 1 \/ HasRow(stakerRows, m, s)
  <2> SUFFICES ASSUME m # 1 PROVE HasRow(stakerRows, m, s)
    OBVIOUS
  <2>1. m \in 2..n /\ m - 1 \in 1..n
    BY <1>1, <1>4
  <2>2. StakedBy(owners[m], s) # StakedBy(owners[m - 1], s)
    BY <1>4, <2>1
  <2> QED
    BY <1>8, <2>1, <2>2 DEF NftInv, StakerHandled, Asks
<1>10. ASSUME NEW a \in m..n PROVE SameStaker(owners, a, s)
  <2>1. n \in 1..n /\ \A g \in a..n : g \in m..n /\ g \in 1..n
    BY <1>1, <1>4
  <2> QED
    BY <1>4, <2>1 DEF SameStaker
<1>5. CASE L = {}
  <2>1. \A r \in stakerRows : r.name # s
    BY <1>1, <1>3, <1>5, LatestRowIs
  <2>2. SameStaker(owners, 1, s) /\ 1 \in 1..n
    <3>1. m = 1
      BY <1>9, <2>1 DEF HasRow
    <3> QED
      BY <1>1, <1>10, <3>1
  <2>3. StakedBy(Now, s) = {} /\ StakedBy(State(Now), s) = {}
    BY <1>1, <2>2 DEF SameStaker
  <2> QED
    BY <1>5, <2>3 DEF cw721StakedNfts, cw721Balance
<1>6. CASE L # {}
  <2>1. PICK d : d = CHOOSE x \in L : TRUE
    OBVIOUS
  <2>2. d \in L
    BY <1>6, <2>1
  <2>3. PICK r \in stakerRows : r.name = s /\ d = r.data /\ \A y \in stakerRows : y.name = s => y.height <= r.height
    BY <1>1, <1>3, <2>2, LatestRowIs
  <2>4. r.height \in 1..n
    BY <1>3, <2>3
  <2>5. m <= r.height
    BY <1>4, <1>9, <2>3, <2>4 DEF HasRow
  <2>6. SameStaker(owners, r.height, s)
    BY <1>4, <1>10, <2>4, <2>5
  <2>7. d.tokens = StakedBy(Now, s) /\ d.power = Cardinality(StakedBy(Now, s))
    BY <1>1, <1>3, <2>3, <2>6 DEF StakerRowOK, PowerOK
  <2> QED
    BY <1>6, <2>1, <2>7 DEF cw721StakedNfts, cw721Balance
<1> QED
  BY <1>5, <1>6

\* Once the jobs are done a staked token's answer is its owner, unless the job of its
\* last move was lost.
LEMMA TokenSettles ==
  ASSUME NftInv, nftJobs = {}, NEW t \in Staked(Now), ~TokenLost(t)
  PROVE  cw721Staker(t) = Now[t]
<1> DEFINE n == Len(owners)
           f == [h \in 1..n |-> owners[h][t]]
           L == LatestRow(ownerRows, t)
<1>1. /\ n \in Nat /\ n >= 1 /\ Now = owners[n] /\ Now \in Shares /\ t \in Tokens /\ Now[t] # {}
      /\ owners[1][t] = {}
  BY NowIs DEF Staked, NftInv, NftTypeOK
<1>2. PICK s \in Stakers : Now[t] = {s}
  BY <1>1 DEF Shares, Owner
<1>3. PICK m : m = Max({h \in 1..n : h = 1 \/ f[h] # f[h - 1]})
  OBVIOUS
<1>4. m \in 1..n /\ (m = 1 \/ f[m] # f[m - 1]) /\ \A h \in m..n : f[h] = f[n]
  <2> HIDE DEF f, n
  <2> QED
    BY <1>1, <1>3, LastMoveIs
<1>5. {h \in 1..n : h = 1 \/ f[h] # f[h - 1]} =
          {h \in 1 .. NftHeight : h = 1 \/ owners[h][t] # owners[h - 1][t]}
  <2>1. \A h \in 1..n : h # 1 => h - 1 \in 1..n
    BY <1>1
  <2> QED
    BY <2>1 DEF NftHeight
<1>7. ~Lost(nftLost, m, s)
  BY <1>2, <1>3, <1>5 DEF TokenLost, LastMove, Lost
<1>9. m \in m..n /\ \A h \in m..n : owners[h][t] = {s}
  <2>1. n \in 1..n /\ \A g \in m..n : g \in 1..n
    BY <1>1, <1>4
  <2> QED
    BY <1>1, <1>2, <1>4, <2>1
<1>6. m \in 2..n /\ owners[m - 1][t] # {s}
  <2>1. m # 1
    BY <1>1, <1>9
  <2>2. m \in 2..n /\ m - 1 \in 1..n
    BY <1>1, <1>4, <2>1
  <2> QED
    BY <1>4, <1>9, <2>1, <2>2
<1>8. SameToken(owners, m, t)
  BY <1>1, <1>2, <1>9 DEF SameToken
<1>10. HasRow(ownerRows, m, t)
  BY <1>1, <1>6, <1>7, <1>8, <1>9 DEF NftInv, TokenHandled, Asks
<1>11. \A r \in ownerRows : r.height \in 1..n /\ OwnerRowOK(owners, r)
  BY <1>1 DEF NftInv, OwnerRowOK
<1>12. L # {}
  BY <1>1, <1>10, <1>11, LatestRowIs DEF HasRow
<1>13. ASSUME NEW d \in L PROVE d = s
  <2>1. PICK r \in ownerRows : r.name = t /\ d = r.data /\ \A y \in ownerRows : y.name = t => y.height <= r.height
    BY <1>1, <1>11, LatestRowIs
  <2>2. m <= r.height /\ r.height \in 1..n
    BY <1>10, <1>11, <2>1 DEF HasRow
  <2>3. \A h \in r.height..n : h \in m..n
    BY <1>6, <2>2
  <2>4. SameToken(owners, r.height, t)
    BY <1>1, <1>2, <1>9, <2>3 DEF SameToken
  <2> QED
    BY <1>1, <1>2, <1>11, <2>1, <2>4 DEF OwnerRowOK
<1>14. L = {s}
  BY <1>12, <1>13
<1> QED
  BY <1>2, <1>12, <1>14 DEF cw721Staker

\* If no staker's last job was lost, the stakers, their shares and the owners are told.
LEMMA StakersAreTold ==
  ASSUME NftInv, nftJobs = {}, \A s \in Stakers : ~StakerLost(s)
  PROVE  /\ cw721TopStakers = [s \in {x \in Stakers : StakedBy(Now, x) # {}} |-> Cardinality(StakedBy(Now, s))]
         /\ cw721OwnersOfStakedNfts = [t \in Staked(Now) |-> Now[t]]
         /\ indexed => cw721TopStakers = onftTopStakers
<1>1. \A s \in Stakers : cw721StakedNfts(s) = StakedBy(Now, s) /\ cw721Balance(s) = Cardinality(StakedBy(Now, s))
  BY StakerSettles
<1>2. \A s \in Stakers : cw721Balance(s) > 0 <=> StakedBy(Now, s) # {}
  BY <1>1, CountsAre
<1>3. {x \in Stakers : cw721Balance(x) > 0} = {x \in Stakers : StakedBy(Now, x) # {}}
  BY <1>2
<1>4. cw721TopStakers = [s \in {x \in Stakers : StakedBy(Now, x) # {}} |-> Cardinality(StakedBy(Now, s))]
  BY <1>1, <1>3 DEF cw721TopStakers
<1>5. \A t \in Tokens : Now[t] = {} \/ \E s \in Stakers : Now[t] = {s}
  BY NowIs DEF Shares, Owner
<1>6. cw721OwnersOfStakedNfts = [t \in Staked(Now) |-> Now[t]]
  <2> DEFINE S == {x \in Stakers : StakedBy(Now, x) # {}}
  <2>1. UNION {cw721StakedNfts(s) : s \in S} = Staked(Now)
    <3>1. ASSUME NEW t \in Staked(Now) PROVE t \in UNION {cw721StakedNfts(s) : s \in S}
      <4>1. PICK s \in Stakers : Now[t] = {s}
        BY <1>5 DEF Staked
      <4>2. t \in StakedBy(Now, s)
        BY <4>1 DEF StakedBy, Staked
      <4> QED
        BY <1>1, <4>2
    <3>2. \A s \in S : cw721StakedNfts(s) \subseteq Staked(Now)
      BY <1>1 DEF StakedBy, Staked
    <3> QED
      BY <3>1, <3>2
  <2>2. ASSUME NEW t \in Staked(Now) PROVE {s \in S : t \in cw721StakedNfts(s)} = Now[t]
    <3>1. PICK x \in Stakers : Now[t] = {x}
      BY <1>5 DEF Staked
    <3>2. \A s \in Stakers : t \in StakedBy(Now, s) <=> s = x
      BY <3>1 DEF StakedBy, Staked
    <3> QED
      BY <1>1, <3>1, <3>2
  <2> HIDE DEF S
  <2>3. cw721OwnersOfStakedNfts = [t \in UNION {cw721StakedNfts(s) : s \in S} |-> {s \in S : t \in cw721StakedNfts(s)}]
    BY <1>3 DEF cw721OwnersOfStakedNfts, S
  <2> QED
    BY <2>1, <2>2, <2>3
<1>8. ASSUME indexed PROVE cw721TopStakers = onftTopStakers
  <2>1. \A s : onftStakedNfts(s) = StakedBy(Now, s)
    BY <1>8 DEF onftStakedNfts, State
  <2> QED
    BY <1>4, <2>1 DEF onftTopStakers
<1> QED
  BY <1>4, <1>6, <1>8

LEMMA StakersAreSettled == NftInv => StakersSettle
<1> SUFFICES ASSUME NftInv, nftJobs = {} PROVE StakersSettle
  BY DEF StakersSettle
<1>1. ASSUME NEW s \in Stakers, NEW h \in 1 .. NftHeight
      PROVE  onftPowerAtHeight(s, h) = cw721PowerAtHeight(s, h) /\ onftPowerAtHeight(s, h) <= onftTotalPowerAtHeight(h)
  BY CountsAre DEF onftPowerAtHeight, cw721PowerAtHeight, onftTotalPowerAtHeight
<1> QED
  BY <1>1, StakerSettles, TokenSettles, StakersAreTold DEF StakersSettle

LEMMA TotalsAreOnTime == NftInv => TotalsOnTime
<1> SUFFICES ASSUME NftInv, NEW h \in 1 .. NftHeight,
                    \A j \in nftJobs \cup nftLost : j.height >= h, \A l \in nftLate : l >= h
             PROVE  cw721TotalPowerAtHeight(h) = Cardinality(Staked(Before721(h)))
  BY DEF TotalsOnTime
<1> DEFINE n == Len(owners)
           b == IF h = 1 THEN 1 ELSE h - 1
           below == {r \in totalRows : r.height < h}
           T == {r.height : r \in below}
<1>1. n \in Nat /\ n >= 1 /\ h \in 1..n /\ b \in 1..n /\ b <= h /\ Before721(h) = owners[b] /\ Staked(owners[1]) = {}
  BY NowIs DEF Before721
<1>2. ASSUME NEW a \in 1..b, \A k \in (a + 1)..b : k \notin T PROVE owners[a] = owners[b]
  <2>1. ASSUME NEW k \in (a + 1)..b PROVE owners[k] = owners[k - 1]
    <3>1. k \in 2..n /\ k < h
      BY <1>1
    <3>2. TotalHandled(owners, nftJobs, totalRows, nftLost, k)
      BY <3>1 DEF NftInv
    <3>3. \A s \in Stakers : ~Lost(nftLost, k, s)
      <4>1. \A s : [height |-> k, sender |-> s].height = k
        OBVIOUS
      <4> QED
        BY <3>1, <4>1 DEF Lost
    <3>4. \A s \in Stakers : ~Asks(nftJobs, k, s)
      BY <3>1 DEF Asks
    <3>5. ~HasRow(totalRows, k, k)
      BY <1>2, <3>1 DEF HasRow
    <3> QED
      BY <3>2, <3>3, <3>4, <3>5 DEF TotalHandled
  <2>2. a \in Nat /\ b \in Nat /\ a \in a..b
    BY <1>1
  <2> HIDE DEF b
  <2>3. \A k \in a..b : owners[k] = owners[b]
    BY <2>1, <2>2, NoneChanged
  <2> QED
    BY <2>2, <2>3
<1>3. CASE below = {}
  <2>1. 1 \in 1..b /\ \A k \in 2..b : k \notin T
    BY <1>1, <1>3
  <2>2. Staked(owners[b]) = {}
    BY <1>1, <1>2, <2>1
  <2>3. Staked(State(Before721(h))) = {}
    BY <1>1, <2>2 DEF State, Staked
  <2> QED
    BY <1>1, <1>3, <2>2, <2>3 DEF cw721TotalPowerAtHeight
<1>4. CASE below # {}
  <2>1. T # {} /\ T \in SUBSET (1..n)
    <3>1. \A r \in below : r.height \in 1..n
      BY <1>1 DEF NftInv, TotalRowOK
    <3> QED
      BY <1>4, <3>1
  <2>2. Max(T) \in T /\ \A k \in T : k <= Max(T)
    BY <1>1, <2>1, MaxIs
  <2>3. \E r \in below : \A x \in below : x.height <= r.height
    BY <2>2
  <2>4. PICK r : r = CHOOSE y \in below : \A x \in below : x.height <= y.height
    OBVIOUS
  <2>5. r \in below /\ \A x \in below : x.height <= r.height
    BY <2>3, <2>4
  <2>6. r \in totalRows /\ r.height < h /\ TotalRowOK(owners, nftLate, r) /\ r.height \in 1..b
    BY <1>1, <2>5 DEF NftInv, TotalRowOK
  <2>7. \A k \in (r.height + 1)..b : k \notin T
    <3> SUFFICES ASSUME NEW k \in (r.height + 1)..b, k \in T PROVE FALSE
      OBVIOUS
    <3>1. k <= r.height
      BY <2>5
    <3> QED
      BY <1>1, <2>6, <3>1
  <2>8. r.height \notin nftLate
    BY <1>1, <2>6
  <2>9. r.data = Cardinality(Staked(owners[b]))
    BY <1>2, <2>6, <2>7, <2>8 DEF TotalRowOK, TotalOK
  <2> QED
    BY <1>1, <1>4, <2>4, <2>9 DEF cw721TotalPowerAtHeight
<1> QED
  BY <1>3, <1>4

\* The extracted stakers, shares and owners are the contract's once the jobs are done,
\* but for those whose last job failed for good or was ignored, however late each job
\* asked the node for its pages and however many runs were repeated or went on after
\* their timeout, and totals of jobs that were in time are those of their blocks
\* (NftStakeUpdateExtractor, daoVotingCw721Staked).
THEOREM StakingHolds == NftStakingSpec => []StakingSettles
<1>1. NftInv => StakingSettles
  BY StakersAreSettled, TotalsAreOnTime DEF StakingSettles
<1> QED
  BY <1>1, NftInvHolds, PTL

-----------------------------------------------------------------------------
(* A proposal module. Parts of the invariant are stated over the state M   *)
(* of the module after n blocks and the tables, so that they can be moved  *)
(* from one state to the next.                                             *)

PmProp == [start : Nat, mod : Nat, open : BOOLEAN]
PmVote == [voter : Voters, id : Nat, at : Nat]
PmState == [props : Seq(PmProp), votes : SUBSET PmVote]
PmJob == [height : Nat, id : Nat, voter : Nat, by : {"event", "sync"}, prop : SUBSET PmProp, vote : SUBSET Nat,
          asked : BOOLEAN]
PmBoundType == [blocks : Nat, proposals : Nat, exports : Nat, failures : Nat, syncs : Nat, walks : Nat,
                starts : Nat, listening : SUBSET BOOLEAN, known : SUBSET BOOLEAN, kind : {"v1", "v2", "multiple"}]

\* What a module is like after n blocks.
StateOK(M, n) ==
    /\ M \in PmState
    /\ \A i \in DOMAIN M.props : 1 <= M.props[i].start /\ M.props[i].start <= M.props[i].mod /\ M.props[i].mod <= n
    /\ \A w \in M.votes : w.id \in DOMAIN M.props /\ w.at <= n
    /\ \A w, x \in M.votes : w.voter = x.voter /\ w.id = x.id => w = x

\* M is what became of L, the state after block h.
Becoming(L, M, h) ==
    /\ \A i \in DOMAIN L.props : i \in DOMAIN M.props
    /\ \A i \in DOMAIN M.props :
           /\ M.props[i].start <= h => i \in DOMAIN L.props
           /\ i \in DOMAIN L.props => /\ L.props[i].start = M.props[i].start
                                      /\ M.props[i].mod <= h => L.props[i] = M.props[i]
    /\ \A w \in M.votes : w.at <= h => w \in L.votes
    /\ \A w \in L.votes : \E x \in M.votes : x.voter = w.voter /\ x.id = w.id /\ w.at <= x.at

\* Block h changes proposal i, and casts the vote of v on it if v is a voter.
Moves(L, M, h, i, v) ==
    /\ StateOK(M, h) /\ i \in DOMAIN M.props /\ M.props[i].mod = h
    /\ \A k \in DOMAIN L.props : k \in DOMAIN M.props /\ M.props[k].start = L.props[k].start
    /\ i \notin DOMAIN L.props => M.props[i].start = h
    /\ \A k \in DOMAIN M.props : k # i => k \in DOMAIN L.props /\ M.props[k] = L.props[k]
    /\ \A w \in M.votes : w \in L.votes \/ (w.voter = v /\ w.id = i)
    /\ \A w \in L.votes : \E x \in M.votes : x.voter = w.voter /\ x.id = w.id
    /\ \A w \in M.votes : w.voter = v /\ w.id = i => w.at = h

\* A row is the present unless that changed since the block of the row. A dated row of a
\* proposal is not before the proposal, and one of a vote not after the vote.
PropRow(M, key, dated, i, r) ==
    /\ r.name = <<key, i>> /\ r.data.start = M.props[i].start
    /\ M.props[i].mod <= r.height => r.data = M.props[i]
    /\ dated => M.props[i].start <= r.height
VoteRow(vkey, dated, w, r) ==
    /\ r.name = VoteName(vkey, w.voter, w.id) /\ r.data.votedAt = r.height
    /\ w.at <= r.height => r.data.vote = w.at
    /\ dated => r.height <= w.at
RowOK(M, n, key, vkey, dated, r) ==
    /\ r.height \in 1..n
    /\ (\E i \in DOMAIN M.props : PropRow(M, key, dated, i, r)) \/ (\E w \in M.votes : VoteRow(vkey, dated, w, r))
TableOK(M, n, key, vkey, dated, table) == \A r \in table : RowOK(M, n, key, vkey, dated, r)

\* A table has what changed up to a block.
Named(table, name, h) == \E r \in table : r.name = name /\ h <= r.height
Complete(M, key, vkey, table, upTo) ==
    /\ \A i \in DOMAIN M.props :
           /\ M.props[i].mod <= upTo => Named(table, <<key, i>>, M.props[i].mod)
           /\ M.props[i].start <= upTo => Named(table, <<key, i>>, 0)
    /\ \A w \in M.votes : w.at <= upTo => Named(table, VoteName(vkey, w.voter, w.id), w.at)

\* A job asks for a proposal there is, and what it was answered is the present unless
\* that changed since its block.
JobOK(M, n, dated, j) ==
    /\ j \in PmJob /\ j.height \in 1..n /\ j.id \in DOMAIN M.props
    /\ dated => /\ M.props[j.id].start <= j.height
                /\ \A w \in M.votes : w.voter = j.voter /\ w.id = j.id => j.height <= w.at
    /\ j.asked => /\ \E d \in PmProp : /\ j.prop = {d} /\ d.start = M.props[j.id].start
                                       /\ M.props[j.id].mod <= j.height => d = M.props[j.id]
                  /\ j.vote # {} => \E w \in M.votes : w.voter = j.voter /\ w.id = j.id
                  /\ \A w \in M.votes : w.voter = j.voter /\ w.id = j.id /\ w.at <= j.height => j.vote = {w.at}
JobsOK(M, n, dated, jobs) == \A j \in jobs : JobOK(M, n, dated, j)

\* An extraction has what there is of a proposal, or of a vote, or a job will.
PropCovered(M, jobs, ext, i) ==
    \/ Named(ext, <<"proposal", i>>, M.props[i].mod)
    \/ \E j \in jobs : j.id = i /\ M.props[i].mod <= j.height
VoteCovered(jobs, ext, w) ==
    \/ Named(ext, <<"voteCast", w.voter, w.id>>, w.at)
    \/ \E j \in jobs : j.id = w.id /\ j.voter = w.voter /\ w.at <= j.height
AllCovered(M, jobs, ext) ==
    /\ \A i \in DOMAIN M.props : PropCovered(M, jobs, ext, i)
    /\ \A w \in M.votes : VoteCovered(jobs, ext, w)

\* What a sync has left is what it is still to list, of what was there when it began.
PropLeft(M, s, i) == ~s.last /\ s.after < i /\ M.props[i].mod <= s.height
VoteLeft(s, w) ==
    /\ w.at <= s.height
    /\ \/ ~s.last /\ s.after < w.id
       \/ w.id \in s.todo /\ \E i \in s.todo : i < w.id
       \/ w.id \in s.todo /\ s.voters < w.voter
SyncCovers(M, jobs, ext, s) ==
    /\ \A i \in DOMAIN M.props : PropCovered(M, jobs, ext, i) \/ PropLeft(M, s, i)
    /\ \A w \in M.votes : VoteCovered(jobs, ext, w) \/ VoteLeft(s, w)
SyncType == [on : BOOLEAN, height : Nat, after : Nat, todo : SUBSET Nat, last : BOOLEAN, voters : Nat,
             clean : BOOLEAN, ever : BOOLEAN]
SyncOK(M, n, jobs, ext, s) ==
    /\ s \in SyncType /\ s.todo \subseteq DOMAIN M.props
    /\ s.todo = {} => s.voters = 0
    /\ s.on => s.height \in 1..n /\ s.ever
    /\ s.on /\ s.clean => SyncCovers(M, jobs, ext, s)

\* What a table lists for a client.
PropsIn(table, key) == {r.name[2] : r \in {x \in table : x.name[1] = key}}
Listed(rows, key, what, table) ==
    CASE what = "votes" /\ table = "ext" -> VotersIn(rows.ext, 1)
      [] what = "votes" /\ table = "tr" -> VotersIn(rows.tr, 1)
      [] what = "votes" /\ table = "ev" -> BallotsIn(rows.ev, 1)
      [] what # "votes" /\ table = "ext" -> PropsIn(rows.ext, "proposal")
      [] what # "votes" /\ table = "tr" -> PropsIn(rows.tr, "proposal")
      [] OTHER -> PropsIn(rows.ev, key)

\* The cursor of a client has passed x.
PassedBy(what, cursor, x) == IF what = "reverse" THEN cursor # 0 /\ cursor <= x ELSE x <= cursor
Walked(seen) == UNION {seen[k] : k \in DOMAIN seen}
ClientType == [what : {"none", "list", "reverse", "votes"}, cursor : Nat, seen : Seq(SUBSET (Nat \ {0})),
               want : SUBSET (Nat \ {0}), table : {"none", "ext", "tr", "ev"}, switched : BOOLEAN, done : BOOLEAN]
ClientOK(rows, key, c) ==
    /\ c \in ClientType
    /\ c.what # "none" => c.table # "none" /\ c.want \subseteq Listed(rows, key, c.what, c.table)
    /\ \A k \in DOMAIN c.seen : \A x \in c.seen[k] : PassedBy(c.what, c.cursor, x)
    /\ \A k, l \in DOMAIN c.seen : k # l => c.seen[k] \cap c.seen[l] = {}
    /\ ~c.switched => /\ \A x \in c.want : PassedBy(c.what, c.cursor, x) => x \in Walked(c.seen)
                      /\ c.done => c.want \subseteq Walked(c.seen)

PmRowsOK(rows) == rows = [ext |-> rows.ext, tr |-> rows.tr, ev |-> rows.ev]
PmTypeOK ==
    /\ pmBound \in PmBoundType
    /\ pmChain \in Seq(PmState) /\ pmExported \in 0..PmHeight /\ PmRowsOK(pmRows)
    /\ pmKnown \in BOOLEAN /\ listening \in BOOLEAN
PmChainOK ==
    /\ StateOK(Module, PmHeight)
    /\ \A h \in 1..PmHeight : StateOK(pmChain[h], h) /\ Becoming(pmChain[h], Module, h)
PmTablesOK ==
    /\ TableOK(Module, PmHeight, "proposal", "voteCast", ~sync.ever, pmRows.ext)
    /\ TableOK(Module, PmHeight, "proposal", "voteCast", TRUE, pmRows.tr)
    /\ TableOK(Module, PmHeight, ProposalsKey, "ballots", TRUE, pmRows.ev)
    /\ Complete(Module, ProposalsKey, "ballots", pmRows.ev, pmExported)
    /\ "tr" \notin gaps => Complete(Module, "proposal", "voteCast", pmRows.tr, pmExported)
PmWritersOK ==
    /\ JobsOK(Module, PmHeight, ~sync.ever, pmJobs)
    /\ "ext" \notin gaps => AllCovered(Module, pmJobs, pmRows.ext)
    /\ SyncOK(Module, PmHeight, pmJobs, pmRows.ext, sync)
PmClientOK == ClientOK(pmRows, ProposalsKey, client)

\* Each row and each answer on its way is the present unless that changed since its
\* block; what changed last is in a row, will be asked for by a job, or is still to be
\* listed by a sync.
PmInv == PmTypeOK /\ PmChainOK /\ PmTablesOK /\ PmWritersOK /\ PmClientOK

-----------------------------------------------------------------------------
(* A block of the module.                                                  *)

LEMMA StateIs ==
  ASSUME NEW M, NEW n \in Nat, StateOK(M, n)
  PROVE  /\ Len(M.props) \in Nat /\ DOMAIN M.props = 1..Len(M.props) /\ M.props \in [1..Len(M.props) -> PmProp]
         /\ \A i \in DOMAIN M.props : /\ i \in Nat \ {0} /\ M.props[i] \in PmProp
                                     /\ M.props[i].start \in 1..n /\ M.props[i].mod \in 1..n
         /\ \A w \in M.votes : w \in PmVote /\ w.voter \in Voters /\ w.id \in Nat \ {0} /\ w.at \in 0..n
<1>1. M.props \in Seq(PmProp) /\ M.votes \subseteq PmVote
  BY DEF StateOK, PmState
<1>2. Len(M.props) \in Nat /\ DOMAIN M.props = 1..Len(M.props) /\ M.props \in [1..Len(M.props) -> PmProp]
  BY <1>1
<1>3. ASSUME NEW i \in DOMAIN M.props
      PROVE  i \in Nat \ {0} /\ M.props[i] \in PmProp /\ M.props[i].start \in 1..n /\ M.props[i].mod \in 1..n
  <2>1. i \in Nat \ {0} /\ M.props[i] \in PmProp
    BY <1>2
  <2>2. M.props[i].start \in Nat /\ M.props[i].mod \in Nat
    BY <2>1 DEF PmProp
  <2> QED
    BY <2>1, <2>2 DEF StateOK
<1>4. ASSUME NEW w \in M.votes PROVE w \in PmVote /\ w.voter \in Voters /\ w.id \in Nat \ {0} /\ w.at \in 0..n
  <2>1. w \in PmVote /\ w.voter \in Voters /\ w.at \in Nat
    BY <1>1 DEF PmVote
  <2> QED
    BY <1>3, <2>1 DEF StateOK
<1> QED
  BY <1>2, <1>3, <1>4

LEMMA MovesBecome ==
  ASSUME NEW K, NEW L, NEW M, NEW g \in Nat, NEW h \in Nat, NEW n \in Nat, n + 1 = h, g <= n, NEW i, NEW v,
         StateOK(K, g), StateOK(L, n), Moves(L, M, h, i, v), Becoming(K, L, g)
  PROVE  Becoming(K, M, g)
<1>1. \A k \in DOMAIN K.props : k \in DOMAIN M.props
  BY DEF Moves, Becoming
<1>2. \A k \in DOMAIN M.props : M.props[k].start \in Nat /\ M.props[k].mod \in Nat
  BY StateIs DEF Moves
<1>3. ASSUME NEW k \in DOMAIN M.props
      PROVE  /\ M.props[k].start <= g => k \in DOMAIN K.props
             /\ k \in DOMAIN K.props => /\ K.props[k].start = M.props[k].start
                                        /\ M.props[k].mod <= g => K.props[k] = M.props[k]
  <2>1. CASE k # i
    BY <1>2, <2>1 DEF Moves, Becoming
  <2>2. CASE k = i
    BY <1>2, <2>2 DEF Moves, Becoming
  <2> QED
    BY <2>1, <2>2
<1>4. ASSUME NEW w \in M.votes, w.at <= g PROVE w \in K.votes
  BY <1>4 DEF Moves, Becoming
<1>5. ASSUME NEW w \in K.votes PROVE \E x \in M.votes : x.voter = w.voter /\ x.id = w.id /\ w.at <= x.at
  <2>1. PICK y \in L.votes : y.voter = w.voter /\ y.id = w.id /\ w.at <= y.at
    BY DEF Becoming
  <2>2. PICK x \in M.votes : x.voter = y.voter /\ x.id = y.id
    BY DEF Moves
  <2>3. w.at \in Nat /\ w.at <= g
    BY DEF StateOK, PmState, PmVote
  <2>4. CASE x \in L.votes
    <3>1. x = y
      BY <2>2, <2>4 DEF StateOK
    <3> QED
      BY <2>1, <3>1
  <2>5. CASE x \notin L.votes
    <3>1. x.at = h
      BY <2>5 DEF Moves
    <3> QED
      BY <2>1, <2>2, <2>3, <3>1
  <2> QED
    BY <2>4, <2>5
<1> QED
  BY <1>1, <1>3, <1>4, <1>5 DEF Becoming

LEMMA BecomesItself ==
  ASSUME NEW M, NEW h \in Nat, StateOK(M, h)
  PROVE  Becoming(M, M, h)
<1>1. \A w \in M.votes : w.at \in Nat
  BY DEF StateOK, PmState, PmVote
<1> QED
  BY <1>1 DEF Becoming

LEMMA RowMoves ==
  ASSUME NEW L, NEW M, NEW h \in Nat, NEW n \in Nat, n + 1 = h, NEW i, NEW v,
         StateOK(L, n), Moves(L, M, h, i, v),
         NEW key, NEW vkey, NEW dated, NEW r, RowOK(L, n, key, vkey, dated, r)
  PROVE  RowOK(M, h, key, vkey, dated, r)
<1>1. r.height \in 1..h /\ r.height <= n
  BY DEF RowOK
<1>2. ASSUME NEW k \in DOMAIN L.props, PropRow(L, key, dated, k, r)
      PROVE  k \in DOMAIN M.props /\ PropRow(M, key, dated, k, r)
  <2>1. k \in DOMAIN M.props /\ M.props[k].start = L.props[k].start
    BY DEF Moves
  <2>2. CASE k # i
    <3>1. M.props[k] = L.props[k]
      BY <2>1, <2>2 DEF Moves
    <3> QED
      BY <1>2, <2>1, <3>1 DEF PropRow
  <2>3. CASE k = i
    <3>1. M.props[k].mod = h
      BY <2>3 DEF Moves
    <3> QED
      BY <1>1, <1>2, <2>1, <3>1 DEF PropRow
  <2> QED
    BY <2>2, <2>3
<1>3. ASSUME NEW w \in L.votes, VoteRow(vkey, dated, w, r)
      PROVE  \E x \in M.votes : VoteRow(vkey, dated, x, r)
  <2>1. PICK x \in M.votes : x.voter = w.voter /\ x.id = w.id
    BY DEF Moves
  <2>2. CASE x \in L.votes
    <3>1. x = w
      BY <2>1, <2>2 DEF StateOK
    <3> QED
      BY <1>3, <3>1
  <2>3. CASE x \notin L.votes
    <3>1. x.at = h
      BY <2>3 DEF Moves
    <3> QED
      BY <1>1, <1>3, <2>1, <3>1 DEF VoteRow
  <2> QED
    BY <2>2, <2>3
<1> QED
  BY <1>1, <1>2, <1>3 DEF RowOK

LEMMA CompleteMoves ==
  ASSUME NEW L, NEW M, NEW h \in Nat, NEW n \in Nat, n + 1 = h, NEW i, NEW v,
         Moves(L, M, h, i, v),
         NEW key, NEW vkey, NEW table, NEW upTo \in 0..n, Complete(L, key, vkey, table, upTo)
  PROVE  Complete(M, key, vkey, table, upTo)
<1>1. ASSUME NEW k \in DOMAIN M.props
      PROVE  /\ M.props[k].mod <= upTo => Named(table, <<key, k>>, M.props[k].mod)
             /\ M.props[k].start <= upTo => Named(table, <<key, k>>, 0)
  <2>1. CASE k # i
    BY <2>1 DEF Moves, Complete
  <2>2. CASE k = i
    <3>1. ~(M.props[k].mod <= upTo)
      BY <2>2 DEF Moves
    <3>2. CASE k \in DOMAIN L.props
      <4>1. M.props[k].start = L.props[k].start
        BY <3>2 DEF Moves
      <4> QED
        BY <3>1, <3>2, <4>1 DEF Complete
    <3>3. CASE k \notin DOMAIN L.props
      BY <2>2, <3>1, <3>3 DEF Moves
    <3> QED
      BY <3>2, <3>3
  <2> QED
    BY <2>1, <2>2
<1>2. ASSUME NEW w \in M.votes, w.at <= upTo PROVE Named(table, VoteName(vkey, w.voter, w.id), w.at)
  <2>1. w \in L.votes
    BY <1>2 DEF Moves
  <2> QED
    BY <1>2, <2>1 DEF Complete
<1> QED
  BY <1>1, <1>2 DEF Complete

LEMMA JobMoves ==
  ASSUME NEW L, NEW M, NEW h \in Nat, NEW n \in Nat, n + 1 = h, NEW i, NEW v,
         StateOK(L, n), Moves(L, M, h, i, v), NEW dated, NEW j, JobOK(L, n, dated, j)
  PROVE  JobOK(M, h, dated, j)
<1>1. j \in PmJob /\ j.height \in 1..h /\ j.height <= n /\ j.id \in DOMAIN L.props /\ j.id \in DOMAIN M.props
  BY DEF JobOK, Moves
<1>2. M.props[j.id].start = L.props[j.id].start
  BY <1>1 DEF Moves
<1>3. ASSUME M.props[j.id].mod <= j.height PROVE M.props[j.id] = L.props[j.id]
  BY <1>1, <1>3 DEF Moves
<1>4. ASSUME NEW w \in M.votes, w.at <= j.height PROVE w \in L.votes
  BY <1>1, <1>4 DEF Moves
<1>5. ASSUME NEW w \in M.votes, w \notin L.votes PROVE w.at = h
  BY <1>5 DEF Moves
<1>6. ASSUME dated
      PROVE  /\ M.props[j.id].start <= j.height
             /\ \A w \in M.votes : w.voter = j.voter /\ w.id = j.id => j.height <= w.at
  <2>1. \A w \in M.votes : w.voter = j.voter /\ w.id = j.id => j.height <= w.at
    BY <1>1, <1>5, <1>6 DEF JobOK
  <2> QED
    BY <1>2, <1>6, <2>1 DEF JobOK
<1>7. ASSUME j.asked
      PROVE  /\ \E d \in PmProp : /\ j.prop = {d} /\ d.start = M.props[j.id].start
                                  /\ M.props[j.id].mod <= j.height => d = M.props[j.id]
             /\ j.vote # {} => \E w \in M.votes : w.voter = j.voter /\ w.id = j.id
             /\ \A w \in M.votes : w.voter = j.voter /\ w.id = j.id /\ w.at <= j.height => j.vote = {w.at}
  <2>1. PICK d \in PmProp : /\ j.prop = {d} /\ d.start = L.props[j.id].start
                            /\ L.props[j.id].mod <= j.height => d = L.props[j.id]
    BY <1>7 DEF JobOK
  <2>2. M.props[j.id].mod <= j.height => d = M.props[j.id]
    BY <1>3, <2>1
  <2>3. ASSUME j.vote # {} PROVE \E w \in M.votes : w.voter = j.voter /\ w.id = j.id
    <3>1. PICK w \in L.votes : w.voter = j.voter /\ w.id = j.id
      BY <1>7, <2>3 DEF JobOK
    <3> QED
      BY <3>1 DEF Moves
  <2>4. \A w \in M.votes : w.voter = j.voter /\ w.id = j.id /\ w.at <= j.height => j.vote = {w.at}
    BY <1>4, <1>7 DEF JobOK
  <2> QED
    BY <1>2, <2>1, <2>2, <2>3, <2>4
<1> QED
  BY <1>1, <1>6, <1>7 DEF JobOK

\* The job of the block's event.
LEMMA JobOfBlock ==
  ASSUME NEW L, NEW M, NEW h \in Nat \ {0}, NEW i \in Nat, NEW v \in Nat, Moves(L, M, h, i, v), NEW dated
  PROVE  JobOK(M, h, dated, Job(h, i, v, "event"))
<1> DEFINE j == Job(h, i, v, "event")
<1>1. j \in PmJob /\ j.height = h /\ j.id = i /\ j.voter = v /\ ~j.asked
  BY DEF Job, PmJob
<1> SUFFICES JobOK(M, h, dated, j)
  OBVIOUS
<1> HIDE DEF j
<1>2. i \in DOMAIN M.props /\ M.props[i].start <= h
  BY DEF Moves, StateOK
<1>3. \A w \in M.votes : w.voter = v /\ w.id = i => h <= w.at
  BY DEF Moves
<1>4. h \in 1..h
  OBVIOUS
<1> QED
  BY <1>1, <1>2, <1>3, <1>4 DEF JobOK

\* What is not covered was not, and has not changed.
CoversOn(L, M, jobs, jobs2, ext) ==
    /\ \A k \in DOMAIN M.props :
           PropCovered(M, jobs2, ext, k) \/ (k \in DOMAIN L.props /\ M.props[k] = L.props[k] /\ ~PropCovered(L, jobs, ext, k))
    /\ \A w \in M.votes : VoteCovered(jobs2, ext, w) \/ (w \in L.votes /\ ~VoteCovered(jobs, ext, w))

LEMMA CoversMove ==
  ASSUME NEW L, NEW M, NEW h \in Nat, NEW i, NEW v, Moves(L, M, h, i, v),
         NEW jobs, NEW jobs2, jobs \subseteq jobs2, NEW j \in jobs2, j.height = h, j.id = i, j.voter = v, NEW ext
  PROVE  CoversOn(L, M, jobs, jobs2, ext)
<1>1. ASSUME NEW k \in DOMAIN M.props
      PROVE  PropCovered(M, jobs2, ext, k) \/ (k \in DOMAIN L.props /\ M.props[k] = L.props[k] /\ ~PropCovered(L, jobs, ext, k))
  <2>1. CASE k = i
    <3>1. M.props[k].mod = h
      BY <2>1 DEF Moves
    <3> QED
      BY <2>1, <3>1 DEF PropCovered
  <2>2. CASE k # i
    <3>1. k \in DOMAIN L.props /\ M.props[k] = L.props[k]
      BY <2>2 DEF Moves
    <3>2. PropCovered(L, jobs, ext, k) => PropCovered(M, jobs2, ext, k)
      BY <3>1 DEF PropCovered
    <3> QED
      BY <3>1, <3>2
  <2> QED
    BY <2>1, <2>2
<1>2. ASSUME NEW w \in M.votes PROVE VoteCovered(jobs2, ext, w) \/ (w \in L.votes /\ ~VoteCovered(jobs, ext, w))
  <2>1. CASE w.voter = v /\ w.id = i
    <3>1. w.at = h
      BY <2>1 DEF Moves
    <3> QED
      BY <2>1, <3>1 DEF VoteCovered
  <2>2. CASE ~(w.voter = v /\ w.id = i)
    <3>1. w \in L.votes
      BY <2>2 DEF Moves
    <3>2. VoteCovered(jobs, ext, w) => VoteCovered(jobs2, ext, w)
      BY DEF VoteCovered
    <3> QED
      BY <3>1, <3>2
  <2> QED
    BY <2>1, <2>2
<1> QED
  BY <1>1, <1>2 DEF CoversOn

-----------------------------------------------------------------------------
(* The next states of the module.                                          *)

LEMMA BoundIs ==
  ASSUME PmTypeOK, NEW b \in {"blocks", "syncs", "walks", "starts", "failures"}, PmSpend(b)
  PROVE  pmBound' \in PmBoundType /\ ProposalsKey' = ProposalsKey
<1>1. pmBound \in PmBoundType
  BY DEF PmTypeOK
<1>2. pmBound[b] \in Nat /\ pmBound[b] - 1 \in Nat
  BY <1>1 DEF PmBoundType, PmSpend
<1>3. pmBound' \in PmBoundType /\ pmBound'.kind = pmBound.kind
  BY <1>1, <1>2 DEF PmBoundType, PmSpend
<1> QED
  BY <1>3 DEF ProposalsKey

LEMMA PmNow ==
  ASSUME PmInv
  PROVE  /\ PmHeight \in Nat /\ pmChain \in Seq(PmState) /\ StateOK(Module, PmHeight)
         /\ PmHeight > 0 => Module = pmChain[PmHeight]
BY DEF PmInv, PmTypeOK, PmChainOK, PmHeight, Module, ModuleAt

LEMMA ProposeMoves ==
  ASSUME NEW L, NEW n \in Nat, NEW h, h = n + 1, StateOK(L, n), NEW v \in Voters \cup {NoVoter}, NEW M, NEW i,
         i = Len(L.props) + 1,
         M.props = Append(L.props, [start |-> h, mod |-> h, open |-> TRUE]),
         M.votes = IF v = NoVoter THEN L.votes
                   ELSE {w \in L.votes : ~(w.voter = v /\ w.id = i)} \cup {[voter |-> v, id |-> i, at |-> h]},
         M = [props |-> M.props, votes |-> M.votes]
  PROVE  Moves(L, M, h, i, v)
<1> DEFINE p == [start |-> h, mod |-> h, open |-> TRUE]
           x == [voter |-> v, id |-> i, at |-> h]
<1>1. p \in PmProp /\ p.start = h /\ p.mod = h
  BY DEF PmProp
<1>2. L.props \in Seq(PmProp) /\ L.votes \subseteq PmVote /\ Len(L.props) \in Nat /\ DOMAIN L.props = 1..Len(L.props)
  BY DEF StateOK, PmState
<1>3. i \in Nat /\ i >= 1 /\ i \notin DOMAIN L.props
  BY <1>2
<1>4. M.props = Append(L.props, p)
  OBVIOUS
<1> HIDE DEF p
<1>5. /\ M.props \in Seq(PmProp) /\ DOMAIN M.props = 1..i /\ M.props[i] = p
      /\ \A k \in DOMAIN L.props : k \in DOMAIN M.props /\ M.props[k] = L.props[k]
  <2>1. /\ M.props \in Seq(PmProp) /\ Len(M.props) = i /\ M.props[i] = p
        /\ \A k \in 1..Len(L.props) : M.props[k] = L.props[k]
    BY <1>1, <1>2, <1>4, AppendProperties
  <2> QED
    BY <1>2, <1>3, <2>1
<1>6. \A k \in DOMAIN M.props : k # i => k \in DOMAIN L.props /\ M.props[k] = L.props[k]
  BY <1>2, <1>3, <1>5
<1>7. v # NoVoter => x \in PmVote /\ x.voter = v /\ x.id = i /\ x.at = h
  BY <1>3 DEF PmVote
<1>8. ASSUME NEW w \in L.votes PROVE w \in PmVote /\ w.id \in DOMAIN L.props /\ w.id # i /\ w.at \in Nat /\ w.at <= h
  <2>1. w \in PmVote /\ w.id \in DOMAIN L.props /\ w.at <= n
    BY <1>2 DEF StateOK
  <2>2. w.at \in Nat
    BY <2>1 DEF PmVote
  <2> QED
    BY <1>3, <2>1, <2>2
<1>9. \A w \in M.votes : w \in L.votes \/ (v # NoVoter /\ w = x)
  OBVIOUS
<1>10. \A w \in L.votes : w \in M.votes
  BY <1>8
<1> HIDE DEF x
<1>11. M \in PmState
  <2>1. M.votes \subseteq PmVote
    BY <1>2, <1>7, <1>9
  <2> QED
    BY <1>5, <2>1 DEF PmState
<1>12. \A k \in DOMAIN M.props : 1 <= M.props[k].start /\ M.props[k].start <= M.props[k].mod /\ M.props[k].mod <= h
  <2> SUFFICES ASSUME NEW k \in DOMAIN M.props
               PROVE  1 <= M.props[k].start /\ M.props[k].start <= M.props[k].mod /\ M.props[k].mod <= h
    OBVIOUS
  <2>1. CASE k = i
    BY <1>1, <1>5, <2>1
  <2>2. CASE k # i
    <3>1. k \in DOMAIN L.props /\ M.props[k] = L.props[k]
      BY <1>6, <2>2
    <3>2. L.props[k].mod \in 1..n /\ L.props[k].start \in 1..n
      BY <3>1, StateIs
    <3> QED
      BY <3>1, <3>2 DEF StateOK
  <2> QED
    BY <2>1, <2>2
<1>13. \A w \in M.votes : w.id \in DOMAIN M.props /\ w.at <= h
  BY <1>3, <1>5, <1>7, <1>8, <1>9
<1>14. \A w, y \in M.votes : w.voter = y.voter /\ w.id = y.id => w = y
  <2> SUFFICES ASSUME NEW w \in M.votes, NEW y \in M.votes, w.voter = y.voter, w.id = y.id PROVE w = y
    OBVIOUS
  <2>1. CASE w \in L.votes /\ y \in L.votes
    BY <2>1 DEF StateOK
  <2>2. CASE ~(w \in L.votes /\ y \in L.votes)
    BY <1>7, <1>8, <1>9, <2>2
  <2> QED
    BY <2>1, <2>2
<1>15. StateOK(M, h)
  BY <1>11, <1>12, <1>13, <1>14 DEF StateOK
<1>16. /\ i \in DOMAIN M.props /\ M.props[i].mod = h /\ M.props[i].start = h
       /\ \A w \in M.votes : w \in L.votes \/ (w.voter = v /\ w.id = i)
       /\ \A w \in M.votes : w.voter = v /\ w.id = i => w.at = h
  BY <1>1, <1>3, <1>5, <1>7, <1>8, <1>9
<1> QED
  BY <1>5, <1>6, <1>10, <1>15, <1>16 DEF Moves

\* A proposal there is changes, with a vote on it or without.
LEMMA ChangeMoves ==
  ASSUME NEW L, NEW n \in Nat, NEW h, h = n + 1, StateOK(L, n), NEW v \in Voters \cup {NoVoter}, NEW M,
         NEW i \in DOMAIN L.props, NEW p \in PmProp, p.mod = h, p.start = L.props[i].start,
         M.props = [L.props EXCEPT ![i] = p],
         M.votes = IF v = NoVoter THEN L.votes
                   ELSE {w \in L.votes : ~(w.voter = v /\ w.id = i)} \cup {[voter |-> v, id |-> i, at |-> h]},
         M = [props |-> M.props, votes |-> M.votes]
  PROVE  Moves(L, M, h, i, v)
<1> DEFINE x == [voter |-> v, id |-> i, at |-> h]
<1>1. L.props \in Seq(PmProp) /\ L.votes \subseteq PmVote /\ Len(L.props) \in Nat /\ DOMAIN L.props = 1..Len(L.props)
  BY DEF StateOK, PmState
<1>2. i \in Nat /\ L.props[i].start \in 1..n /\ L.props[i].mod \in 1..n
  BY StateIs
<1>3. M.props \in Seq(PmProp) /\ DOMAIN M.props = DOMAIN L.props /\ M.props[i] = p
  BY <1>1
<1>4. \A k \in DOMAIN M.props : k # i => k \in DOMAIN L.props /\ M.props[k] = L.props[k]
  BY <1>1, <1>3
<1>5. v # NoVoter => x \in PmVote /\ x.voter = v /\ x.id = i /\ x.at = h
  BY <1>2 DEF PmVote
<1>6. \A w \in L.votes : w \in PmVote /\ w.voter \in Voters /\ w.id \in DOMAIN L.props /\ w.at \in Nat /\ w.at <= h
  BY StateIs DEF StateOK
<1>7. \A w \in M.votes : \/ w \in L.votes /\ ~(w.voter = v /\ w.id = i)
                         \/ v # NoVoter /\ w = x
  <2>1. NoVoter \notin Voters
    BY PmAssumption DEF NoVoter
  <2>2. CASE v = NoVoter
    BY <1>6, <2>1, <2>2
  <2>3. CASE v # NoVoter
    BY <2>3
  <2> QED
    BY <2>2, <2>3
<1>8. \A w \in L.votes : w \in M.votes \/ (v # NoVoter /\ x \in M.votes /\ w.voter = v /\ w.id = i)
  OBVIOUS
<1> HIDE DEF x
<1>9. M \in PmState
  <2>1. M.votes \subseteq PmVote
    BY <1>1, <1>5, <1>7
  <2> QED
    BY <1>3, <2>1 DEF PmState
<1>10. \A k \in DOMAIN M.props : 1 <= M.props[k].start /\ M.props[k].start <= M.props[k].mod /\ M.props[k].mod <= h
  <2> SUFFICES ASSUME NEW k \in DOMAIN M.props
               PROVE  1 <= M.props[k].start /\ M.props[k].start <= M.props[k].mod /\ M.props[k].mod <= h
    OBVIOUS
  <2>1. CASE k = i
    BY <1>2, <1>3, <2>1
  <2>2. CASE k # i
    <3>1. k \in DOMAIN L.props /\ M.props[k] = L.props[k]
      BY <1>4, <2>2
    <3>2. L.props[k].mod \in 1..n /\ L.props[k].start \in 1..n
      BY <3>1, StateIs
    <3> QED
      BY <3>1, <3>2 DEF StateOK
  <2> QED
    BY <2>1, <2>2
<1>11. \A w \in M.votes : w.id \in DOMAIN M.props /\ w.at <= h
  BY <1>3, <1>5, <1>6, <1>7
<1>12. \A w, y \in M.votes : w.voter = y.voter /\ w.id = y.id => w = y
  <2> SUFFICES ASSUME NEW w \in M.votes, NEW y \in M.votes, w.voter = y.voter, w.id = y.id PROVE w = y
    OBVIOUS
  <2>1. CASE w.voter = v /\ w.id = i
    BY <1>7, <2>1
  <2>2. CASE ~(w.voter = v /\ w.id = i)
    <3>1. w \in L.votes /\ y \in L.votes
      BY <1>5, <1>7, <2>2
    <3> QED
      BY <3>1 DEF StateOK
  <2> QED
    BY <2>1, <2>2
<1>13. StateOK(M, h)
  BY <1>9, <1>10, <1>11, <1>12 DEF StateOK
<1>14. /\ i \in DOMAIN M.props /\ M.props[i].mod = h
       /\ \A k \in DOMAIN L.props : k \in DOMAIN M.props /\ M.props[k].start = L.props[k].start
       /\ \A w \in M.votes : w \in L.votes \/ (w.voter = v /\ w.id = i)
       /\ \A w \in M.votes : w.voter = v /\ w.id = i => w.at = h
       /\ \A w \in L.votes : \E y \in M.votes : y.voter = w.voter /\ y.id = w.id
  BY <1>3, <1>4, <1>5, <1>7, <1>8
<1> QED
  BY <1>4, <1>13, <1>14 DEF Moves

-----------------------------------------------------------------------------
(* Blocks preserve the invariant.                                          *)

\* A sync is moved by the block of an event that is queued.
LEMMA SyncMoves ==
  ASSUME NEW L, NEW M, NEW h \in Nat, NEW n \in Nat, n + 1 = h, NEW i, NEW v, StateOK(L, n), Moves(L, M, h, i, v),
         NEW jobs, NEW jobs2, jobs \subseteq jobs2, NEW j \in jobs2, j.height = h, j.id = i, j.voter = v,
         NEW ext, NEW s, SyncOK(L, n, jobs, ext, s)
  PROVE  SyncOK(M, h, jobs2, ext, s)
<1>1. ASSUME s.on, s.clean PROVE SyncCovers(M, jobs2, ext, s)
  <2>1. SyncCovers(L, jobs, ext, s)
    BY <1>1 DEF SyncOK
  <2>2. CoversOn(L, M, jobs, jobs2, ext)
    BY CoversMove
  <2>3. ASSUME NEW k \in DOMAIN M.props PROVE PropCovered(M, jobs2, ext, k) \/ PropLeft(M, s, k)
    <3>1. CASE PropCovered(M, jobs2, ext, k)
      BY <3>1
    <3>2. CASE ~PropCovered(M, jobs2, ext, k)
      <4>1. k \in DOMAIN L.props /\ M.props[k] = L.props[k] /\ ~PropCovered(L, jobs, ext, k)
        BY <2>2, <3>2 DEF CoversOn
      <4>2. PropLeft(L, s, k)
        BY <2>1, <4>1 DEF SyncCovers
      <4> QED
        BY <4>1, <4>2 DEF PropLeft
    <3> QED
      BY <3>1, <3>2
  <2>4. ASSUME NEW w \in M.votes PROVE VoteCovered(jobs2, ext, w) \/ VoteLeft(s, w)
    BY <2>1, <2>2 DEF SyncCovers, CoversOn
  <2> QED
    BY <2>3, <2>4 DEF SyncCovers
<1>2. s.todo \subseteq DOMAIN M.props
  BY DEF SyncOK, Moves
<1>3. s.on => s.height \in 1..h
  BY DEF SyncOK
<1> QED
  BY <1>1, <1>2, <1>3 DEF SyncOK

LEMMA BlockKeeps ==
  ASSUME PmInv, NEW i \in Nat, NEW next, NEW v \in Nat, PmBlock(i, next, v), Moves(Module, next, PmHeight + 1, i, v)
  PROVE  PmInv'
<1>1. PICK n \in Nat : n = PmHeight
  BY PmNow
<1>2. PICK h \in Nat \ {0} : h = n + 1
  OBVIOUS
<1>3. PICK L : L = Module
  OBVIOUS
<1>4. StateOK(L, n) /\ Moves(L, next, h, i, v) /\ StateOK(next, h)
  BY <1>1, <1>2, <1>3, PmNow DEF Moves
<1>5. /\ pmChain' \in Seq(PmState) /\ PmHeight' = h /\ Module' = next /\ pmChain'[h] = next
      /\ \A g \in 1..n : pmChain'[g] = pmChain[g]
  <2>1. pmChain \in Seq(PmState) /\ Len(pmChain) = n /\ pmChain' = Append(pmChain, next) /\ next \in PmState
    BY <1>1, <1>4, PmNow DEF PmBlock, PmHeight, StateOK
  <2>2. /\ pmChain' \in Seq(PmState) /\ Len(pmChain') = h /\ pmChain'[h] = next
        /\ \A g \in 1..n : pmChain'[g] = pmChain[g]
    BY <1>2, <2>1, AppendProperties
  <2> QED
    BY <2>2 DEF PmHeight, Module, ModuleAt
<1>6. /\ pmExported' = pmExported /\ pmRows' = pmRows /\ pmKnown' = pmKnown /\ listening' = listening /\ client' = client
      /\ sync' \in {sync, [sync EXCEPT !.clean = FALSE]}
      /\ pmBound' \in PmBoundType /\ ProposalsKey' = ProposalsKey
  BY BoundIs DEF PmBlock, PmInv
<1>7. sync \in SyncType /\ sync'.ever = sync.ever
  BY <1>6 DEF PmInv, PmWritersOK, SyncOK, SyncType
<1>8. PmTypeOK'
  BY <1>1, <1>2, <1>5, <1>6 DEF PmInv, PmTypeOK
<1>9. PmChainOK'
  <2>1. ASSUME NEW g \in 1..h PROVE StateOK(pmChain'[g], g) /\ Becoming(pmChain'[g], next, g)
    <3>1. CASE g = h
      BY <1>4, <1>5, <3>1, BecomesItself
    <3>2. CASE g \in 1..n
      <4>1. StateOK(pmChain[g], g) /\ Becoming(pmChain[g], L, g)
        BY <1>1, <1>3, <3>2 DEF PmInv, PmChainOK
      <4>2. g \in Nat /\ g <= n
        BY <3>2
      <4>3. Becoming(pmChain[g], next, g)
        BY <1>2, <1>4, <4>1, <4>2, MovesBecome
      <4> QED
        BY <1>5, <3>2, <4>1, <4>3
    <3> QED
      BY <1>2, <3>1, <3>2
  <2> QED
    BY <1>4, <1>5, <2>1 DEF PmChainOK
<1>10. PmTablesOK'
  <2>1. ASSUME NEW key, NEW vkey, NEW dated, NEW table, TableOK(L, n, key, vkey, dated, table)
        PROVE  TableOK(next, h, key, vkey, dated, table)
    BY <1>2, <1>4, <2>1, RowMoves DEF TableOK
  <2>2. ASSUME NEW key, NEW vkey, NEW table, Complete(L, key, vkey, table, pmExported)
        PROVE  Complete(next, key, vkey, table, pmExported)
    <3>1. pmExported \in 0..n
      BY <1>1 DEF PmInv, PmTypeOK
    <3> QED
      BY <1>2, <1>4, <2>2, <3>1, CompleteMoves
  <2>3. "tr" \notin gaps' => "tr" \notin gaps
    BY DEF PmBlock
  <2>4. /\ TableOK(next, h, "proposal", "voteCast", ~sync.ever, pmRows.ext)
        /\ TableOK(next, h, "proposal", "voteCast", TRUE, pmRows.tr)
        /\ TableOK(next, h, ProposalsKey, "ballots", TRUE, pmRows.ev)
    BY <1>1, <1>3, <2>1 DEF PmInv, PmTablesOK
  <2>5. /\ Complete(next, ProposalsKey, "ballots", pmRows.ev, pmExported)
        /\ "tr" \notin gaps => Complete(next, "proposal", "voteCast", pmRows.tr, pmExported)
    BY <1>3, <2>2 DEF PmInv, PmTablesOK
  <2> QED
    BY <1>5, <1>6, <1>7, <2>3, <2>4, <2>5 DEF PmTablesOK
<1>11. PmWritersOK'
  <2>1. JobsOK(next, h, ~sync.ever, pmJobs)
    BY <1>1, <1>2, <1>3, <1>4, JobMoves DEF PmInv, PmWritersOK, JobsOK
  <2>2. CASE listening
    <3> DEFINE j == Job(h, i, v, "event")
    <3>1. pmJobs' = pmJobs \cup {j} /\ gaps' = gaps /\ sync' = sync
      BY <1>1, <1>2, <2>2 DEF PmBlock
    <3>2. j.height = h /\ j.id = i /\ j.voter = v
      BY DEF Job
    <3>3. JobOK(next, h, ~sync.ever, j)
      BY <1>4, JobOfBlock
    <3> HIDE DEF j
    <3>4. JobsOK(next, h, ~sync.ever, pmJobs')
      BY <2>1, <3>1, <3>3 DEF JobsOK
    <3>5. pmJobs \subseteq pmJobs' /\ j \in pmJobs'
      BY <3>1
    <3>6. PICK jobs, jobs2 : jobs = pmJobs /\ jobs2 = pmJobs'
      OBVIOUS
    <3>7. PICK ext, s : ext = pmRows.ext /\ s = sync
      OBVIOUS
    <3>8. ASSUME "ext" \notin gaps PROVE AllCovered(next, jobs2, ext)
      <4>1. AllCovered(L, jobs, ext)
        BY <1>3, <3>6, <3>7, <3>8 DEF PmInv, PmWritersOK
      <4>2. CoversOn(L, next, jobs, jobs2, ext)
        BY <1>4, <3>2, <3>5, <3>6, CoversMove
      <4>3. ASSUME NEW k \in DOMAIN next.props PROVE PropCovered(next, jobs2, ext, k)
        BY <4>1, <4>2 DEF AllCovered, CoversOn
      <4>4. ASSUME NEW w \in next.votes PROVE VoteCovered(jobs2, ext, w)
        BY <4>1, <4>2 DEF AllCovered, CoversOn
      <4> QED
        BY <4>3, <4>4 DEF AllCovered
    <3>9. SyncOK(next, h, jobs2, ext, s)
      <4>1. SyncOK(L, n, jobs, ext, s)
        BY <1>1, <1>3, <3>6, <3>7 DEF PmInv, PmWritersOK
      <4> QED
        BY <1>2, <1>4, <3>2, <3>5, <3>6, <4>1, SyncMoves
    <3> QED
      BY <1>5, <1>6, <3>1, <3>4, <3>6, <3>7, <3>8, <3>9 DEF PmWritersOK
  <2>3. CASE ~listening
    <3>1. pmJobs' = pmJobs /\ "ext" \in gaps' /\ sync' = [sync EXCEPT !.clean = FALSE]
      BY <2>3 DEF PmBlock
    <3>2. SyncOK(L, n, pmJobs, pmRows.ext, sync)
      BY <1>1, <1>3 DEF PmInv, PmWritersOK
    <3>3. /\ sync' \in SyncType /\ ~sync'.clean /\ sync'.todo = sync.todo /\ sync'.voters = sync.voters
          /\ sync'.on = sync.on /\ sync'.height = sync.height /\ sync'.ever = sync.ever
      BY <1>7, <3>1 DEF SyncType
    <3>4. sync'.todo \subseteq DOMAIN next.props
      BY <1>4, <3>2, <3>3 DEF SyncOK, Moves
    <3>5. sync'.on => sync'.height \in 1..h
      BY <1>2, <3>2, <3>3 DEF SyncOK
    <3>6. SyncOK(next, h, pmJobs', pmRows'.ext, sync')
      BY <3>2, <3>3, <3>4, <3>5 DEF SyncOK
    <3> QED
      BY <1>5, <1>6, <1>7, <2>1, <3>1, <3>6 DEF PmWritersOK
  <2> QED
    BY <2>2, <2>3
<1>12. PmClientOK'
  BY <1>6 DEF PmInv, PmClientOK
<1> QED
  BY <1>8, <1>9, <1>10, <1>11, <1>12 DEF PmInv

LEMMA ProposeKeeps == ASSUME PmInv, Propose PROVE PmInv'
<1>1. PICK v \in Voters \cup {NoVoter} :
          LET i == Len(Module.props) + 1
          IN  PmBlock(i, [props |-> Append(Module.props, [start |-> PmHeight + 1, mod |-> PmHeight + 1, open |-> TRUE]),
                          votes |-> IF v = NoVoter THEN Module.votes ELSE Casts(v, i)], v)
  BY DEF Propose
<1>2. PICK i : i = Len(Module.props) + 1
  OBVIOUS
<1>3. PICK M : M = [props |-> Append(Module.props, [start |-> PmHeight + 1, mod |-> PmHeight + 1, open |-> TRUE]),
                    votes |-> IF v = NoVoter THEN Module.votes ELSE Casts(v, i)]
  OBVIOUS
<1>4. PmBlock(i, M, v)
  BY <1>1, <1>2, <1>3
<1>5. i \in Nat /\ v \in Nat /\ PmHeight \in Nat /\ StateOK(Module, PmHeight)
  <2>1. PmHeight \in Nat /\ StateOK(Module, PmHeight)
    BY PmNow
  <2>2. Len(Module.props) \in Nat
    BY <2>1, StateIs
  <2> QED
    BY <1>2, <2>1, <2>2, PmAssumption DEF NoVoter
<1>6. PICK L, n, h : L = Module /\ n = PmHeight /\ h = PmHeight + 1
  OBVIOUS
<1>7. /\ M.props = Append(L.props, [start |-> h, mod |-> h, open |-> TRUE])
      /\ M.votes = IF v = NoVoter THEN L.votes
                   ELSE {w \in L.votes : ~(w.voter = v /\ w.id = i)} \cup {[voter |-> v, id |-> i, at |-> h]}
      /\ M = [props |-> M.props, votes |-> M.votes]
  BY <1>3, <1>6 DEF Casts
<1>8. Moves(L, M, h, i, v)
  BY <1>2, <1>5, <1>6, <1>7, ProposeMoves
<1> QED
  BY <1>4, <1>5, <1>6, <1>8, BlockKeeps

LEMMA CastKeeps == ASSUME PmInv, NEW i \in DOMAIN Module.props, NEW v \in Voters, CastBallot(i, v) PROVE PmInv'
<1>1. PICK L, n, h : L = Module /\ n = PmHeight /\ h = PmHeight + 1
  OBVIOUS
<1>2. PICK M : M = [props |-> [L.props EXCEPT ![i].mod = h], votes |-> Casts(v, i)]
  OBVIOUS
<1>3. PmBlock(i, M, v)
  BY <1>1, <1>2 DEF CastBallot
<1>4. n \in Nat /\ StateOK(L, n) /\ v \in Nat /\ v # NoVoter
  BY <1>1, PmNow, PmAssumption DEF NoVoter
<1>5. L.props \in [1..Len(L.props) -> PmProp] /\ i \in Nat /\ i \in DOMAIN L.props /\ L.props[i] \in PmProp
  BY <1>1, <1>4, StateIs
<1>6. PICK p : p = [L.props[i] EXCEPT !.mod = h]
  OBVIOUS
<1>7. p \in PmProp /\ p.mod = h /\ p.start = L.props[i].start
  BY <1>1, <1>4, <1>5, <1>6 DEF PmProp
<1>8. /\ M.props = [L.props EXCEPT ![i] = p]
      /\ M.votes = IF v = NoVoter THEN L.votes
                   ELSE {w \in L.votes : ~(w.voter = v /\ w.id = i)} \cup {[voter |-> v, id |-> i, at |-> h]}
      /\ M = [props |-> M.props, votes |-> M.votes]
  BY <1>1, <1>2, <1>4, <1>6 DEF Casts
<1>9. Moves(L, M, h, i, v)
  BY <1>1, <1>4, <1>5, <1>7, <1>8, ChangeMoves
<1> QED
  BY <1>1, <1>3, <1>4, <1>5, <1>9, BlockKeeps

LEMMA CloseKeeps == ASSUME PmInv, NEW i \in DOMAIN Module.props, CloseProposal(i) PROVE PmInv'
<1>1. PICK L, n, h : L = Module /\ n = PmHeight /\ h = PmHeight + 1
  OBVIOUS
<1>2. n \in Nat /\ StateOK(L, n) /\ L \in PmState /\ NoVoter \in Nat
  BY <1>1, PmNow DEF NoVoter, StateOK
<1>3. L.props \in [1..Len(L.props) -> PmProp] /\ i \in Nat /\ i \in DOMAIN L.props /\ L.props[i] \in PmProp
  BY <1>1, <1>2, StateIs
<1>4. PICK p : p = [L.props[i] EXCEPT !.mod = h, !.open = FALSE]
  OBVIOUS
<1>5. p = [start |-> L.props[i].start, mod |-> h, open |-> FALSE]
  BY <1>3, <1>4 DEF PmProp
<1>6. p \in PmProp /\ p.mod = h /\ p.start = L.props[i].start
  BY <1>1, <1>2, <1>3, <1>5 DEF PmProp
<1>7. PICK M : M = [props |-> [L.props EXCEPT ![i] = [@ EXCEPT !.mod = h, !.open = FALSE]], votes |-> L.votes]
  OBVIOUS
<1>8. PmBlock(i, M, NoVoter)
  BY <1>1, <1>7 DEF CloseProposal
<1>9. /\ M.props = [L.props EXCEPT ![i] = p] /\ M.votes = L.votes
      /\ M = [props |-> M.props, votes |-> M.votes]
  BY <1>3, <1>4, <1>7
<1>10. Moves(L, M, h, i, NoVoter)
  BY <1>1, <1>2, <1>3, <1>6, <1>9, ChangeMoves
<1> QED
  BY <1>1, <1>2, <1>3, <1>8, <1>10, BlockKeeps

-----------------------------------------------------------------------------
(* Rows are put into tables.                                               *)

LEMMA PutHas ==
  ASSUME NEW table, NEW new, NEW name, NEW h, Named(table, name, h) \/ Named(new, name, h)
  PROVE  Named(Put(table, new), name, h)
BY DEF Named, Put

LEMMA PutOK ==
  ASSUME NEW M, NEW n, NEW key, NEW vkey, NEW dated, NEW table, NEW new,
         TableOK(M, n, key, vkey, dated, table), TableOK(M, n, key, vkey, dated, new)
  PROVE  TableOK(M, n, key, vkey, dated, Put(table, new))
BY DEF TableOK, Put

\* Every name of a table is one of another.
Grows(t, t2) == \A r \in t : \E s \in t2 : s.name = r.name

LEMMA PutGrows ==
  ASSUME NEW table, NEW new
  PROVE  Grows(table, Put(table, new)) /\ Grows(table, table)
BY DEF Grows, Put

LEMMA ClientGrows ==
  ASSUME NEW rows, NEW rows2, Grows(rows.ext, rows2.ext), Grows(rows.tr, rows2.tr), Grows(rows.ev, rows2.ev),
         NEW key, NEW c, ClientOK(rows, key, c)
  PROVE  ClientOK(rows2, key, c)
<1>1. ASSUME NEW t, NEW t2, Grows(t, t2)
      PROVE  /\ \A k : PropsIn(t, k) \subseteq PropsIn(t2, k)
             /\ VotersIn(t, 1) \subseteq VotersIn(t2, 1) /\ BallotsIn(t, 1) \subseteq BallotsIn(t2, 1)
  <2>1. ASSUME NEW k, NEW y \in PropsIn(t, k) PROVE y \in PropsIn(t2, k)
    <3>1. PICK r \in t : r.name[1] = k /\ r.name[2] = y
      BY <2>1 DEF PropsIn
    <3>2. PICK s \in t2 : s.name = r.name
      BY <1>1 DEF Grows
    <3> QED
      BY <3>1, <3>2 DEF PropsIn
  <2>2. ASSUME NEW y \in VotersIn(t, 1) PROVE y \in VotersIn(t2, 1)
    <3>1. PICK r \in t : r.name[1] = "voteCast" /\ r.name[3] = 1 /\ r.name[2] = y
      BY <2>2 DEF VotersIn
    <3>2. PICK s \in t2 : s.name = r.name
      BY <1>1 DEF Grows
    <3> QED
      BY <3>1, <3>2 DEF VotersIn
  <2>3. ASSUME NEW y \in BallotsIn(t, 1) PROVE y \in BallotsIn(t2, 1)
    <3>1. PICK r \in t : r.name[1] = "ballots" /\ r.name[2] = 1 /\ r.name[3] = y
      BY <2>3 DEF BallotsIn
    <3>2. PICK s \in t2 : s.name = r.name
      BY <1>1 DEF Grows
    <3> QED
      BY <3>1, <3>2 DEF BallotsIn
  <2> QED
    BY <2>1, <2>2, <2>3
<1>2. Listed(rows, key, c.what, c.table) \subseteq Listed(rows2, key, c.what, c.table)
  BY <1>1 DEF Listed
<1> QED
  BY <1>2 DEF ClientOK

-----------------------------------------------------------------------------
(* The exporter.                                                           *)

LEMMA RowsOfOK ==
  ASSUME NEW L, NEW M, NEW n \in Nat, NEW h \in 1..n, StateOK(L, h), StateOK(M, n), Becoming(L, M, h), NEW key, NEW vkey
  PROVE  TableOK(M, n, key, vkey, TRUE, RowsOf(L, h, key, vkey))
<1> SUFFICES ASSUME NEW r \in RowsOf(L, h, key, vkey) PROVE RowOK(M, n, key, vkey, TRUE, r)
  BY DEF TableOK
<1>1. CASE \E i \in DOMAIN L.props : L.props[i].mod = h /\ r = [name |-> <<key, i>>, height |-> h, data |-> L.props[i]]
  <2>1. PICK i \in DOMAIN L.props : L.props[i].mod = h /\ r = [name |-> <<key, i>>, height |-> h, data |-> L.props[i]]
    BY <1>1
  <2>2. r.name = <<key, i>> /\ r.height = h /\ r.data = L.props[i]
    BY <2>1
  <2>3. i \in DOMAIN M.props /\ L.props[i].start = M.props[i].start /\ (M.props[i].mod <= h => L.props[i] = M.props[i])
    BY DEF Becoming
  <2>4. L.props[i].start <= h
    BY <2>1 DEF StateOK
  <2>5. PropRow(M, key, TRUE, i, r)
    BY <2>2, <2>3, <2>4 DEF PropRow
  <2> QED
    BY <2>2, <2>3, <2>5 DEF RowOK
<1>2. CASE \E w \in L.votes : w.at = h /\ r = [name |-> VoteName(vkey, w.voter, w.id), height |-> h,
                                              data |-> [vote |-> h, votedAt |-> h]]
  <2>1. PICK w \in L.votes : w.at = h /\ r = [name |-> VoteName(vkey, w.voter, w.id), height |-> h,
                                             data |-> [vote |-> h, votedAt |-> h]]
    BY <1>2
  <2>2. r.name = VoteName(vkey, w.voter, w.id) /\ r.height = h /\ r.data.vote = h /\ r.data.votedAt = h
    BY <2>1
  <2>3. PICK x \in M.votes : x.voter = w.voter /\ x.id = w.id /\ h <= x.at
    BY <2>1 DEF Becoming
  <2>4. x.at \in Nat
    BY StateIs
  <2>5. VoteRow(vkey, TRUE, x, r)
    BY <2>2, <2>3, <2>4 DEF VoteRow
  <2> QED
    BY <2>2, <2>5 DEF RowOK
<1> QED
  BY <1>1, <1>2 DEF RowsOf

LEMMA RowsOfComplete ==
  ASSUME NEW L, NEW M, NEW n \in Nat, NEW h \in 1..n, StateOK(L, h), StateOK(M, n), Becoming(L, M, h), NEW key, NEW vkey,
         NEW table, NEW g \in Nat, g + 1 = h, Complete(M, key, vkey, table, g)
  PROVE  Complete(M, key, vkey, Put(table, RowsOf(L, h, key, vkey)), h)
<1> DEFINE new == RowsOf(L, h, key, vkey)
<1>1. ASSUME NEW i \in DOMAIN L.props, L.props[i].mod = h PROVE Named(new, <<key, i>>, h) /\ Named(new, <<key, i>>, 0)
  <2>1. PICK r : r = [name |-> <<key, i>>, height |-> h, data |-> L.props[i]]
    OBVIOUS
  <2>2. r \in new /\ r.name = <<key, i>> /\ r.height = h
    BY <1>1, <2>1 DEF RowsOf
  <2> QED
    BY <2>2 DEF Named
<1>2. ASSUME NEW w \in L.votes, w.at = h PROVE Named(new, VoteName(vkey, w.voter, w.id), h)
  <2>1. PICK r : r = [name |-> VoteName(vkey, w.voter, w.id), height |-> h, data |-> [vote |-> h, votedAt |-> h]]
    OBVIOUS
  <2>2. r \in new /\ r.name = VoteName(vkey, w.voter, w.id) /\ r.height = h
    BY <1>2, <2>1 DEF RowsOf
  <2> QED
    BY <2>2 DEF Named
<1> SUFFICES Complete(M, key, vkey, Put(table, new), h)
  OBVIOUS
<1> HIDE DEF new
<1>3. ASSUME NEW i \in DOMAIN M.props
      PROVE  /\ M.props[i].mod <= h => Named(Put(table, new), <<key, i>>, M.props[i].mod)
             /\ M.props[i].start <= h => Named(Put(table, new), <<key, i>>, 0)
  <2>1. M.props[i].mod \in Nat /\ M.props[i].start \in Nat /\ M.props[i].start <= M.props[i].mod
    BY StateIs DEF StateOK
  <2>2. ASSUME M.props[i].mod = h PROVE Named(new, <<key, i>>, h) /\ Named(new, <<key, i>>, 0)
    <3>1. i \in DOMAIN L.props /\ L.props[i] = M.props[i]
      BY <2>1, <2>2 DEF Becoming
    <3> QED
      BY <1>1, <2>2, <3>1
  <2>3. ASSUME M.props[i].start = h PROVE Named(new, <<key, i>>, 0)
    <3>1. i \in DOMAIN L.props /\ L.props[i].start = h
      BY <2>1, <2>3 DEF Becoming
    <3>2. L.props[i].mod \in Nat /\ L.props[i].start <= L.props[i].mod /\ L.props[i].mod <= h
      <4>1. h \in Nat
        OBVIOUS
      <4>2. L.props[i].mod \in 1..h
        BY <3>1, <4>1, StateIs
      <4> QED
        BY <3>1, <4>2 DEF StateOK
    <3>3. L.props[i].mod = h
      BY <3>1, <3>2
    <3> QED
      BY <1>1, <3>1, <3>3
  <2>4. ASSUME M.props[i].mod <= h PROVE Named(Put(table, new), <<key, i>>, M.props[i].mod)
    <3>1. CASE M.props[i].mod = h
      BY <2>2, <3>1, PutHas
    <3>2. CASE M.props[i].mod <= g
      BY <3>2, PutHas DEF Complete
    <3> QED
      BY <2>1, <2>4, <3>1, <3>2
  <2>5. ASSUME M.props[i].start <= h PROVE Named(Put(table, new), <<key, i>>, 0)
    <3>1. CASE M.props[i].start = h
      BY <2>3, <3>1, PutHas
    <3>2. CASE M.props[i].start <= g
      BY <3>2, PutHas DEF Complete
    <3> QED
      BY <2>1, <2>5, <3>1, <3>2
  <2> QED
    BY <2>4, <2>5
<1>4. ASSUME NEW w \in M.votes, w.at <= h PROVE Named(Put(table, new), VoteName(vkey, w.voter, w.id), w.at)
  <2>1. w.at \in Nat
    BY StateIs
  <2>2. CASE w.at = h
    <3>1. w \in L.votes
      BY <1>4 DEF Becoming
    <3> QED
      BY <1>2, <2>2, <3>1, PutHas
  <2>3. CASE w.at <= g
    BY <2>3, PutHas DEF Complete
  <2> QED
    BY <1>4, <2>1, <2>2, <2>3
<1> QED
  BY <1>3, <1>4 DEF Complete

LEMMA ExportKeeps == ASSUME PmInv, ExportBlock PROVE PmInv'
<1>1. PICK n \in Nat, g \in Nat : n = PmHeight /\ g = pmExported
  BY PmNow DEF PmInv, PmTypeOK
<1>2. PICK h \in 1..n : h = g + 1
  BY <1>1 DEF ExportBlock
<1>3. PICK L, M : L = pmChain[h] /\ M = Module
  OBVIOUS
<1>4. StateOK(L, h) /\ StateOK(M, n) /\ Becoming(L, M, h) /\ L = ModuleAt(h)
  BY <1>1, <1>3 DEF PmInv, PmChainOK, ModuleAt
<1>5. /\ pmExported' = h
      /\ pmRows' = [pmRows EXCEPT !.ev = Put(@, RowsOf(L, h, ProposalsKey, "ballots")),
                                  !.tr = IF pmKnown THEN Put(@, RowsOf(L, h, "proposal", "voteCast")) ELSE @]
      /\ gaps' = gaps \cup (IF pmKnown THEN {} ELSE {"tr"})
  BY <1>1, <1>2, <1>4 DEF ExportBlock
<1>6. PICK rows, new, key : /\ rows = [ext |-> pmRows.ext, tr |-> pmRows.tr, ev |-> pmRows.ev] /\ rows = pmRows
                           /\ key = ProposalsKey /\ new = pmRows'
  BY DEF PmInv, PmTypeOK, PmRowsOK
<1>7. /\ new = [ext |-> new.ext, tr |-> new.tr, ev |-> new.ev] /\ new.ext = rows.ext
      /\ new.ev = Put(rows.ev, RowsOf(L, h, key, "ballots"))
      /\ new.tr = IF pmKnown THEN Put(rows.tr, RowsOf(L, h, "proposal", "voteCast")) ELSE rows.tr
  <2>1. PICK ev, tr : /\ ev = Put(rows.ev, RowsOf(L, h, key, "ballots"))
                      /\ tr = IF pmKnown THEN Put(rows.tr, RowsOf(L, h, "proposal", "voteCast")) ELSE rows.tr
    OBVIOUS
  <2>2. new = [rows EXCEPT !.ev = ev, !.tr = tr]
    BY <1>5, <1>6, <2>1
  <2>3. rows = [ext |-> rows.ext, tr |-> rows.tr, ev |-> rows.ev]
    BY <1>6
  <2>4. new = [ext |-> rows.ext, tr |-> tr, ev |-> ev]
    BY <2>2, <2>3
  <2> QED
    BY <2>1, <2>4
<1>8. /\ TableOK(M, n, "proposal", "voteCast", ~sync.ever, rows.ext)
      /\ TableOK(M, n, "proposal", "voteCast", TRUE, rows.tr)
      /\ TableOK(M, n, key, "ballots", TRUE, rows.ev)
      /\ Complete(M, key, "ballots", rows.ev, g)
      /\ "tr" \notin gaps => Complete(M, "proposal", "voteCast", rows.tr, g)
  BY <1>1, <1>3, <1>6 DEF PmInv, PmTablesOK
<1>9. TableOK(M, n, key, "ballots", TRUE, new.ev) /\ Complete(M, key, "ballots", new.ev, h)
  BY <1>2, <1>4, <1>7, <1>8, RowsOfOK, PutOK, RowsOfComplete
<1>10. TableOK(M, n, "proposal", "voteCast", TRUE, new.tr)
  <2>1. TableOK(M, n, "proposal", "voteCast", TRUE, RowsOf(L, h, "proposal", "voteCast"))
    BY <1>4, RowsOfOK
  <2> QED
    BY <1>7, <1>8, <2>1, PutOK
<1>11. ASSUME "tr" \notin gaps' PROVE Complete(M, "proposal", "voteCast", new.tr, h)
  <2>1. pmKnown /\ "tr" \notin gaps
    BY <1>5, <1>11
  <2> QED
    BY <1>2, <1>4, <1>7, <1>8, <2>1, RowsOfComplete
<1>12. Module' = M /\ PmHeight' = n /\ ProposalsKey' = key
  BY <1>1, <1>3, <1>6 DEF ExportBlock, Module, ModuleAt, PmHeight, ProposalsKey
<1>13. /\ pmBound' = pmBound /\ pmChain' = pmChain /\ pmKnown' = pmKnown /\ listening' = listening
       /\ pmJobs' = pmJobs /\ sync' = sync /\ client' = client
  BY DEF ExportBlock
<1>14. PmTypeOK'
  BY <1>1, <1>2, <1>5, <1>6, <1>7, <1>12, <1>13 DEF PmInv, PmTypeOK, PmRowsOK
<1>15. PmChainOK'
  BY <1>1, <1>3, <1>12, <1>13 DEF PmInv, PmChainOK
<1>16. PmTablesOK'
  BY <1>5, <1>6, <1>7, <1>8, <1>9, <1>10, <1>11, <1>12, <1>13 DEF PmTablesOK
<1>17. PmWritersOK'
  <2>1. pmRows'.ext = pmRows.ext /\ ("ext" \notin gaps' => "ext" \notin gaps)
    BY <1>5, <1>6, <1>7
  <2> QED
    BY <1>1, <1>3, <1>12, <1>13, <2>1 DEF PmInv, PmWritersOK
<1>18. PmClientOK'
  <2>1. Grows(rows.ext, new.ext) /\ Grows(rows.tr, new.tr) /\ Grows(rows.ev, new.ev)
    BY <1>7, PutGrows
  <2>2. ClientOK(rows, key, client)
    BY <1>6 DEF PmInv, PmClientOK
  <2>3. ClientOK(new, key, client)
    BY <2>1, <2>2, ClientGrows
  <2> QED
    BY <1>6, <1>12, <1>13, <2>3 DEF PmClientOK
<1> QED
  BY <1>14, <1>15, <1>16, <1>17, <1>18 DEF PmInv

-----------------------------------------------------------------------------
(* Jobs.                                                                   *)

LEMMA Undated ==
  ASSUME NEW M, NEW n, NEW key, NEW vkey, NEW table, NEW d \in BOOLEAN, NEW d2 \in BOOLEAN, d2 => d,
         TableOK(M, n, key, vkey, d, table)
  PROVE  TableOK(M, n, key, vkey, d2, table)
<1> SUFFICES ASSUME NEW r \in table PROVE RowOK(M, n, key, vkey, d2, r)
  BY DEF TableOK
<1>1. RowOK(M, n, key, vkey, d, r)
  BY DEF TableOK
<1>2. \A i : PropRow(M, key, d, i, r) => PropRow(M, key, d2, i, r)
  BY DEF PropRow
<1>3. \A w : VoteRow(vkey, d, w, r) => VoteRow(vkey, d2, w, r)
  BY DEF VoteRow
<1> QED
  BY <1>1, <1>2, <1>3 DEF RowOK

\* A step of a writer that adds no row and no block.
LEMMA WriterStep ==
  ASSUME PmInv, UNCHANGED <<pmChain, pmExported, pmRows, client>>, pmKnown' \in BOOLEAN, listening' \in BOOLEAN,
         pmBound' \in PmBoundType, ProposalsKey' = ProposalsKey,
         "tr" \in gaps => "tr" \in gaps', sync.ever => sync'.ever, PmWritersOK'
  PROVE  PmInv'
<1>1. Module' = Module /\ PmHeight' = PmHeight
  BY DEF Module, ModuleAt, PmHeight
<1>2. PmTypeOK'
  BY <1>1 DEF PmInv, PmTypeOK, PmRowsOK
<1>3. PmChainOK'
  BY <1>1 DEF PmInv, PmChainOK
<1>4. PmTablesOK'
  <2>1. sync.ever \in BOOLEAN /\ sync'.ever \in BOOLEAN
    BY DEF PmInv, PmWritersOK, SyncOK, SyncType
  <2>2. PICK M, n, ext, d, d2 : M = Module /\ n = PmHeight /\ ext = pmRows.ext /\ d = ~sync.ever /\ d2 = ~sync'.ever
    OBVIOUS
  <2>3. TableOK(M, n, "proposal", "voteCast", d, ext)
    BY <2>2 DEF PmInv, PmTablesOK
  <2>4. d \in BOOLEAN /\ d2 \in BOOLEAN /\ (d2 => d)
    BY <2>1, <2>2
  <2>5. TableOK(M, n, "proposal", "voteCast", d2, ext)
    BY <2>3, <2>4, Undated
  <2> QED
    BY <1>1, <2>2, <2>5 DEF PmInv, PmTablesOK
<1>5. PmClientOK'
  BY DEF PmInv, PmClientOK
<1> QED
  BY <1>2, <1>3, <1>4, <1>5 DEF PmInv

LEMMA WritersSame ==
  ASSUME PmInv, UNCHANGED <<pmChain, pmRows, pmJobs, sync, gaps>>
  PROVE  PmWritersOK' /\ Module' = Module /\ PmHeight' = PmHeight
<1>1. Module' = Module /\ PmHeight' = PmHeight
  BY DEF Module, ModuleAt, PmHeight
<1> QED
  BY <1>1 DEF PmInv, PmWritersOK

LEMMA LearnKeeps == ASSUME PmInv, LearnModuleCode PROVE PmInv'
<1>1. /\ UNCHANGED <<pmChain, pmExported, pmRows, pmJobs, sync, client, gaps, pmBound, listening>> /\ pmKnown' \in BOOLEAN
  BY DEF LearnModuleCode
<1>2. PmWritersOK'
  BY <1>1, WritersSame
<1>3. pmBound' \in PmBoundType /\ ProposalsKey' = ProposalsKey /\ listening' \in BOOLEAN
  BY <1>1 DEF PmInv, PmTypeOK, ProposalsKey
<1> QED
  BY <1>1, <1>2, <1>3, WriterStep

LEMMA ListenKeeps == ASSUME PmInv, StartListening PROVE PmInv'
<1>1. /\ UNCHANGED <<pmChain, pmExported, pmRows, pmJobs, sync, client, gaps, pmKnown>> /\ listening' \in BOOLEAN
  BY DEF StartListening
<1>2. PmWritersOK'
  BY <1>1, WritersSame
<1>3. pmBound' \in PmBoundType /\ ProposalsKey' = ProposalsKey
  BY BoundIs DEF PmInv, StartListening
<1>4. pmKnown' \in BOOLEAN
  BY <1>1 DEF PmInv, PmTypeOK
<1> QED
  BY <1>1, <1>2, <1>3, <1>4, WriterStep

\* Other jobs that ask for the same cover the same.
LEMMA CoversSame ==
  ASSUME NEW M, NEW jobs, NEW jobs2, NEW ext, NEW ext2,
         \A name, h : Named(ext, name, h) => Named(ext2, name, h),
         \A j \in jobs : \/ \E k \in jobs2 : k.id = j.id /\ k.voter = j.voter /\ k.height = j.height
                         \/ /\ \A h : h = M.props[j.id].mod /\ h <= j.height => Named(ext2, <<"proposal", j.id>>, h)
                            /\ \A w \in M.votes : w.voter = j.voter /\ w.id = j.id /\ w.at <= j.height =>
                                                      Named(ext2, <<"voteCast", w.voter, w.id>>, w.at)
  PROVE  /\ \A i : PropCovered(M, jobs, ext, i) => PropCovered(M, jobs2, ext2, i)
         /\ \A w \in M.votes : VoteCovered(jobs, ext, w) => VoteCovered(jobs2, ext2, w)
BY DEF PropCovered, VoteCovered

LEMMA WritersCover ==
  ASSUME NEW M, NEW n, NEW jobs, NEW jobs2, NEW ext, NEW ext2, NEW s,
         \A i : PropCovered(M, jobs, ext, i) => PropCovered(M, jobs2, ext2, i),
         \A w \in M.votes : VoteCovered(jobs, ext, w) => VoteCovered(jobs2, ext2, w)
  PROVE  /\ AllCovered(M, jobs, ext) => AllCovered(M, jobs2, ext2)
         /\ SyncOK(M, n, jobs, ext, s) => SyncOK(M, n, jobs2, ext2, s)
<1>1. SyncCovers(M, jobs, ext, s) => SyncCovers(M, jobs2, ext2, s)
  BY DEF SyncCovers
<1> QED
  BY <1>1 DEF AllCovered, SyncOK

LEMMA QueryKeeps == ASSUME PmInv, NEW j \in pmJobs, QueryProposal(j) PROVE PmInv'
<1>1. PICK M, n, k : /\ M = Module /\ n = PmHeight
                     /\ k = [j EXCEPT !.asked = TRUE, !.prop = {Module.props[j.id]},
                                      !.vote = {w.at : w \in {x \in Module.votes : x.voter = j.voter /\ x.id = j.id}}]
  OBVIOUS
<1>2. /\ pmJobs' = (pmJobs \ {j}) \cup {k}
      /\ UNCHANGED <<pmChain, pmExported, pmRows, pmKnown, listening, sync, client, gaps, pmBound>>
  BY <1>1 DEF QueryProposal
<1>3. n \in Nat /\ StateOK(M, n) /\ JobOK(M, n, ~sync.ever, j)
  BY <1>1, PmNow DEF PmInv, PmWritersOK, JobsOK
<1>4. PICK cast : cast = {w.at : w \in {x \in M.votes : x.voter = j.voter /\ x.id = j.id}}
  OBVIOUS
<1>5. j \in PmJob /\ j.id \in DOMAIN M.props /\ M.props[j.id] \in PmProp /\ cast \in SUBSET Nat
  BY <1>3, <1>4, StateIs DEF JobOK
<1>6. k = [j EXCEPT !.asked = TRUE, !.prop = {M.props[j.id]}, !.vote = cast]
  BY <1>1, <1>4
<1>7. /\ k \in PmJob /\ k.height = j.height /\ k.id = j.id /\ k.voter = j.voter /\ k.asked
      /\ k.prop = {M.props[j.id]} /\ k.vote = cast
  BY <1>5, <1>6 DEF PmJob
<1>8. \A w \in M.votes : w.voter = j.voter /\ w.id = j.id => cast = {w.at}
  BY <1>3, <1>4 DEF StateOK
<1>9. cast # {} => \E w \in M.votes : w.voter = j.voter /\ w.id = j.id
  BY <1>4
<1>10. JobOK(M, n, ~sync.ever, k)
  BY <1>3, <1>5, <1>7, <1>8, <1>9 DEF JobOK
<1>11. PICK jobs, jobs2, ext : jobs = pmJobs /\ jobs2 = pmJobs' /\ ext = pmRows.ext
  OBVIOUS
<1>12. JobsOK(M, n, ~sync.ever, jobs2)
  BY <1>1, <1>2, <1>10, <1>11 DEF PmInv, PmWritersOK, JobsOK
<1>13. \A l \in jobs : \E m \in jobs2 : m.id = l.id /\ m.voter = l.voter /\ m.height = l.height
  BY <1>2, <1>7, <1>11
<1>14. /\ \A i : PropCovered(M, jobs, ext, i) => PropCovered(M, jobs2, ext, i)
       /\ \A w \in M.votes : VoteCovered(jobs, ext, w) => VoteCovered(jobs2, ext, w)
  BY <1>13, CoversSame
<1>15. PICK s : s = sync
  OBVIOUS
<1>16. /\ "ext" \notin gaps => AllCovered(M, jobs2, ext)
       /\ SyncOK(M, n, jobs2, ext, s)
  BY <1>1, <1>11, <1>14, <1>15, WritersCover DEF PmInv, PmWritersOK
<1>17. Module' = M /\ PmHeight' = n /\ ProposalsKey' = ProposalsKey
  BY <1>1, <1>2 DEF Module, ModuleAt, PmHeight, ProposalsKey
<1>18. PmWritersOK'
  BY <1>2, <1>11, <1>12, <1>15, <1>16, <1>17 DEF PmWritersOK
<1>19. pmBound' \in PmBoundType /\ pmKnown' \in BOOLEAN /\ listening' \in BOOLEAN
  BY <1>2 DEF PmInv, PmTypeOK
<1> QED
  BY <1>2, <1>17, <1>18, <1>19, WriterStep

LEMMA IgnoredKeeps == ASSUME PmInv, NEW j \in pmJobs, JobIgnored(j) PROVE PmInv'
<1>1. /\ pmJobs' = pmJobs \ {j} /\ gaps' = gaps \cup {"ext"} /\ sync' = [sync EXCEPT !.clean = FALSE]
      /\ UNCHANGED <<pmChain, pmExported, pmRows, pmKnown, listening, client>>
  BY DEF JobIgnored
<1>2. pmBound' \in PmBoundType /\ ProposalsKey' = ProposalsKey
  <2>1. CASE UNCHANGED pmBound
    BY <2>1 DEF PmInv, PmTypeOK, ProposalsKey
  <2>2. CASE PmSpend("failures")
    BY <2>2, BoundIs DEF PmInv
  <2> QED
    BY <2>1, <2>2 DEF JobIgnored
<1>3. pmKnown' \in BOOLEAN /\ listening' \in BOOLEAN
  BY <1>1 DEF PmInv, PmTypeOK
<1>4. PICK M, n : M = Module /\ n = PmHeight
  OBVIOUS
<1>5. Module' = M /\ PmHeight' = n
  BY <1>1, <1>4 DEF Module, ModuleAt, PmHeight
<1>6. SyncOK(M, n, pmJobs, pmRows.ext, sync) /\ sync \in SyncType
  BY <1>4 DEF PmInv, PmWritersOK, SyncOK
<1>7. /\ sync' \in SyncType /\ ~sync'.clean /\ sync'.todo = sync.todo /\ sync'.voters = sync.voters
      /\ sync'.on = sync.on /\ sync'.height = sync.height /\ sync'.ever = sync.ever
  BY <1>1, <1>6 DEF SyncType
<1>8. SyncOK(M, n, pmJobs', pmRows'.ext, sync')
  BY <1>6, <1>7 DEF SyncOK
<1>9. JobsOK(M, n, ~sync'.ever, pmJobs')
  BY <1>1, <1>4, <1>7 DEF PmInv, PmWritersOK, JobsOK
<1>10. PmWritersOK'
  BY <1>1, <1>5, <1>8, <1>9 DEF PmWritersOK
<1> QED
  BY <1>1, <1>2, <1>3, <1>7, <1>10, WriterStep

\* What a job saves.
LEMMA AnswersOK ==
  ASSUME NEW M, NEW n, NEW dated, NEW j, JobOK(M, n, dated, j), j.asked
  PROVE  TableOK(M, n, "proposal", "voteCast", dated, Answers(j))
<1> SUFFICES ASSUME NEW r \in Answers(j) PROVE RowOK(M, n, "proposal", "voteCast", dated, r)
  BY DEF TableOK
<1>1. CASE \E d \in j.prop : r = [name |-> <<"proposal", j.id>>, height |-> j.height, data |-> d]
  <2>1. PICK d \in j.prop : r = [name |-> <<"proposal", j.id>>, height |-> j.height, data |-> d]
    BY <1>1
  <2>2. r.name = <<"proposal", j.id>> /\ r.height = j.height /\ r.data = d
    BY <2>1
  <2>3. /\ j.id \in DOMAIN M.props /\ d.start = M.props[j.id].start
        /\ M.props[j.id].mod <= j.height => d = M.props[j.id]
        /\ dated => M.props[j.id].start <= j.height
    BY DEF JobOK
  <2>4. PropRow(M, "proposal", dated, j.id, r)
    BY <2>2, <2>3 DEF PropRow
  <2> QED
    BY <2>2, <2>3, <2>4 DEF RowOK, JobOK
<1>2. CASE \E a \in j.vote : r = [name |-> <<"voteCast", j.voter, j.id>>, height |-> j.height,
                                  data |-> [vote |-> a, votedAt |-> j.height]]
  <2>1. PICK a \in j.vote : r = [name |-> <<"voteCast", j.voter, j.id>>, height |-> j.height,
                                 data |-> [vote |-> a, votedAt |-> j.height]]
    BY <1>2
  <2>2. /\ r.name = <<"voteCast", j.voter, j.id>> /\ r.height = j.height /\ r.data.vote = a
        /\ r.data.votedAt = j.height
    BY <2>1
  <2>3. PICK w \in M.votes : w.voter = j.voter /\ w.id = j.id
    BY DEF JobOK
  <2>4. /\ w.at <= j.height => j.vote = {w.at}
        /\ dated => j.height <= w.at
    BY <2>3 DEF JobOK
  <2>5. VoteRow("voteCast", dated, w, r)
    BY <2>2, <2>3, <2>4 DEF VoteRow, VoteName
  <2> QED
    BY <2>2, <2>5 DEF RowOK, JobOK
<1> QED
  BY <1>1, <1>2 DEF Answers

LEMMA SaveKeeps == ASSUME PmInv, NEW j \in pmJobs, SaveProposal(j) PROVE PmInv'
<1>1. PICK M, n, d, jobs, jobs2, rows, rows2, s, key :
          /\ M = Module /\ n = PmHeight /\ d = ~sync.ever /\ jobs = pmJobs /\ jobs2 = pmJobs'
          /\ rows = pmRows /\ rows2 = pmRows' /\ s = sync /\ key = ProposalsKey
  OBVIOUS
<1>2. /\ pmRows' = [pmRows EXCEPT !.ext = Put(@, Answers(j))] /\ pmJobs' = pmJobs \ {j} /\ j.asked
      /\ UNCHANGED <<pmChain, pmExported, pmKnown, listening, sync, client, gaps, pmBound>>
  BY DEF SaveProposal
<1>3. JobOK(M, n, d, j)
  BY <1>1 DEF PmInv, PmWritersOK, JobsOK
<1>4. rows = [ext |-> rows.ext, tr |-> rows.tr, ev |-> rows.ev]
  BY <1>1 DEF PmInv, PmTypeOK, PmRowsOK
<1>5. /\ rows2 = [ext |-> rows2.ext, tr |-> rows2.tr, ev |-> rows2.ev]
      /\ rows2.ext = Put(rows.ext, Answers(j)) /\ rows2.tr = rows.tr /\ rows2.ev = rows.ev
  <2>1. rows2 = [rows EXCEPT !.ext = Put(rows.ext, Answers(j))]
    BY <1>1, <1>2
  <2> QED
    BY <1>4, <2>1
<1>6. TableOK(M, n, "proposal", "voteCast", d, rows2.ext)
  <2>1. TableOK(M, n, "proposal", "voteCast", d, Answers(j))
    BY <1>2, <1>3, AnswersOK
  <2>2. TableOK(M, n, "proposal", "voteCast", d, rows.ext)
    BY <1>1 DEF PmInv, PmTablesOK
  <2> QED
    BY <1>5, <2>1, <2>2, PutOK
<1>7. JobsOK(M, n, d, jobs2)
  BY <1>1, <1>2 DEF PmInv, PmWritersOK, JobsOK
<1>8. \A name, h : Named(rows.ext, name, h) => Named(rows2.ext, name, h)
  BY <1>5, PutHas
<1>9. \A h : h = M.props[j.id].mod /\ h <= j.height => Named(rows2.ext, <<"proposal", j.id>>, h)
  <2>1. PICK p \in j.prop : TRUE
    BY <1>2, <1>3 DEF JobOK
  <2>2. PICK r : r = [name |-> <<"proposal", j.id>>, height |-> j.height, data |-> p]
    OBVIOUS
  <2>3. r \in Answers(j) /\ r.name = <<"proposal", j.id>> /\ r.height = j.height
    BY <2>2 DEF Answers
  <2>4. \A h : h <= j.height => Named(Answers(j), <<"proposal", j.id>>, h)
    BY <2>3 DEF Named
  <2> QED
    BY <1>5, <2>4, PutHas
<1>10. \A w \in M.votes : w.voter = j.voter /\ w.id = j.id /\ w.at <= j.height =>
                              Named(rows2.ext, <<"voteCast", w.voter, w.id>>, w.at)
  <2> SUFFICES ASSUME NEW w \in M.votes, w.voter = j.voter, w.id = j.id, w.at <= j.height
               PROVE  Named(rows2.ext, <<"voteCast", w.voter, w.id>>, w.at)
    OBVIOUS
  <2>1. w.at \in j.vote
    BY <1>2, <1>3 DEF JobOK
  <2>2. PICK r : r = [name |-> <<"voteCast", j.voter, j.id>>, height |-> j.height,
                      data |-> [vote |-> w.at, votedAt |-> j.height]]
    OBVIOUS
  <2>3. r \in Answers(j) /\ r.name = <<"voteCast", w.voter, w.id>> /\ r.height = j.height
    BY <2>1, <2>2 DEF Answers
  <2>4. Named(Answers(j), <<"voteCast", w.voter, w.id>>, w.at)
    BY <2>3 DEF Named
  <2> QED
    BY <1>5, <2>4, PutHas
<1>11. \A l \in jobs : \/ \E k \in jobs2 : k.id = l.id /\ k.voter = l.voter /\ k.height = l.height
                       \/ /\ \A h : h = M.props[l.id].mod /\ h <= l.height => Named(rows2.ext, <<"proposal", l.id>>, h)
                          /\ \A w \in M.votes : w.voter = l.voter /\ w.id = l.id /\ w.at <= l.height =>
                                                    Named(rows2.ext, <<"voteCast", w.voter, w.id>>, w.at)
  <2> SUFFICES ASSUME NEW l \in jobs, l \notin jobs2
               PROVE  /\ \A h : h = M.props[l.id].mod /\ h <= l.height => Named(rows2.ext, <<"proposal", l.id>>, h)
                      /\ \A w \in M.votes : w.voter = l.voter /\ w.id = l.id /\ w.at <= l.height =>
                                                Named(rows2.ext, <<"voteCast", w.voter, w.id>>, w.at)
    OBVIOUS
  <2>1. l = j
    BY <1>1, <1>2
  <2> QED
    BY <1>9, <1>10, <2>1
<1>12. /\ \A i : PropCovered(M, jobs, rows.ext, i) => PropCovered(M, jobs2, rows2.ext, i)
       /\ \A w \in M.votes : VoteCovered(jobs, rows.ext, w) => VoteCovered(jobs2, rows2.ext, w)
  BY <1>8, <1>11, CoversSame
<1>13. /\ "ext" \notin gaps => AllCovered(M, jobs2, rows2.ext)
       /\ SyncOK(M, n, jobs2, rows2.ext, s)
  BY <1>1, <1>12, WritersCover DEF PmInv, PmWritersOK
<1>14. Module' = M /\ PmHeight' = n /\ ProposalsKey' = key
  BY <1>1, <1>2 DEF Module, ModuleAt, PmHeight, ProposalsKey
<1>15. PmWritersOK'
  BY <1>1, <1>2, <1>7, <1>13, <1>14 DEF PmWritersOK
<1>16. PmTypeOK'
  BY <1>1, <1>2, <1>5, <1>14 DEF PmInv, PmTypeOK, PmRowsOK
<1>17. PmChainOK'
  BY <1>1, <1>2, <1>14 DEF PmInv, PmChainOK
<1>18. PmTablesOK'
  <2>1. pmRows'.tr = pmRows.tr /\ pmRows'.ev = pmRows.ev
    BY <1>1, <1>5
  <2> QED
    BY <1>1, <1>2, <1>6, <1>14, <2>1 DEF PmInv, PmTablesOK
<1>19. PmClientOK'
  <2>1. Grows(rows.ext, rows2.ext) /\ Grows(rows.tr, rows2.tr) /\ Grows(rows.ev, rows2.ev)
    BY <1>5, PutGrows
  <2>2. ClientOK(rows, key, client)
    BY <1>1 DEF PmInv, PmClientOK
  <2>3. ClientOK(rows2, key, client)
    BY <2>1, <2>2, ClientGrows
  <2> QED
    BY <1>1, <1>2, <1>14, <2>3 DEF PmClientOK
<1> QED
  BY <1>15, <1>16, <1>17, <1>18, <1>19 DEF PmInv

-----------------------------------------------------------------------------
(* A sync.                                                                 *)

\* A page has what comes after the cursor, up to its last or, if it is short, all.
PageOK(S, after, limit, page) ==
    /\ page \subseteq S /\ IsFiniteSet(page) /\ Cardinality(page) \in Nat
    /\ \A x \in page : after < x
    /\ page # {} => Max(page) \in page /\ \A x \in page : x <= Max(page)
    /\ page = {} => Cardinality(page) < limit
    /\ \A x \in S : after < x => x \in page \/ (page # {} /\ Max(page) < x)
    /\ Cardinality(page) < limit => \A x \in S : after < x => x \in page

LEMMA PageIs ==
  ASSUME NEW S \in SUBSET Nat, IsFiniteSet(S), NEW after \in Nat, NEW limit \in Nat \ {0}
  PROVE  PageOK(S, after, limit, PageAfter(S, after, limit))
<1> DEFINE T == {x \in S : x > after}
           page == PageAfter(S, after, limit)
<1>1. T \in SUBSET Nat /\ IsFiniteSet(T)
  BY FS_Subset
<1>2. \A x \in S : {y \in S : after < y /\ y < x} = {y \in T : y < x}
  OBVIOUS
<1>3. page = {k \in T : Cardinality({i \in T : i < k}) < limit}
  BY <1>2 DEF PageAfter
<1>4. T \subseteq S /\ \A x \in S : x \in T <=> after < x
  OBVIOUS
<1> SUFFICES PageOK(S, after, limit, page)
  OBVIOUS
<1> HIDE DEF T, page
<1>5. page \subseteq T
  BY <1>3
<1>6. IsFiniteSet(page) /\ Cardinality(page) \in Nat
      /\ (\A k \in page, i \in T : i < k => i \in page)
      /\ (Cardinality(page) < limit => page = T)
  <2>1. limit \in Nat \ {0}
    OBVIOUS
  <2> QED
    BY ONLY <1>1, <1>3, <2>1, PagesAre
<1>7. page # {} => Max(page) \in page /\ \A x \in page : x <= Max(page)
  BY <1>1, <1>5, <1>6, MaxOf
<1>8. page = {} => Cardinality(page) < limit
  BY FS_EmptySet
<1>9. ASSUME NEW x \in S, after < x, x \notin page PROVE page # {} /\ Max(page) < x
  <2>1. x \in T
    BY <1>4, <1>9
  <2>2. page # {}
    BY <1>6, <1>8, <1>9, <2>1
  <2>3. Max(page) \in page /\ Max(page) \in Nat /\ x \in Nat
    BY <1>1, <1>5, <1>7, <2>2
  <2>4. ~(x < Max(page)) /\ x # Max(page)
    BY <1>6, <1>9, <2>1, <2>3
  <2> QED
    BY <2>2, <2>3, <2>4
<1> QED
  BY <1>4, <1>5, <1>6, <1>7, <1>8, <1>9 DEF PageOK

\* Jobs that are not dated.
SyncJobOK(M, n, j) == JobOK(M, n, FALSE, j)
SyncJobsOK(M, n, jobs) == \A j \in jobs : SyncJobOK(M, n, j)

\* A job of a sync.
JobAsks(M, n, h, i, v, j) == SyncJobOK(M, n, j) /\ j.height = h /\ j.id = i /\ j.voter = v

LEMMA SyncAsks ==
  ASSUME NEW M, NEW n \in Nat, NEW h \in 1..n, NEW i \in DOMAIN M.props, i \in Nat, NEW v \in Nat
  PROVE  JobAsks(M, n, h, i, v, Job(h, i, v, "sync"))
<1> DEFINE j == Job(h, i, v, "sync")
<1>1. j \in PmJob /\ j.height = h /\ j.id = i /\ j.voter = v /\ ~j.asked
  BY DEF Job, PmJob
<1> SUFFICES JobAsks(M, n, h, i, v, j)
  OBVIOUS
<1> HIDE DEF j
<1> QED
  BY <1>1 DEF SyncJobOK, JobOK, JobAsks

LEMMA MoreJobs ==
  ASSUME NEW M, NEW jobs, NEW jobs2, jobs \subseteq jobs2, NEW ext
  PROVE  /\ \A i : PropCovered(M, jobs, ext, i) => PropCovered(M, jobs2, ext, i)
         /\ \A w : VoteCovered(jobs, ext, w) => VoteCovered(jobs2, ext, w)
         /\ AllCovered(M, jobs, ext) => AllCovered(M, jobs2, ext)
BY DEF PropCovered, VoteCovered, AllCovered

LEMMA VotersAre == \A v \in Voters : v \in Nat /\ 0 < v
BY PmAssumption

VotersOf(M, i) == {w.voter : w \in {x \in M.votes : x.id = i}}

\* What a page of proposals, or of votes, leaves of a sync.
PropsPaged(s, page) ==
    [s EXCEPT !.todo = page, !.last = Cardinality(page) < SyncLimit, !.after = IF page = {} THEN @ ELSE Max(page)]
VotesPaged(s, i, page) ==
    LET short == Cardinality(page) < SyncLimit
    IN  [s EXCEPT !.todo = IF short THEN @ \ {i} ELSE @, !.voters = IF short THEN 0 ELSE Max(page)]

LEMMA SyncPropsOK ==
  ASSUME NEW M, NEW n \in Nat, StateOK(M, n), NEW jobs, NEW jobs2, NEW ext, NEW s, NEW s2, NEW page,
         SyncOK(M, n, jobs, ext, s), s.on, s.todo = {}, ~s.last, SyncJobsOK(M, n, jobs),
         page = PageAfter(DOMAIN M.props, s.after, SyncLimit),
         jobs2 = jobs \cup {Job(s.height, i, NoVoter, "sync") : i \in page},
         s2 = PropsPaged(s, page)
  PROVE  SyncOK(M, n, jobs2, ext, s2) /\ SyncJobsOK(M, n, jobs2) /\ s2.ever = s.ever
<1>1. s \in SyncType /\ s.height \in 1..n /\ s.ever /\ s.after \in Nat /\ s.voters = 0
  BY DEF SyncOK, SyncType
<1>2. DOMAIN M.props \in SUBSET Nat /\ IsFiniteSet(DOMAIN M.props)
  <2>1. PICK len \in Nat : DOMAIN M.props = 1..len
    BY StateIs
  <2>2. 1..len \in SUBSET Nat /\ IsFiniteSet(1..len)
    BY FS_Interval
  <2> QED
    BY <2>1, <2>2
<1>3. PageOK(DOMAIN M.props, s.after, SyncLimit, page)
  BY <1>1, <1>2, PageIs, PmAssumption
<1>4. page \subseteq DOMAIN M.props /\ page \in SUBSET Nat
  BY <1>2, <1>3 DEF PageOK
<1>5. ASSUME NEW i \in page PROVE JobAsks(M, n, s.height, i, NoVoter, Job(s.height, i, NoVoter, "sync"))
  <2>1. i \in DOMAIN M.props /\ i \in Nat /\ NoVoter \in Nat
    BY <1>4 DEF NoVoter
  <2> QED
    BY <1>1, <2>1, SyncAsks
<1>6. SyncJobsOK(M, n, jobs2)
  BY <1>5 DEF SyncJobsOK, JobAsks
<1>7. PICK after : after = IF page = {} THEN s.after ELSE Max(page)
  OBVIOUS
<1>8. after \in Nat
  BY <1>1, <1>3, <1>4, <1>7 DEF PageOK
<1>9. /\ s2 \in SyncType /\ s2.todo = page /\ s2.last = (Cardinality(page) < SyncLimit) /\ s2.after = after
      /\ s2.voters = 0 /\ s2.on /\ s2.height = s.height /\ s2.ever /\ s2.clean = s.clean
  <2>1. PICK last : last = (Cardinality(page) < SyncLimit)
    OBVIOUS
  <2>2. last \in BOOLEAN /\ s2 = [s EXCEPT !.todo = page, !.last = last, !.after = after]
    BY <1>7, <2>1 DEF PropsPaged
  <2>3. /\ s2 \in SyncType /\ s2.todo = page /\ s2.last = last /\ s2.after = after
        /\ s2.voters = 0 /\ s2.on /\ s2.height = s.height /\ s2.ever /\ s2.clean = s.clean
    BY <1>1, <1>4, <1>8, <2>2 DEF SyncType
  <2> QED
    BY <2>1, <2>3
<1>10. ASSUME s.clean PROVE SyncCovers(M, jobs2, ext, s2)
  <2>1. SyncCovers(M, jobs, ext, s)
    BY <1>10 DEF SyncOK
  <2>2. jobs \subseteq jobs2
    OBVIOUS
  <2>3. ASSUME NEW i \in DOMAIN M.props PROVE PropCovered(M, jobs2, ext, i) \/ PropLeft(M, s2, i)
    <3>1. CASE PropCovered(M, jobs, ext, i)
      BY <2>2, <3>1, MoreJobs
    <3>2. CASE PropLeft(M, s, i) /\ i \in page
      <4>1. Job(s.height, i, NoVoter, "sync") \in jobs2
        BY <3>2
      <4> QED
        BY <1>5, <3>2, <4>1 DEF PropCovered, PropLeft, JobAsks
    <3>3. CASE PropLeft(M, s, i) /\ i \notin page
      <4>1. page # {} /\ Max(page) < i /\ ~(Cardinality(page) < SyncLimit)
        BY <1>3, <3>3 DEF PageOK, PropLeft
      <4> QED
        BY <1>7, <1>9, <3>3, <4>1 DEF PropLeft
    <3> QED
      BY <2>1, <3>1, <3>2, <3>3 DEF SyncCovers
  <2>4. ASSUME NEW w \in M.votes PROVE VoteCovered(jobs2, ext, w) \/ VoteLeft(s2, w)
    <3>1. CASE VoteCovered(jobs, ext, w)
      BY <2>2, <3>1, MoreJobs
    <3>2. CASE VoteLeft(s, w)
      <4>1. w.at <= s.height /\ s.after < w.id
        BY <3>2 DEF VoteLeft
      <4>2. w.voter \in Nat /\ 0 < w.voter /\ w.id \in DOMAIN M.props
        <5>1. w.voter \in Voters /\ w.id \in DOMAIN M.props
          BY StateIs DEF StateOK
        <5> QED
          BY <5>1, VotersAre
      <4>3. CASE w.id \in page
        BY <1>9, <4>1, <4>2, <4>3 DEF VoteLeft
      <4>4. CASE w.id \notin page
        <5>1. page # {} /\ Max(page) < w.id /\ ~(Cardinality(page) < SyncLimit)
          BY <1>3, <4>1, <4>2, <4>4 DEF PageOK
        <5> QED
          BY <1>7, <1>9, <4>1, <5>1 DEF VoteLeft
      <4> QED
        BY <4>3, <4>4
    <3> QED
      BY <2>1, <3>1, <3>2 DEF SyncCovers
  <2> QED
    BY <2>3, <2>4 DEF SyncCovers
<1> QED
  BY <1>1, <1>4, <1>6, <1>9, <1>10 DEF SyncOK

LEMMA SyncVotesOK ==
  ASSUME NEW M, NEW n \in Nat, StateOK(M, n), NEW jobs, NEW jobs2, NEW ext, NEW s, NEW s2, NEW page, NEW i,
         SyncOK(M, n, jobs, ext, s), s.on, s.todo # {}, SyncJobsOK(M, n, jobs),
         i = Min(s.todo),
         page = PageAfter(VotersOf(M, i), s.voters, SyncLimit),
         jobs2 = jobs \cup {Job(s.height, i, v, "sync") : v \in page},
         s2 = VotesPaged(s, i, page)
  PROVE  SyncOK(M, n, jobs2, ext, s2) /\ SyncJobsOK(M, n, jobs2) /\ s2.ever = s.ever
<1>1. PICK short : short = (Cardinality(page) < SyncLimit)
  OBVIOUS
<1> DEFINE S == VotersOf(M, i)
<1>2. s \in SyncType /\ s.height \in 1..n /\ s.ever /\ s.voters \in Nat /\ s.todo \in SUBSET Nat /\ s.todo \subseteq DOMAIN M.props
  BY DEF SyncOK, SyncType
<1>3. i \in s.todo /\ i \in Nat /\ \A k \in s.todo : i <= k
  BY <1>2, MinIs
<1>4. S \subseteq Voters /\ S \in SUBSET Nat /\ IsFiniteSet(S) /\ \A w \in M.votes : w.id = i => w.voter \in S
  <2>1. S \subseteq Voters
    BY StateIs DEF VotersOf
  <2>2. \A w \in M.votes : w.id = i => w.voter \in S
    BY DEF VotersOf
  <2> QED
    BY <2>1, <2>2, PmAssumption, FS_Subset
<1> HIDE DEF S
<1>5. PageOK(S, s.voters, SyncLimit, page)
  BY <1>2, <1>4, PageIs, PmAssumption DEF S
<1>6. page \subseteq S /\ page \in SUBSET Nat
  BY <1>4, <1>5 DEF PageOK
<1>7. ASSUME NEW v \in page PROVE JobAsks(M, n, s.height, i, v, Job(s.height, i, v, "sync"))
  BY <1>2, <1>3, <1>6, SyncAsks
<1>8. SyncJobsOK(M, n, jobs2)
  BY <1>7 DEF SyncJobsOK, JobAsks
<1>9. PICK todo, voters : todo = (IF short THEN s.todo \ {i} ELSE s.todo) /\ voters = (IF short THEN 0 ELSE Max(page))
  OBVIOUS
<1>10. todo \subseteq s.todo /\ todo \in SUBSET Nat /\ voters \in Nat /\ short \in BOOLEAN
  <2>1. short \in BOOLEAN
    BY <1>1
  <2>2. ~short => Max(page) \in Nat
    BY <1>1, <1>5, <1>6 DEF PageOK
  <2> QED
    BY <1>2, <1>9, <2>1, <2>2
<1>11. /\ s2 \in SyncType /\ s2.todo = todo /\ s2.voters = voters /\ s2.on /\ s2.height = s.height /\ s2.ever
       /\ s2.clean = s.clean /\ s2.last = s.last /\ s2.after = s.after
  <2>1. s2 = [s EXCEPT !.todo = todo, !.voters = voters]
    BY <1>1, <1>9 DEF VotesPaged
  <2> QED
    BY <1>2, <1>10, <2>1 DEF SyncType
<1>12. todo = {} => voters = 0
  BY <1>3, <1>9
<1>13. ASSUME s.clean PROVE SyncCovers(M, jobs2, ext, s2)
  <2>1. SyncCovers(M, jobs, ext, s)
    BY <1>13 DEF SyncOK
  <2>2. jobs \subseteq jobs2
    OBVIOUS
  <2>3. ASSUME NEW k \in DOMAIN M.props PROVE PropCovered(M, jobs2, ext, k) \/ PropLeft(M, s2, k)
    <3>1. PropLeft(M, s, k) => PropLeft(M, s2, k)
      BY <1>11 DEF PropLeft
    <3> QED
      BY <2>1, <2>2, <3>1, MoreJobs DEF SyncCovers
  <2>4. ASSUME NEW w \in M.votes PROVE VoteCovered(jobs2, ext, w) \/ VoteLeft(s2, w)
    <3>1. CASE VoteCovered(jobs, ext, w)
      BY <2>2, <3>1, MoreJobs
    <3>2. CASE VoteLeft(s, w)
      <4>1. w.voter \in Nat /\ 0 < w.voter /\ w.id \in Nat /\ w.at <= s.height
        <5>1. w.voter \in Voters /\ w.id \in Nat
          BY StateIs
        <5> QED
          BY <3>2, <5>1, VotersAre DEF VoteLeft
      <4>2. CASE ~s.last /\ s.after < w.id
        BY <1>11, <4>1, <4>2 DEF VoteLeft
      <4>3. CASE w.id \in s.todo /\ w.id # i
        <5>1. w.id \in todo /\ i < w.id
          BY <1>3, <1>9, <4>1, <4>3
        <5>2. CASE short
          BY <1>9, <1>11, <4>1, <5>1, <5>2 DEF VoteLeft
        <5>3. CASE ~short
          <6>1. i \in todo
            BY <1>3, <1>9, <5>3
          <6> QED
            BY <1>11, <4>1, <5>1, <6>1 DEF VoteLeft
        <5> QED
          BY <5>2, <5>3
      <4>4. CASE w.id = i /\ s.voters < w.voter
        <5>1. w.voter \in S
          BY <1>4, <4>4
        <5>2. CASE w.voter \in page
          <6>1. PICK j : j = Job(s.height, i, w.voter, "sync")
            OBVIOUS
          <6>2. j \in jobs2 /\ JobAsks(M, n, s.height, i, w.voter, j)
            BY <1>7, <5>2, <6>1
          <6> QED
            BY <4>1, <4>4, <6>2 DEF VoteCovered, JobAsks
        <5>3. CASE w.voter \notin page
          <6>1. ~short /\ Max(page) < w.voter
            BY <1>1, <1>5, <4>4, <5>1, <5>3 DEF PageOK
          <6> QED
            BY <1>3, <1>9, <1>11, <4>1, <4>4, <6>1 DEF VoteLeft
        <5> QED
          BY <5>2, <5>3
      <4>5. \/ ~s.last /\ s.after < w.id
            \/ w.id \in s.todo /\ w.id # i
            \/ w.id = i /\ s.voters < w.voter
        BY <1>2, <1>3, <3>2, <4>1 DEF VoteLeft
      <4> QED
        BY <4>2, <4>3, <4>4, <4>5
    <3> QED
      BY <2>1, <3>1, <3>2 DEF SyncCovers
  <2> QED
    BY <2>3, <2>4 DEF SyncCovers
<1> QED
  BY <1>2, <1>8, <1>10, <1>11, <1>12, <1>13 DEF SyncOK

\* Jobs of a state that has had a sync.
LEMMA JobsSynced ==
  ASSUME NEW M, NEW n, NEW jobs, NEW d \in BOOLEAN
  PROVE  /\ JobsOK(M, n, d, jobs) => SyncJobsOK(M, n, jobs)
         /\ SyncJobsOK(M, n, jobs) /\ ~d => JobsOK(M, n, d, jobs)
BY DEF JobsOK, SyncJobsOK, SyncJobOK, JobOK

LEMMA StartSyncKeeps == ASSUME PmInv, StartSync PROVE PmInv'
<1>1. PICK M, n, jobs, ext, s, s2, clean :
          /\ M = Module /\ n = PmHeight /\ jobs = pmJobs /\ ext = pmRows.ext /\ s = sync /\ s2 = sync'
          /\ clean = (listening /\ pmKnown)
  OBVIOUS
<1>2. /\ sync' = [NotSyncing EXCEPT !.on = TRUE, !.height = n, !.clean = clean, !.ever = TRUE] /\ PmHeight > 0
      /\ UNCHANGED <<pmChain, pmExported, pmRows, pmKnown, listening, pmJobs, client, gaps>>
  BY <1>1 DEF StartSync
<1>3. n \in Nat \ {0} /\ StateOK(M, n) /\ clean \in BOOLEAN
  BY <1>1, <1>2, PmNow DEF PmInv, PmTypeOK
<1>4. /\ s2 \in SyncType /\ s2.on /\ s2.height = n /\ s2.after = 0 /\ s2.todo = {} /\ ~s2.last /\ s2.voters = 0 /\ s2.ever
  BY <1>1, <1>2, <1>3 DEF NotSyncing, SyncType
<1>5. SyncCovers(M, jobs, ext, s2)
  <2>1. ASSUME NEW i \in DOMAIN M.props PROVE PropLeft(M, s2, i)
    <3>1. i \in Nat \ {0} /\ M.props[i].mod \in 1..n
      BY <1>3, StateIs
    <3> QED
      BY <1>4, <3>1 DEF PropLeft
  <2>2. ASSUME NEW w \in M.votes PROVE VoteLeft(s2, w)
    <3>1. w.id \in Nat \ {0} /\ w.at \in 0..n
      BY <1>3, StateIs
    <3> QED
      BY <1>4, <3>1 DEF VoteLeft
  <2> QED
    BY <2>1, <2>2 DEF SyncCovers
<1>6. SyncOK(M, n, jobs, ext, s2)
  <2>1. n \in 1..n /\ s2.todo \subseteq DOMAIN M.props
    BY <1>3, <1>4
  <2> QED
    BY <1>4, <1>5, <2>1 DEF SyncOK
<1>7. SyncJobsOK(M, n, jobs)
  <2>1. PICK d : d = ~sync.ever
    OBVIOUS
  <2>2. JobsOK(M, n, d, jobs) /\ d \in BOOLEAN
    BY <1>1, <2>1 DEF PmInv, PmWritersOK
  <2> QED
    BY <2>2, JobsSynced
<1>8. Module' = M /\ PmHeight' = n
  BY <1>1, <1>2 DEF Module, ModuleAt, PmHeight
<1>9. PmWritersOK'
  <2>1. PICK d : d = ~sync'.ever
    OBVIOUS
  <2>2. JobsOK(M, n, d, jobs)
    BY <1>1, <1>4, <1>7, <2>1, JobsSynced
  <2>3. "ext" \notin gaps => AllCovered(M, jobs, ext)
    BY <1>1 DEF PmInv, PmWritersOK
  <2> QED
    BY <1>1, <1>2, <1>6, <1>8, <2>1, <2>3, <2>2 DEF PmWritersOK
<1>10. pmBound' \in PmBoundType /\ ProposalsKey' = ProposalsKey
  BY BoundIs DEF PmInv, StartSync
<1>11. pmKnown' \in BOOLEAN /\ listening' \in BOOLEAN
  BY <1>2 DEF PmInv, PmTypeOK
<1> QED
  BY <1>1, <1>2, <1>4, <1>9, <1>10, <1>11, WriterStep

\* A page of a sync.
LEMMA SyncStep ==
  ASSUME PmInv, UNCHANGED <<pmChain, pmExported, pmRows, pmKnown, listening, client, gaps, pmBound>>,
         sync.on, pmJobs \subseteq pmJobs', sync'.ever = sync.ever,
         SyncJobsOK(Module, PmHeight, pmJobs'), SyncOK(Module, PmHeight, pmJobs', pmRows.ext, sync')
  PROVE  PmInv'
<1>1. PICK M, n, jobs, jobs2, ext : /\ M = Module /\ n = PmHeight /\ jobs = pmJobs /\ jobs2 = pmJobs' /\ ext = pmRows.ext
  OBVIOUS
<1>2. Module' = M /\ PmHeight' = n /\ ProposalsKey' = ProposalsKey
  BY <1>1 DEF Module, ModuleAt, PmHeight, ProposalsKey
<1>3. PICK d : d = ~sync'.ever
  OBVIOUS
<1>4. JobsOK(M, n, d, jobs2)
  <2>1. sync.ever
    BY DEF PmInv, PmWritersOK, SyncOK
  <2>2. d \in BOOLEAN /\ ~d /\ SyncJobsOK(M, n, jobs2)
    BY <1>1, <1>3, <2>1
  <2> QED
    BY <2>2, JobsSynced
<1>5. "ext" \notin gaps => AllCovered(M, jobs2, ext)
  BY <1>1, MoreJobs DEF PmInv, PmWritersOK
<1>6. PmWritersOK'
  BY <1>1, <1>2, <1>4, <1>5, <1>3 DEF PmWritersOK
<1>7. pmBound' \in PmBoundType /\ pmKnown' \in BOOLEAN /\ listening' \in BOOLEAN
  BY DEF PmInv, PmTypeOK
<1> QED
  BY <1>2, <1>6, <1>7, WriterStep

LEMMA SyncingIs ==
  ASSUME PmInv, sync.on
  PROVE  /\ PmHeight \in Nat /\ StateOK(Module, PmHeight)
         /\ SyncOK(Module, PmHeight, pmJobs, pmRows.ext, sync) /\ SyncJobsOK(Module, PmHeight, pmJobs)
<1>1. PICK M, n, jobs, d : M = Module /\ n = PmHeight /\ jobs = pmJobs /\ d = ~sync.ever
  OBVIOUS
<1>2. JobsOK(M, n, d, jobs) /\ d \in BOOLEAN
  BY <1>1 DEF PmInv, PmWritersOK
<1>3. SyncJobsOK(M, n, jobs)
  BY <1>2, JobsSynced
<1> QED
  BY <1>1, <1>3, PmNow DEF PmInv, PmWritersOK

LEMMA SyncProposalsKeeps == ASSUME PmInv, SyncProposals PROVE PmInv'
<1>1. PICK M, n, jobs, jobs2, ext, s, s2 :
          /\ M = Module /\ n = PmHeight /\ jobs = pmJobs /\ jobs2 = pmJobs' /\ ext = pmRows.ext /\ s = sync /\ s2 = sync'
  OBVIOUS
<1>2. PICK page : page = PageAfter(DOMAIN M.props, s.after, SyncLimit)
  OBVIOUS
<1>3. /\ jobs2 = jobs \cup {Job(s.height, i, NoVoter, "sync") : i \in page}
      /\ s2 = PropsPaged(s, page)
      /\ s.on /\ s.todo = {} /\ ~s.last
      /\ UNCHANGED <<pmChain, pmExported, pmRows, pmKnown, listening, client, gaps, pmBound>>
  BY <1>1, <1>2 DEF SyncProposals, PropsPaged
<1>4. n \in Nat /\ StateOK(M, n) /\ SyncOK(M, n, jobs, ext, s) /\ SyncJobsOK(M, n, jobs)
  BY <1>1, <1>3, SyncingIs
<1>5. SyncOK(M, n, jobs2, ext, s2) /\ SyncJobsOK(M, n, jobs2) /\ s2.ever = s.ever
  BY <1>2, <1>3, <1>4, SyncPropsOK
<1>6. jobs \subseteq jobs2
  BY <1>3
<1> QED
  BY <1>1, <1>3, <1>5, <1>6, SyncStep

LEMMA SyncVotesKeeps == ASSUME PmInv, SyncVotes PROVE PmInv'
<1>1. PICK M, n, jobs, jobs2, ext, s, s2 :
          /\ M = Module /\ n = PmHeight /\ jobs = pmJobs /\ jobs2 = pmJobs' /\ ext = pmRows.ext /\ s = sync /\ s2 = sync'
  OBVIOUS
<1>2. PICK i : i = Min(s.todo)
  OBVIOUS
<1>3. PICK page : page = PageAfter(VotersOf(M, i), s.voters, SyncLimit)
  OBVIOUS
<1>4. /\ jobs2 = jobs \cup {Job(s.height, i, v, "sync") : v \in page}
      /\ s2 = VotesPaged(s, i, page)
      /\ s.on /\ s.todo # {}
      /\ UNCHANGED <<pmChain, pmExported, pmRows, pmKnown, listening, client, gaps, pmBound>>
  BY <1>1, <1>2, <1>3 DEF SyncVotes, VotesPaged, VotersOf
<1>5. n \in Nat /\ StateOK(M, n) /\ SyncOK(M, n, jobs, ext, s) /\ SyncJobsOK(M, n, jobs)
  BY <1>1, <1>4, SyncingIs
<1>6. SyncOK(M, n, jobs2, ext, s2) /\ SyncJobsOK(M, n, jobs2) /\ s2.ever = s.ever
  BY <1>2, <1>3, <1>4, <1>5, SyncVotesOK
<1>7. jobs \subseteq jobs2
  BY <1>4
<1> QED
  BY <1>1, <1>4, <1>6, <1>7, SyncStep

LEMMA SyncEndsKeeps == ASSUME PmInv, SyncEnds PROVE PmInv'
<1>1. PICK M, n, jobs, ext, s, s2 :
          /\ M = Module /\ n = PmHeight /\ jobs = pmJobs /\ ext = pmRows.ext /\ s = sync /\ s2 = sync'
  OBVIOUS
<1>2. /\ s.on /\ s2 = [NotSyncing EXCEPT !.ever = TRUE]
      /\ UNCHANGED <<pmChain, pmExported, pmRows, pmKnown, listening, pmJobs, client>>
  BY <1>1 DEF SyncEnds
<1>3. n \in Nat /\ StateOK(M, n) /\ SyncOK(M, n, jobs, ext, s) /\ SyncJobsOK(M, n, jobs)
  BY <1>1, <1>2, SyncingIs
<1>4. s2 \in SyncType /\ s2.todo = {} /\ s2.voters = 0 /\ ~s2.on /\ s2.ever
  BY <1>2 DEF NotSyncing, SyncType
<1>5. SyncOK(M, n, jobs, ext, s2)
  BY <1>4 DEF SyncOK
<1>6. /\ pmBound' \in PmBoundType /\ ProposalsKey' = ProposalsKey
      /\ "ext" \notin gaps' => "ext" \notin gaps \/ (s.last /\ s.todo = {} /\ s.clean)
      /\ "tr" \in gaps => "tr" \in gaps'
  <2>1. CASE UNCHANGED pmBound /\ sync.last /\ sync.todo = {} /\ gaps' = IF sync.clean THEN gaps \ {"ext"} ELSE gaps
    BY <1>1, <2>1 DEF PmInv, PmTypeOK, ProposalsKey
  <2>2. CASE PmSpend("failures") /\ UNCHANGED gaps
    BY <2>2, BoundIs DEF PmInv
  <2> QED
    BY <2>1, <2>2 DEF SyncEnds
<1>7. ASSUME "ext" \notin gaps' PROVE AllCovered(M, jobs, ext)
  <2>1. CASE "ext" \notin gaps
    BY <1>1, <2>1 DEF PmInv, PmWritersOK
  <2>2. CASE s.last /\ s.todo = {} /\ s.clean
    <3>1. SyncCovers(M, jobs, ext, s)
      BY <1>2, <1>3, <2>2 DEF SyncOK
    <3> QED
      BY <2>2, <3>1 DEF SyncCovers, AllCovered, PropLeft, VoteLeft
  <2> QED
    BY <1>6, <1>7, <2>1, <2>2
<1>8. Module' = M /\ PmHeight' = n
  BY <1>1, <1>2 DEF Module, ModuleAt, PmHeight
<1>9. PmWritersOK'
  <2>1. PICK d : d = ~sync'.ever
    OBVIOUS
  <2>2. JobsOK(M, n, d, jobs)
    BY <1>1, <1>3, <1>4, <2>1, JobsSynced
  <2> QED
    BY <1>1, <1>2, <1>5, <1>7, <1>8, <2>1, <2>2 DEF PmWritersOK
<1>10. pmKnown' \in BOOLEAN /\ listening' \in BOOLEAN
  BY <1>2 DEF PmInv, PmTypeOK
<1> QED
  BY <1>1, <1>2, <1>4, <1>6, <1>9, <1>10, WriterStep

-----------------------------------------------------------------------------
(* A client.                                                               *)

\* What a table's rows are called, and what that says of them.
NamedRow(M, key, vkey, dated, r) ==
    /\ r.name[1] = key => \E i \in DOMAIN M.props : r.name[2] = i /\ r.name = <<key, i>> /\ PropRow(M, key, dated, i, r)
    /\ r.name[1] = vkey => \E w \in M.votes : /\ r.name = VoteName(vkey, w.voter, w.id) /\ VoteRow(vkey, dated, w, r)
                                              /\ vkey = "voteCast" => r.name[2] = w.voter /\ r.name[3] = w.id
                                              /\ vkey = "ballots" => r.name[3] = w.voter /\ r.name[2] = w.id
    /\ r.name[1] \in {key, vkey}

LEMMA RowIs ==
  ASSUME NEW M, NEW n, NEW key \in {"proposal", "proposals", "proposals_v2"}, NEW vkey \in {"ballots", "voteCast"}, NEW dated,
         NEW table, TableOK(M, n, key, vkey, dated, table), NEW r \in table
  PROVE  NamedRow(M, key, vkey, dated, r)
<1>1. CASE \E i \in DOMAIN M.props : PropRow(M, key, dated, i, r)
  <2>1. PICK i \in DOMAIN M.props : PropRow(M, key, dated, i, r)
    BY <1>1
  <2>2. r.name = <<key, i>>
    BY <2>1 DEF PropRow
  <2>3. r.name[1] = key /\ r.name[2] = i /\ key # vkey
    BY <2>2
  <2> QED
    BY <2>1, <2>2, <2>3 DEF NamedRow
<1>2. CASE \E w \in M.votes : VoteRow(vkey, dated, w, r)
  <2>1. PICK w \in M.votes : VoteRow(vkey, dated, w, r)
    BY <1>2
  <2>2. r.name = VoteName(vkey, w.voter, w.id)
    BY <2>1 DEF VoteRow
  <2>3. /\ r.name[1] = vkey /\ key # vkey
        /\ vkey = "voteCast" => r.name[2] = w.voter /\ r.name[3] = w.id
        /\ vkey = "ballots" => r.name[3] = w.voter /\ r.name[2] = w.id
    BY <2>2 DEF VoteName
  <2> QED
    BY <2>1, <2>2, <2>3 DEF NamedRow
<1> QED
  BY <1>1, <1>2 DEF TableOK, RowOK

IdsOf(M, key, vkey, table) ==
    /\ PropsIn(table, key) \subseteq DOMAIN M.props
    /\ \A k : k \notin {key, vkey} => PropsIn(table, k) = {}
    /\ vkey = "voteCast" => \A i : VotersIn(table, i) \subseteq Voters
    /\ vkey = "ballots" => \A i : BallotsIn(table, i) \subseteq Voters

LEMMA IdsAre ==
  ASSUME NEW M, NEW n \in Nat, StateOK(M, n), NEW key \in {"proposal", "proposals", "proposals_v2"}, NEW vkey \in {"ballots", "voteCast"},
         NEW dated, NEW table, TableOK(M, n, key, vkey, dated, table)
  PROVE  IdsOf(M, key, vkey, table)
<1>1. \A r \in table : NamedRow(M, key, vkey, dated, r)
  BY RowIs
<1>2. PropsIn(table, key) \subseteq DOMAIN M.props
  <2> SUFFICES ASSUME NEW x \in PropsIn(table, key) PROVE x \in DOMAIN M.props
    OBVIOUS
  <2>1. PICK r \in table : r.name[1] = key /\ r.name[2] = x
    BY DEF PropsIn
  <2> QED
    BY <1>1, <2>1 DEF NamedRow
<1>3. ASSUME NEW k, k \notin {key, vkey} PROVE PropsIn(table, k) = {}
  BY <1>1, <1>3 DEF NamedRow, PropsIn
<1>4. ASSUME vkey = "voteCast", NEW i, NEW x \in VotersIn(table, i) PROVE x \in Voters
  <2>1. PICK r \in table : r.name[1] = "voteCast" /\ r.name[2] = x
    BY <1>4 DEF VotersIn
  <2>2. PICK w \in M.votes : r.name[2] = w.voter
    BY <1>1, <1>4, <2>1 DEF NamedRow
  <2> QED
    BY <2>1, <2>2, StateIs
<1>5. ASSUME vkey = "ballots", NEW i, NEW x \in BallotsIn(table, i) PROVE x \in Voters
  <2>1. PICK r \in table : r.name[1] = "ballots" /\ r.name[3] = x
    BY <1>5 DEF BallotsIn
  <2>2. PICK w \in M.votes : r.name[3] = w.voter
    BY <1>1, <1>5, <2>1 DEF NamedRow
  <2> QED
    BY <2>1, <2>2, StateIs
<1> QED
  BY <1>2, <1>3, <1>4, <1>5 DEF IdsOf

LEMMA KeyIs ==
  ASSUME PmInv
  PROVE  /\ ProposalsKey \in {"proposal", "proposals", "proposals_v2"}
         /\ pmBound.kind = "v2" => ProposalsKey = "proposals_v2"
         /\ pmBound.kind # "v2" => ProposalsKey = "proposals"
BY DEF ProposalsKey

LEMMA ProposalsDomain ==
  ASSUME PmInv
  PROVE  /\ DOMAIN proposals = IF PropsIn(pmRows.ext, "proposal") # {} THEN PropsIn(pmRows.ext, "proposal")
                               ELSE IF PropsIn(pmRows.tr, "proposal") # {} THEN PropsIn(pmRows.tr, "proposal")
                               ELSE PropsIn(pmRows.ev, ProposalsKey)
         /\ DOMAIN proposals \subseteq DOMAIN Module.props
<1>1. PICK M, n, key, ext, tr, ev, d :
          M = Module /\ n = PmHeight /\ key = ProposalsKey /\ ext = pmRows.ext /\ tr = pmRows.tr /\ ev = pmRows.ev /\ d = ~sync.ever
  OBVIOUS
<1>2. /\ n \in Nat /\ StateOK(M, n) /\ TableOK(M, n, "proposal", "voteCast", d, ext)
      /\ TableOK(M, n, "proposal", "voteCast", TRUE, tr) /\ TableOK(M, n, key, "ballots", TRUE, ev)
  BY <1>1, PmNow DEF PmInv, PmTablesOK
<1>3. /\ PropsIn(ext, "proposal") \subseteq DOMAIN M.props /\ PropsIn(tr, "proposal") \subseteq DOMAIN M.props
      /\ PropsIn(ev, key) \subseteq DOMAIN M.props
      /\ key # "proposals_v2" => PropsIn(ev, "proposals_v2") = {}
      /\ key # "proposals" => PropsIn(ev, "proposals") = {}
  <2>1. key \in {"proposal", "proposals", "proposals_v2"}
    BY <1>1, KeyIs
  <2>2. /\ IdsOf(M, "proposal", "voteCast", ext) /\ IdsOf(M, "proposal", "voteCast", tr)
        /\ IdsOf(M, key, "ballots", ev)
    BY <1>2, <2>1, IdsAre
  <2> QED
    BY <2>1, <2>2 DEF IdsOf
<1>4. \A table, k : DOMAIN MapOf(table, k) = PropsIn(table, k)
  BY DEF MapOf, PropsIn
<1>5. \A f, g : DOMAIN OrElse(f, g) = IF DOMAIN f # {} THEN DOMAIN f ELSE DOMAIN g
  BY DEF OrElse
<1>6. DOMAIN proposals = IF PropsIn(ext, "proposal") # {} THEN PropsIn(ext, "proposal")
                         ELSE IF PropsIn(tr, "proposal") # {} THEN PropsIn(tr, "proposal")
                         ELSE PropsIn(ev, key)
  <2>1. CASE pmBound.kind = "multiple"
    BY <1>1, <1>4, <1>5, <2>1, KeyIs DEF proposals, proposalsMultiple
  <2>2. CASE pmBound.kind # "multiple"
    <3>1. proposals = proposalsSingle
      BY <2>2 DEF proposals
    <3>2. key \in {"proposals", "proposals_v2"}
      BY <1>1, KeyIs
    <3> QED
      BY <1>1, <1>3, <1>4, <1>5, <3>1, <3>2 DEF proposalsSingle
  <2> QED
    BY <2>1, <2>2
<1> QED
  BY <1>1, <1>3, <1>6

LEMMA TableOf ==
  ASSUME NEW what
  PROVE  /\ what # "votes" => Table(what) = IF PropsIn(pmRows.ext, "proposal") # {} THEN "ext"
                                            ELSE IF PropsIn(pmRows.tr, "proposal") # {} THEN "tr" ELSE "ev"
         /\ what = "votes" => Table(what) = IF VotersIn(pmRows.ext, 1) # {} THEN "ext"
                                            ELSE IF VotersIn(pmRows.tr, 1) # {} THEN "tr" ELSE "ev"
<1>1. \A table : (\E r \in table : r.name[1] = "proposal") <=> PropsIn(table, "proposal") # {}
  BY DEF PropsIn
<1>2. \A table : (\E r \in table : r.name[1] = "voteCast" /\ r.name[3] = 1) <=> VotersIn(table, 1) # {}
  BY DEF VotersIn
<1>3. CASE what = "votes"
  BY <1>2, <1>3 DEF Table
<1>4. CASE what # "votes"
  BY <1>1, <1>4 DEF Table
<1> QED
  BY <1>3, <1>4

\* A page after a cursor: nothing of it was passed, and what of a list S is passed by the
\* next cursor was passed before or is in the page.
Turned(what, S, cursor, limit, page, after) ==
    /\ page \in SUBSET (Nat \ {0}) /\ after \in Nat
    /\ \A x \in page : ~PassedBy(what, cursor, x) /\ PassedBy(what, after, x)
    /\ \A x \in Nat \ {0} : PassedBy(what, cursor, x) => PassedBy(what, after, x)
    /\ \A x \in S : PassedBy(what, after, x) => PassedBy(what, cursor, x) \/ x \in page
    /\ Cardinality(page) < limit => \A x \in S : PassedBy(what, cursor, x) \/ x \in page

\* The cursor after a page.
After(what, cursor, page) == IF page = {} THEN cursor ELSE IF what = "reverse" THEN Min(page) ELSE Max(page)

LEMMA TurnUp ==
  ASSUME NEW what, what # "reverse", NEW S \in SUBSET (Nat \ {0}), IsFiniteSet(S), NEW cursor \in Nat, NEW limit \in Nat \ {0},
         NEW page, PageOK(S, cursor, limit, page)
  PROVE  Turned(what, S, cursor, limit, page, After(what, cursor, page))
<1>1. PICK after : after = After(what, cursor, page)
  OBVIOUS
<1>2. page \in SUBSET (Nat \ {0}) /\ \A x \in page : cursor < x
  BY DEF PageOK
<1>3. CASE page = {}
  BY <1>1, <1>3 DEF Turned, After, PassedBy, PageOK
<1>4. CASE page # {}
  <2>1. after = Max(page) /\ after \in page /\ \A x \in page : x <= after
    BY <1>1, <1>4 DEF After, PageOK
  <2>2. after \in Nat /\ cursor < after
    BY <1>2, <2>1
  <2>3. \A x \in S : cursor < x => x \in page \/ after < x
    BY <1>4, <2>1 DEF PageOK
  <2>4. \A x \in Nat : x <= cursor => x <= after
    BY <2>2
  <2>5. \A x \in S : x <= after => x <= cursor \/ x \in page
    BY <2>2, <2>3
  <2>6. Cardinality(page) < limit => \A x \in S : x <= cursor \/ x \in page
    BY DEF PageOK
  <2>7. \A c, x : PassedBy(what, c, x) <=> x <= c
    BY DEF PassedBy
  <2>8. \A x \in page : ~(x <= cursor) /\ x <= after
    BY <1>2, <2>1
  <2> QED
    BY <1>1, <1>2, <2>2, <2>4, <2>5, <2>6, <2>7, <2>8 DEF Turned
<1> QED
  BY <1>3, <1>4

\* A page of another list while nothing of this one is left.
LEMMA TurnOther ==
  ASSUME NEW what, NEW S, NEW S2, NEW cursor, NEW limit, NEW page, NEW after,
         Turned(what, S2, cursor, limit, page, after), \A x \in S : PassedBy(what, cursor, x)
  PROVE  Turned(what, S, cursor, limit, page, after)
BY DEF Turned

LEMMA TurnDown ==
  ASSUME NEW S \in SUBSET (Nat \ {0}), IsFiniteSet(S), NEW cursor \in Nat, NEW limit \in Nat \ {0}, NEW page,
         page = {i \in S : /\ cursor = 0 \/ i < cursor
                           /\ Cardinality({k \in S : k > i /\ (cursor = 0 \/ k < cursor)}) < limit}
  PROVE  Turned("reverse", S, cursor, limit, page, After("reverse", cursor, page))
<1> DEFINE T == {i \in S : cursor = 0 \/ i < cursor}
<1>1. T \in SUBSET Nat /\ IsFiniteSet(T) /\ T \subseteq S
  BY FS_Subset
<1>2. \A i \in S : {k \in S : k > i /\ (cursor = 0 \/ k < cursor)} = {k \in T : k > i}
  OBVIOUS
<1>3. page = {i \in T : Cardinality({k \in T : k > i}) < limit}
  BY <1>2
<1>4. \A x \in S : x \in T <=> ~PassedBy("reverse", cursor, x)
  BY DEF PassedBy
<1> HIDE DEF T
<1>5. /\ \A k \in page, i \in T : i > k => i \in page
      /\ Cardinality(page) < limit => page = T
  <2>1. limit \in Nat \ {0}
    OBVIOUS
  <2> QED
    BY ONLY <1>1, <1>3, <2>1, PagesDown
<1>6. PICK after : after = After("reverse", cursor, page)
  OBVIOUS
<1>7. page \subseteq T /\ page \in SUBSET (Nat \ {0})
  BY <1>1, <1>3
<1>8. Cardinality(page) < limit => \A x \in S : PassedBy("reverse", cursor, x) \/ x \in page
  BY <1>4, <1>5
<1>9. CASE page = {}
  <2>1. after = cursor
    BY <1>6, <1>9 DEF After
  <2> QED
    BY <1>4, <1>6, <1>7, <1>8, <1>9, <2>1 DEF Turned
<1>10. CASE page # {}
  <2>1. after = Min(page) /\ after \in page /\ \A x \in page : after <= x
    BY <1>6, <1>7, <1>10, MinIs DEF After
  <2>2. after \in Nat \ {0} /\ after \in T /\ after \in S
    BY <1>1, <1>7, <2>1
  <2>3. cursor # 0 => after < cursor
    BY <1>4, <2>2 DEF PassedBy
  <2>4. \A x \in page : ~PassedBy("reverse", cursor, x) /\ PassedBy("reverse", after, x)
    BY <1>1, <1>4, <1>7, <2>1, <2>2 DEF PassedBy
  <2>5. \A x \in Nat \ {0} : PassedBy("reverse", cursor, x) => PassedBy("reverse", after, x)
    BY <2>2, <2>3 DEF PassedBy
  <2>6. ASSUME NEW x \in S, PassedBy("reverse", after, x), ~PassedBy("reverse", cursor, x) PROVE x \in page
    <3>1. x \in T /\ after <= x /\ x \in Nat
      BY <1>4, <2>6 DEF PassedBy
    <3>2. x = after \/ x > after
      BY <2>2, <3>1
    <3> QED
      BY <1>5, <2>1, <3>1, <3>2
  <2> QED
    BY <1>6, <1>7, <1>8, <2>2, <2>4, <2>5, <2>6 DEF Turned
<1> QED
  BY <1>9, <1>10

\* A client turns the page.
PageTurned(c, d, table, page, after) ==
    /\ d.what = c.what /\ d.want = c.want /\ d.table = c.table
    /\ d.seen = Append(c.seen, page) /\ d.cursor = after
    /\ d.done <=> Cardinality(page) < ClientLimit
    /\ d.switched <=> c.switched \/ table # c.table

LEMMA ClientTurns ==
  ASSUME NEW rows, NEW key, NEW c, ClientOK(rows, key, c), c.what # "none", ~c.done, NEW table, NEW S, NEW page, NEW after,
         c.table = table => S = Listed(rows, key, c.what, c.table),
         Turned(c.what, S, c.cursor, ClientLimit, page, after), NEW d, d \in ClientType, PageTurned(c, d, table, page, after)
  PROVE  ClientOK(rows, key, d)
<1> USE DEF PageTurned
<1>1. c.seen \in Seq(SUBSET (Nat \ {0})) /\ page \in SUBSET (Nat \ {0}) /\ c.want \in SUBSET (Nat \ {0})
  BY DEF ClientOK, ClientType, Turned
<1>2. PICK n \in Nat : n = Len(c.seen) /\ DOMAIN c.seen = 1..n
  BY <1>1
<1>3. /\ DOMAIN d.seen = 1..(n + 1) /\ d.seen[n + 1] = page
      /\ \A k \in 1..n : d.seen[k] = c.seen[k] /\ c.seen[k] \in SUBSET (Nat \ {0})
  <2>1. d.seen \in Seq(SUBSET (Nat \ {0})) /\ Len(d.seen) = n + 1
    BY <1>1, <1>2, AppendProperties
  <2>2. d.seen[n + 1] = page /\ \A k \in 1..n : d.seen[k] = c.seen[k]
    BY <1>1, <1>2, AppendProperties
  <2> QED
    BY <1>1, <1>2, <2>1, <2>2
<1>4. ASSUME NEW k \in DOMAIN d.seen, NEW x \in d.seen[k] PROVE PassedBy(c.what, after, x)
  <2>1. CASE k = n + 1
    BY <1>3, <2>1 DEF Turned
  <2>2. CASE k \in 1..n
    BY <1>2, <1>3, <2>2 DEF ClientOK, Turned
  <2> QED
    BY <1>2, <1>3, <2>1, <2>2
<1>5. ASSUME NEW k \in 1..n PROVE d.seen[k] \cap page = {}
  BY <1>2, <1>3 DEF ClientOK, Turned
<1>6. ASSUME NEW k \in DOMAIN d.seen, NEW l \in DOMAIN d.seen, k # l PROVE d.seen[k] \cap d.seen[l] = {}
  <2>1. CASE k \in 1..n /\ l \in 1..n
    BY <1>2, <1>3, <1>6, <2>1 DEF ClientOK
  <2>2. CASE k = n + 1 \/ l = n + 1
    BY <1>2, <1>3, <1>5, <1>6, <2>2
  <2> QED
    BY <1>2, <1>3, <2>1, <2>2
<1>7. ASSUME NEW x, x \in Walked(c.seen) \/ x \in page PROVE x \in Walked(d.seen)
  <2>1. CASE x \in page
    <3>1. n + 1 \in DOMAIN d.seen
      BY <1>2, <1>3
    <3> QED
      BY <1>3, <2>1, <3>1 DEF Walked
  <2>2. CASE x \in Walked(c.seen)
    <3>1. PICK k \in 1..n : x \in c.seen[k]
      BY <1>2, <2>2 DEF Walked
    <3>2. k \in DOMAIN d.seen /\ x \in d.seen[k]
      BY <1>2, <1>3, <3>1
    <3> QED
      BY <3>2 DEF Walked
  <2> QED
    BY <1>7, <2>1, <2>2
<1>8. ASSUME ~d.switched
      PROVE  /\ \A x \in d.want : PassedBy(d.what, d.cursor, x) => x \in Walked(d.seen)
             /\ d.done => d.want \subseteq Walked(d.seen)
  <2>1. ~c.switched /\ c.want \subseteq S
    BY <1>8 DEF ClientOK
  <2>2. \A x \in c.want : PassedBy(c.what, c.cursor, x) => x \in Walked(c.seen)
    BY <2>1 DEF ClientOK
  <2>3. ASSUME NEW x \in c.want, PassedBy(c.what, after, x) PROVE x \in Walked(d.seen)
    BY <1>7, <2>1, <2>2, <2>3 DEF Turned
  <2>4. ASSUME Cardinality(page) < ClientLimit, NEW x \in c.want PROVE x \in Walked(d.seen)
    BY <1>7, <2>1, <2>2, <2>4 DEF Turned
  <2> QED
    BY <2>3, <2>4
<1>9. d.what # "none" => d.table # "none" /\ d.want \subseteq Listed(rows, key, d.what, d.table)
  BY DEF ClientOK
<1> QED
  BY <1>4, <1>6, <1>8, <1>9 DEF ClientOK

LEMMA ListsAre ==
  ASSUME PmInv
  PROVE  /\ DOMAIN proposals \in SUBSET (Nat \ {0}) /\ IsFiniteSet(DOMAIN proposals)
         /\ VotersIn(pmRows.ext, 1) \subseteq Voters /\ VotersIn(pmRows.tr, 1) \subseteq Voters
         /\ BallotsIn(pmRows.ev, 1) \subseteq Voters
         /\ Voters \in SUBSET (Nat \ {0}) /\ IsFiniteSet(Voters)
<1>1. PICK M, n, key, ext, tr, ev, d :
          M = Module /\ n = PmHeight /\ key = ProposalsKey /\ ext = pmRows.ext /\ tr = pmRows.tr /\ ev = pmRows.ev /\ d = ~sync.ever
  OBVIOUS
<1>2. /\ n \in Nat /\ StateOK(M, n) /\ TableOK(M, n, "proposal", "voteCast", d, ext)
      /\ TableOK(M, n, "proposal", "voteCast", TRUE, tr) /\ TableOK(M, n, key, "ballots", TRUE, ev)
  BY <1>1, PmNow DEF PmInv, PmTablesOK
<1>3. key \in {"proposal", "proposals", "proposals_v2"}
  BY <1>1, KeyIs
<1>4. /\ IdsOf(M, "proposal", "voteCast", ext) /\ IdsOf(M, "proposal", "voteCast", tr)
      /\ IdsOf(M, key, "ballots", ev)
  BY <1>2, <1>3, IdsAre
<1>5. DOMAIN M.props \in SUBSET (Nat \ {0}) /\ IsFiniteSet(DOMAIN M.props)
  <2>1. PICK len \in Nat : DOMAIN M.props = 1..len
    BY <1>2, StateIs
  <2>2. 1..len \in SUBSET (Nat \ {0}) /\ IsFiniteSet(1..len)
    BY FS_Interval
  <2> QED
    BY <2>1, <2>2
<1>6. DOMAIN proposals \in SUBSET DOMAIN M.props
  BY <1>1, ProposalsDomain
<1>7. DOMAIN proposals \in SUBSET (Nat \ {0}) /\ IsFiniteSet(DOMAIN proposals)
  BY <1>5, <1>6, FS_Subset
<1>8. Voters \in SUBSET (Nat \ {0}) /\ IsFiniteSet(Voters)
  BY PmAssumption
<1> QED
  BY <1>1, <1>4, <1>7, <1>8 DEF IdsOf

\* What the tables answer a client.
LEMMA ListedAre ==
  ASSUME PmInv, NEW what \in {"list", "reverse", "votes"}
  PROVE  LET S == Listed(pmRows, ProposalsKey, what, Table(what))
         IN  /\ S \in SUBSET (Nat \ {0}) /\ IsFiniteSet(S)
             /\ what # "votes" => S = DOMAIN proposals
             /\ what = "votes" => S = First(VotersIn(pmRows.ext, 1), First(VotersIn(pmRows.tr, 1), BallotsIn(pmRows.ev, 1)))
<1> DEFINE S == Listed(pmRows, ProposalsKey, what, Table(what))
<1>1. CASE what = "votes"
  <2>1. S = First(VotersIn(pmRows.ext, 1), First(VotersIn(pmRows.tr, 1), BallotsIn(pmRows.ev, 1)))
    BY <1>1, TableOf DEF Listed, First
  <2>2. S \subseteq Voters
    BY <2>1, ListsAre DEF First
  <2> HIDE DEF S
  <2>3. S \in SUBSET (Nat \ {0}) /\ IsFiniteSet(S)
    BY <2>2, ListsAre, FS_Subset
  <2> QED
    BY <1>1, <2>1, <2>3 DEF S
<1>2. CASE what # "votes"
  <2>1. S = DOMAIN proposals
    BY <1>2, TableOf, ProposalsDomain DEF Listed
  <2> QED
    BY <1>2, <2>1, ListsAre
<1> QED
  BY <1>1, <1>2

\* The first page that is not empty.
LEMMA VotesTurn ==
  ASSUME NEW A \in SUBSET Voters, NEW B \in SUBSET Voters, NEW C \in SUBSET Voters, NEW cursor \in Nat, NEW limit \in Nat \ {0},
         NEW page, page = First(PageAfter(A, cursor, limit), First(PageAfter(B, cursor, limit), PageAfter(C, cursor, limit)))
  PROVE  /\ Turned("votes", First(A, First(B, C)), cursor, limit, page, After("votes", cursor, page))
         /\ cursor = 0 => page \subseteq First(A, First(B, C))
<1>1. ASSUME NEW S \in SUBSET Voters
      PROVE  /\ PageOK(S, cursor, limit, PageAfter(S, cursor, limit)) /\ S \in SUBSET (Nat \ {0}) /\ IsFiniteSet(S)
             /\ PageAfter(S, cursor, limit) = {} => \A x \in S : PassedBy("votes", cursor, x)
  <2>1. S \in SUBSET (Nat \ {0}) /\ S \in SUBSET Nat /\ IsFiniteSet(S)
    BY PmAssumption, FS_Subset
  <2>2. PageOK(S, cursor, limit, PageAfter(S, cursor, limit))
    BY <2>1, PageIs
  <2> QED
    BY <2>1, <2>2 DEF PageOK, PassedBy
<1>2. PICK a, b, c : a = PageAfter(A, cursor, limit) /\ b = PageAfter(B, cursor, limit) /\ c = PageAfter(C, cursor, limit)
  OBVIOUS
<1>3. PICK S \in {A, B, C} : /\ page = PageAfter(S, cursor, limit)
                             /\ page = {} \/ S = A \/ (a = {} /\ S = B) \/ (a = {} /\ b = {} /\ S = C)
                             /\ page = {} => a = {} /\ b = {} /\ c = {}
  BY <1>2 DEF First
<1>4. Turned("votes", S, cursor, limit, page, After("votes", cursor, page))
  BY <1>1, <1>3, TurnUp
<1>5. PICK F : F = First(A, First(B, C))
  OBVIOUS
<1>6. F = S \/ \A x \in F : PassedBy("votes", cursor, x)
  <2>1. /\ a = {} => \A x \in A : PassedBy("votes", cursor, x)
        /\ b = {} => \A x \in B : PassedBy("votes", cursor, x)
        /\ c = {} => \A x \in C : PassedBy("votes", cursor, x)
    BY <1>1, <1>2
  <2>2. A # {} => F = A
    BY <1>5 DEF First
  <2>3. A = {} /\ B # {} => F = B
    BY <1>5 DEF First
  <2>4. A = {} /\ B = {} => F = C
    BY <1>5 DEF First
  <2>5. CASE page = {}
    <3>1. \A x \in A : PassedBy("votes", cursor, x)
      BY <1>3, <2>1, <2>5
    <3>2. \A x \in B : PassedBy("votes", cursor, x)
      BY <1>3, <2>1, <2>5
    <3>3. \A x \in C : PassedBy("votes", cursor, x)
      BY <1>3, <2>1, <2>5
    <3>4. F = A \/ F = B \/ F = C
      BY <2>2, <2>3, <2>4
    <3> QED
      BY <3>1, <3>2, <3>3, <3>4
  <2>6. CASE page # {}
    <3>1. S = A \/ (a = {} /\ S = B) \/ (a = {} /\ b = {} /\ S = C)
      BY <1>3, <2>6
    <3>2. page \subseteq S
      BY <1>1, <1>3 DEF PageOK
    <3>3. A # {} /\ a = {} => F = A /\ \A x \in F : PassedBy("votes", cursor, x)
      BY <2>1, <2>2
    <3>4. A = {} /\ B # {} => F = B
      BY <2>3
    <3>5. A = {} /\ B # {} /\ b = {} => \A x \in F : PassedBy("votes", cursor, x)
      BY <2>1, <2>3
    <3>6. A = {} /\ B = {} => F = C
      BY <2>4
    <3>7. CASE S = A
      BY <2>2, <2>6, <3>2, <3>7
    <3>8. CASE a = {} /\ S = B
      BY <2>6, <3>2, <3>3, <3>4, <3>8
    <3>9. CASE a = {} /\ b = {} /\ S = C
      BY <3>3, <3>5, <3>6, <3>9
    <3> QED
      BY <3>1, <3>7, <3>8, <3>9
  <2> QED
    BY <2>5, <2>6
<1>7. Turned("votes", F, cursor, limit, page, After("votes", cursor, page))
  BY <1>4, <1>6, TurnOther
<1>8. ASSUME cursor = 0 PROVE page \subseteq F
  <2>1. page \subseteq S /\ S \in SUBSET (Nat \ {0}) /\ F \in SUBSET (Nat \ {0})
    BY <1>1, <1>3, <1>5 DEF PageOK, First
  <2>2. CASE F = S
    BY <2>1, <2>2
  <2>3. CASE F # S
    <3>1. F = {}
      BY <1>6, <1>8, <2>1, <2>3 DEF PassedBy
    <3>2. A = {} /\ B = {} /\ C = {}
      BY <1>5, <3>1 DEF First
    <3> QED
      BY <1>3, <2>1, <3>2
  <2> QED
    BY <2>2, <2>3
<1> QED
  BY <1>5, <1>7, <1>8

LEMMA StartWalkKeeps == ASSUME PmInv, NEW what \in {"list", "reverse", "votes"}, StartWalk(what) PROVE PmInv'
<1>1. /\ client' = [NoClient EXCEPT !.what = what, !.want = AllOf(what), !.table = Table(what)] /\ AllOf(what) # {}
      /\ UNCHANGED <<pmChain, pmExported, pmRows, pmKnown, listening, pmJobs, sync, gaps>>
  BY DEF StartWalk
<1>2. PICK S : S = Listed(pmRows, ProposalsKey, what, Table(what))
  OBVIOUS
<1>3. AllOf(what) \subseteq S
  <2>1. CASE what = "votes"
    <3>1. PICK A, B, C : A = VotersIn(pmRows.ext, 1) /\ B = VotersIn(pmRows.tr, 1) /\ C = BallotsIn(pmRows.ev, 1)
      OBVIOUS
    <3>2. A \in SUBSET Voters /\ B \in SUBSET Voters /\ C \in SUBSET Voters /\ S = First(A, First(B, C))
      BY <1>2, <2>1, <3>1, ListsAre, ListedAre
    <3>3. PICK m : m = Cardinality(Voters)
      OBVIOUS
    <3>4. AllOf(what) = First(PageAfter(A, 0, m), First(PageAfter(B, 0, m), PageAfter(C, 0, m)))
      BY <2>1, <3>1, <3>3 DEF AllOf, listVotes
    <3>5. Voters # {}
      <4> SUFFICES ASSUME Voters = {} PROVE FALSE
        OBVIOUS
      <4>1. A = {} /\ B = {} /\ C = {}
        BY <3>2
      <4>2. PageAfter(A, 0, m) = {} /\ PageAfter(B, 0, m) = {} /\ PageAfter(C, 0, m) = {}
        BY <4>1 DEF PageAfter
      <4> QED
        BY <1>1, <3>4, <4>2 DEF First
    <3>6. m \in Nat \ {0}
      BY <3>3, <3>5, PmAssumption, FS_CardinalityType, FS_EmptySet
    <3> QED
      BY <3>2, <3>4, <3>6, VotesTurn
  <2>2. CASE what # "votes"
    BY <1>2, <2>2, ListedAre DEF AllOf
  <2> QED
    BY <2>1, <2>2
<1>4. PICK c, key, rows, want, table : /\ c = client' /\ key = ProposalsKey /\ rows = pmRows
                                       /\ want = AllOf(what) /\ table = Table(what)
  OBVIOUS
<1>5. want \subseteq Listed(rows, key, what, table) /\ want \in SUBSET (Nat \ {0}) /\ table \in {"ext", "tr", "ev"}
  BY <1>2, <1>3, <1>4, ListedAre, TableOf
<1>6. /\ c \in ClientType /\ c.what = what /\ c.want = want /\ c.table = table /\ c.seen = <<>> /\ c.cursor = 0
      /\ ~c.done
  <2>1. c = [NoClient EXCEPT !.what = what, !.want = want, !.table = table]
    BY <1>1, <1>4
  <2>2. PICK seen, T : seen = <<>> /\ T = SUBSET (Nat \ {0})
    OBVIOUS
  <2>3. seen \in Seq(T)
    BY <2>2
  <2>4. c = [what |-> what, cursor |-> 0, seen |-> seen, want |-> want, table |-> table, switched |-> FALSE, done |-> FALSE]
    BY <2>1, <2>2 DEF NoClient
  <2> QED
    BY <1>5, <2>2, <2>3, <2>4 DEF ClientType
<1>7. \A x \in want : ~PassedBy(what, 0, x)
  BY <1>5 DEF PassedBy
<1>8. ClientOK(rows, key, c)
  <2>1. DOMAIN c.seen = {}
    BY <1>6
  <2>2. c.want \subseteq Listed(rows, key, c.what, c.table) /\ c.table # "none"
    BY <1>5, <1>6
  <2>3. \A x \in c.want : ~PassedBy(c.what, c.cursor, x)
    BY <1>6, <1>7
  <2> QED
    BY <1>6, <2>1, <2>2, <2>3 DEF ClientOK
<1>9. pmBound' \in PmBoundType /\ ProposalsKey' = ProposalsKey
  BY BoundIs DEF PmInv, StartWalk
<1>10. Module' = Module /\ PmHeight' = PmHeight
  BY <1>1 DEF Module, ModuleAt, PmHeight
<1>11. PmTypeOK' /\ PmChainOK' /\ PmTablesOK'
  BY <1>1, <1>9, <1>10 DEF PmInv, PmTypeOK, PmChainOK, PmTablesOK, PmRowsOK
<1>12. PmWritersOK'
  BY <1>1, WritersSame
<1>13. PmClientOK'
  BY <1>1, <1>4, <1>8, <1>9 DEF PmClientOK
<1> QED
  BY <1>11, <1>12, <1>13 DEF PmInv

LEMMA WalkKeeps == ASSUME PmInv, WalkPage PROVE PmInv'
<1>1. PICK c, key, rows, d, S, table :
          /\ c = client /\ key = ProposalsKey /\ rows = pmRows /\ d = client' /\ table = Table(client.what)
          /\ S = Listed(pmRows, ProposalsKey, client.what, Table(client.what))
  OBVIOUS
<1>2. PICK page : page = PageOf(c.what, c.cursor)
  OBVIOUS
<1>3. PICK after : after = After(c.what, c.cursor, page)
  OBVIOUS
<1>4. /\ c.what # "none" /\ ~c.done
      /\ d = [c EXCEPT !.seen = Append(@, page), !.done = Cardinality(page) < ClientLimit,
                       !.switched = @ \/ table # c.table, !.cursor = after]
      /\ UNCHANGED <<pmChain, pmExported, pmRows, pmKnown, listening, pmJobs, sync, gaps, pmBound>>
  BY <1>1, <1>2, <1>3 DEF WalkPage, After
<1>5. ClientOK(rows, key, c) /\ c \in ClientType /\ c.what \in {"list", "reverse", "votes"} /\ c.cursor \in Nat
  <2>1. ClientOK(rows, key, c)
    BY <1>1 DEF PmInv, PmClientOK
  <2> QED
    BY <1>4, <2>1 DEF ClientOK, ClientType
<1>6. Turned(c.what, S, c.cursor, ClientLimit, page, after)
  <2>1. CASE c.what = "votes"
    <3>1. PICK A, B, C : A = VotersIn(pmRows.ext, 1) /\ B = VotersIn(pmRows.tr, 1) /\ C = BallotsIn(pmRows.ev, 1)
      OBVIOUS
    <3>2. A \in SUBSET Voters /\ B \in SUBSET Voters /\ C \in SUBSET Voters /\ S = First(A, First(B, C))
      BY <1>1, <1>5, <2>1, <3>1, ListsAre, ListedAre
    <3>3. page = First(PageAfter(A, c.cursor, ClientLimit),
                 First(PageAfter(B, c.cursor, ClientLimit), PageAfter(C, c.cursor, ClientLimit)))
      BY <1>2, <2>1, <3>1 DEF PageOf, listVotes
    <3>4. ClientLimit \in Nat \ {0}
      BY PmAssumption
    <3>5. PICK cursor \in Nat : cursor = c.cursor
      BY <1>5
    <3>6. Turned("votes", First(A, First(B, C)), cursor, ClientLimit, page, After("votes", cursor, page))
      BY <3>2, <3>3, <3>4, <3>5, VotesTurn
    <3> QED
      BY <1>3, <2>1, <3>2, <3>5, <3>6
  <2>2. CASE c.what # "votes"
    <3>1. S = DOMAIN proposals /\ S \in SUBSET (Nat \ {0}) /\ IsFiniteSet(S) /\ ClientLimit \in Nat \ {0}
      BY <1>1, <1>5, <2>2, ListedAre, PmAssumption
    <3>2. CASE c.what = "list"
      <4>1. page = PageAfter(S, c.cursor, ClientLimit)
        BY <1>2, <3>1, <3>2 DEF PageOf, listProposals
      <4>2. PageOK(S, c.cursor, ClientLimit, page)
        BY <1>5, <3>1, <4>1, PageIs
      <4> QED
        BY <1>3, <1>5, <3>1, <3>2, <4>2, TurnUp
    <3>3. CASE c.what = "reverse"
      <4>1. page = {i \in S : /\ c.cursor = 0 \/ i < c.cursor
                              /\ Cardinality({k \in S : k > i /\ (c.cursor = 0 \/ k < c.cursor)}) < ClientLimit}
        BY <1>2, <3>1, <3>3 DEF PageOf, reverseProposals
      <4> QED
        BY <1>3, <1>5, <3>1, <3>3, <4>1, TurnDown
    <3> QED
      BY <1>5, <2>2, <3>2, <3>3
  <2> QED
    BY <2>1, <2>2
<1>7. /\ d \in ClientType /\ d.what = c.what /\ PageTurned(c, d, table, page, after)
  <2>1. PICK seen, done, switched : /\ seen = Append(c.seen, page) /\ done = (Cardinality(page) < ClientLimit)
                                    /\ switched = (c.switched \/ table # c.table)
    OBVIOUS
  <2>2. c.seen \in Seq(SUBSET (Nat \ {0})) /\ page \in SUBSET (Nat \ {0}) /\ after \in Nat
    BY <1>5, <1>6 DEF ClientType, Turned
  <2>3. seen \in Seq(SUBSET (Nat \ {0})) /\ done \in BOOLEAN /\ switched \in BOOLEAN
    BY <2>1, <2>2, AppendProperties
  <2>4. d = [c EXCEPT !.seen = seen, !.done = done, !.switched = switched, !.cursor = after]
    BY <1>4, <2>1
  <2>5. /\ d \in ClientType /\ d.what = c.what /\ d.seen = seen /\ d.done = done
        /\ d.want = c.want /\ d.switched = switched /\ d.cursor = after /\ d.table = c.table
    BY <1>5, <2>2, <2>3, <2>4 DEF ClientType
  <2> QED
    BY <2>1, <2>5 DEF PageTurned
<1>8. c.table = table => S = Listed(rows, key, c.what, c.table)
  BY <1>1
<1>9. ClientOK(rows, key, d)
  BY <1>4, <1>5, <1>6, <1>7, <1>8, ClientTurns
<1>10. Module' = Module /\ PmHeight' = PmHeight /\ ProposalsKey' = ProposalsKey
  BY <1>4 DEF Module, ModuleAt, PmHeight, ProposalsKey
<1>11. PmTypeOK' /\ PmChainOK' /\ PmTablesOK'
  BY <1>4, <1>10 DEF PmInv, PmTypeOK, PmChainOK, PmTablesOK, PmRowsOK
<1>12. PmWritersOK'
  BY <1>4, WritersSame
<1>13. PmClientOK'
  BY <1>1, <1>4, <1>9, <1>10 DEF PmClientOK
<1> QED
  BY <1>11, <1>12, <1>13 DEF PmInv

LEMMA PmFirst == ProposalModuleInit => PmInv
<1> SUFFICES ASSUME ProposalModuleInit PROVE PmInv
  OBVIOUS
<1>1. PmHeight = 0 /\ Module = [props |-> <<>>, votes |-> {}]
  BY DEF ProposalModuleInit, PmHeight, Module, ModuleAt
<1>2. StateOK(Module, PmHeight)
  BY <1>1 DEF StateOK, PmState
<1>3. pmBound \in PmBoundType
  BY PmAssumption DEF ProposalModuleInit, PmBoundType
<1>4. PmTypeOK
  BY <1>1, <1>3 DEF ProposalModuleInit, PmTypeOK, PmBoundType, PmRowsOK
<1>5. PmChainOK
  BY <1>1, <1>2 DEF PmChainOK
<1>6. PmTablesOK
  BY <1>1 DEF ProposalModuleInit, PmTablesOK, TableOK, Complete
<1>7. PmWritersOK
  BY <1>1 DEF ProposalModuleInit, PmWritersOK, JobsOK, AllCovered, SyncOK, NotSyncing, SyncType
<1>8. PmClientOK
  BY DEF ProposalModuleInit, PmClientOK, ClientOK, NoClient, ClientType
<1> QED
  BY <1>4, <1>5, <1>6, <1>7, <1>8 DEF PmInv

LEMMA PmStep == PmInv /\ [ProposalModuleNext]_pmVars => PmInv'
<1> SUFFICES ASSUME PmInv, [ProposalModuleNext]_pmVars PROVE PmInv'
  OBVIOUS
<1>1. CASE UNCHANGED pmVars
  <2>1. Module' = Module /\ PmHeight' = PmHeight /\ ProposalsKey' = ProposalsKey
    BY <1>1 DEF Module, ModuleAt, PmHeight, ProposalsKey, pmVars
  <2>2. PmTypeOK' /\ PmChainOK' /\ PmTablesOK' /\ PmClientOK'
    BY <1>1, <2>1 DEF PmInv, PmTypeOK, PmChainOK, PmTablesOK, PmClientOK, PmRowsOK, pmVars
  <2>3. PmWritersOK'
    BY <1>1, WritersSame DEF pmVars
  <2> QED
    BY <2>2, <2>3 DEF PmInv
<1>2. CASE Propose
  BY <1>2, ProposeKeeps
<1>3. CASE \E i \in DOMAIN Module.props : CloseProposal(i)
  BY <1>3, CloseKeeps
<1>4. CASE \E i \in DOMAIN Module.props : \E v \in Voters : CastBallot(i, v)
  BY <1>4, CastKeeps
<1>5. CASE ExportBlock
  BY <1>5, ExportKeeps
<1>6. CASE LearnModuleCode
  BY <1>6, LearnKeeps
<1>7. CASE StartListening
  BY <1>7, ListenKeeps
<1>8. CASE \E j \in pmJobs : QueryProposal(j) \/ SaveProposal(j) \/ JobIgnored(j)
  BY <1>8, QueryKeeps, SaveKeeps, IgnoredKeeps
<1>9. CASE StartSync \/ SyncProposals \/ SyncVotes \/ SyncEnds
  BY <1>9, StartSyncKeeps, SyncProposalsKeeps, SyncVotesKeeps, SyncEndsKeeps
<1>10. CASE \E what \in {"list", "reverse", "votes"} : StartWalk(what)
  BY <1>10, StartWalkKeeps
<1>11. CASE WalkPage
  BY <1>11, WalkKeeps
<1> QED
  BY <1>1, <1>2, <1>3, <1>4, <1>5, <1>6, <1>7, <1>8, <1>9, <1>10, <1>11 DEF ProposalModuleNext

LEMMA PmInvHolds == ProposalModuleSpec => []PmInv
BY PmFirst, PmStep, PTL DEF ProposalModuleSpec


-----------------------------------------------------------------------------
(* What the tables answer.                                                 *)

TableVoters(vkey, table, i) == IF vkey = "voteCast" THEN VotersIn(table, i) ELSE BallotsIn(table, i)
NotVoted(M, v, i) == \A w \in M.votes : ~(w.voter = v /\ w.id = i)

\* A table names nothing that there is not.
TableSays(M, key, vkey, table) ==
    /\ \A i \in DOMAIN M.props : \A d \in Newest(table, <<key, i>>) : d.start = M.props[i].start
    /\ \A k, i : k \notin {key, vkey} => Newest(table, <<k, i>>) = {}
    /\ \A v, i : NotVoted(M, v, i) => Newest(table, VoteName(vkey, v, i)) = {}
    /\ \A k : k # vkey => DOMAIN MapOf(table, k) \subseteq DOMAIN M.props
    /\ \A k : k \notin {key, vkey} => DOMAIN MapOf(table, k) = {}
    /\ \A k : k # vkey /\ DOMAIN M.props = {} => MapOf(table, k) = M.props
    /\ \A i : TableVoters(vkey, table, i) \subseteq VotersOf(M, i)

\* A table has all that there is, and dates a vote by its block.
HasVote(w, dated, found) ==
    found # {} /\ \A d \in found : d.vote = w.at /\ w.at <= d.votedAt /\ (dated => d.votedAt = w.at)
TableHasAll(M, key, vkey, dated, table) ==
    /\ \A i \in DOMAIN M.props : Newest(table, <<key, i>>) = {M.props[i]}
    /\ MapOf(table, key) = M.props
    /\ \A w \in M.votes : HasVote(w, dated, Newest(table, VoteName(vkey, w.voter, w.id)))
    /\ \A i : TableVoters(vkey, table, i) = VotersOf(M, i)

LEMMA NewestOf ==
  ASSUME NEW table, NEW name, NEW d \in Newest(table, name)
  PROVE  \E r \in table : r.name = name /\ r.data = d
BY DEF Newest

LEMMA NewestHas ==
  ASSUME NEW table, NEW name, NEW n \in Nat, \A r \in table : r.height \in 1..n, NEW h, Named(table, name, h), h \in Nat
  PROVE  /\ Newest(table, name) # {}
         /\ \A d \in Newest(table, name) : \E r \in table : r.name = name /\ r.data = d /\ h <= r.height
<1> DEFINE found == {r \in table : r.name = name}
           H == {r.height : r \in found}
<1>1. PICK s \in found : h <= s.height
  BY DEF Named
<1>2. H \in SUBSET (1..n) /\ H # {}
  BY <1>1
<1> HIDE DEF H
<1>3. Max(H) \in H /\ \A k \in H : k <= Max(H)
  BY <1>2, MaxIs
<1>4. PICK r \in found : r.height = Max(H)
  BY <1>3 DEF H
<1>5. \A y \in found : y.height \in H
  BY DEF H
<1>6. \A y \in found : y.height <= r.height
  BY <1>3, <1>4, <1>5
<1>7. r.data \in Newest(table, name)
  BY <1>6 DEF Newest
<1>8. ASSUME NEW d \in Newest(table, name) PROVE \E q \in table : q.name = name /\ q.data = d /\ h <= q.height
  <2>1. PICK q \in found : q.data = d /\ \A y \in found : y.height <= q.height
    BY DEF Newest
  <2>2. s.height <= q.height /\ s.height \in Nat /\ q.height \in Nat
    BY <2>1
  <2> QED
    BY <1>1, <2>1, <2>2
<1> QED
  BY <1>7, <1>8

\* Names tell proposals and votes apart.
LEMMA NamesApart ==
  ASSUME NEW vkey \in {"ballots", "voteCast"}, NEW v, NEW i
  PROVE  VoteName(vkey, v, i)[1] = vkey
BY DEF VoteName

VoterNamed(name) == IF name[1] = "ballots" THEN name[3] ELSE name[2]
IdNamed(name) == IF name[1] = "ballots" THEN name[2] ELSE name[3]

LEMMA NamesTell ==
  ASSUME NEW vkey \in {"ballots", "voteCast"}, NEW v, NEW i
  PROVE  VoterNamed(VoteName(vkey, v, i)) = v /\ IdNamed(VoteName(vkey, v, i)) = i
<1>1. CASE vkey = "ballots"
  <2>1. PICK name : name = VoteName(vkey, v, i) /\ name = <<"ballots", i, v>>
    BY <1>1 DEF VoteName
  <2>2. name[1] = "ballots" /\ name[2] = i /\ name[3] = v
    BY <2>1
  <2> QED
    BY <2>1, <2>2 DEF VoterNamed, IdNamed
<1>2. CASE vkey # "ballots"
  <2>1. PICK name : name = VoteName(vkey, v, i) /\ name = <<"voteCast", v, i>>
    BY <1>2 DEF VoteName
  <2>2. name[1] = "voteCast" /\ name[2] = v /\ name[3] = i
    BY <2>1
  <2> QED
    BY <2>1, <2>2 DEF VoterNamed, IdNamed
<1> QED
  BY <1>1, <1>2

LEMMA TableSaysIs ==
  ASSUME NEW M, NEW n \in Nat, StateOK(M, n), NEW key \in {"proposal", "proposals", "proposals_v2"}, NEW vkey \in {"ballots", "voteCast"},
         NEW dated, NEW table, TableOK(M, n, key, vkey, dated, table)
  PROVE  TableSays(M, key, vkey, table)
<1>1. /\ \A r \in table : NamedRow(M, key, vkey, dated, r)
      /\ IdsOf(M, key, vkey, table)
  BY RowIs, IdsAre
<1>2. ASSUME NEW i \in DOMAIN M.props, NEW d \in Newest(table, <<key, i>>) PROVE d.start = M.props[i].start
  <2>1. PICK r \in table : r.name = <<key, i>> /\ r.data = d
    BY NewestOf
  <2>2. r.name[1] = key /\ r.name[2] = i
    BY <2>1
  <2>3. PropRow(M, key, dated, i, r)
    BY <1>1, <2>2 DEF NamedRow
  <2> QED
    BY <2>1, <2>3 DEF PropRow
<1>3. ASSUME NEW k, NEW i, k \notin {key, vkey}, NEW d \in Newest(table, <<k, i>>) PROVE FALSE
  <2>1. PICK r \in table : r.name = <<k, i>> /\ r.data = d
    BY <1>3, NewestOf
  <2>2. r.name[1] = k
    BY <2>1
  <2> QED
    BY <1>1, <1>3, <2>2 DEF NamedRow
<1>4. ASSUME NEW v, NEW i, NotVoted(M, v, i), NEW d \in Newest(table, VoteName(vkey, v, i)) PROVE FALSE
  <2>1. PICK r \in table : r.name = VoteName(vkey, v, i)
    BY <1>4, NewestOf
  <2>2. r.name[1] = vkey
    BY <2>1, NamesApart
  <2>3. PICK w \in M.votes : r.name = VoteName(vkey, w.voter, w.id)
    BY <1>1, <2>2 DEF NamedRow
  <2>4. PICK v2, i2, name : v2 = w.voter /\ i2 = w.id /\ name = r.name
    OBVIOUS
  <2>5. v = v2 /\ i = i2
    <3>1. name = VoteName(vkey, v, i)
      BY <2>1, <2>4
    <3>2. name = VoteName(vkey, v2, i2)
      BY <2>3, <2>4
    <3>3. v = VoterNamed(name) /\ i = IdNamed(name)
      BY <3>1, NamesTell
    <3>4. v2 = VoterNamed(name) /\ i2 = IdNamed(name)
      BY <3>2, NamesTell
    <3> QED
      BY <3>3, <3>4
  <2> QED
    BY <1>4, <2>4, <2>5 DEF NotVoted
<1>5. \A k : DOMAIN MapOf(table, k) = PropsIn(table, k)
  BY DEF MapOf, PropsIn
<1>6. /\ \A k : k \notin {key, vkey} => DOMAIN MapOf(table, k) = {}
      /\ \A k : k # vkey => DOMAIN MapOf(table, k) \subseteq DOMAIN M.props
  BY <1>1, <1>5 DEF IdsOf
<1>7. ASSUME NEW k, k # vkey, DOMAIN M.props = {} PROVE MapOf(table, k) = M.props
  <2>1. DOMAIN MapOf(table, k) = {}
    BY <1>6, <1>7
  <2>2. M.props = [i \in DOMAIN M.props |-> M.props[i]]
    BY StateIs
  <2>3. MapOf(table, k) = [i \in DOMAIN MapOf(table, k) |-> MapOf(table, k)[i]]
    BY DEF MapOf
  <2> QED
    BY <1>7, <2>1, <2>2, <2>3
<1>8. ASSUME NEW i, NEW x \in TableVoters(vkey, table, i) PROVE x \in VotersOf(M, i)
  <2>1. CASE vkey = "voteCast"
    <3>1. PICK r \in table : r.name[1] = vkey /\ r.name[2] = x /\ r.name[3] = i
      BY <1>8, <2>1 DEF TableVoters, VotersIn
    <3>2. PICK w \in M.votes : r.name[2] = w.voter /\ r.name[3] = w.id
      BY <1>1, <2>1, <3>1 DEF NamedRow
    <3> QED
      BY <3>1, <3>2 DEF VotersOf
  <2>2. CASE vkey = "ballots"
    <3>1. PICK r \in table : r.name[1] = vkey /\ r.name[3] = x /\ r.name[2] = i
      BY <1>8, <2>2 DEF TableVoters, BallotsIn
    <3>2. PICK w \in M.votes : r.name[3] = w.voter /\ r.name[2] = w.id
      BY <1>1, <2>2, <3>1 DEF NamedRow
    <3> QED
      BY <3>1, <3>2 DEF VotersOf
  <2> QED
    BY <2>1, <2>2
<1> QED
  BY <1>2, <1>3, <1>4, <1>6, <1>7, <1>8 DEF TableSays

LEMMA TableHasAllIs ==
  ASSUME NEW M, NEW n \in Nat, StateOK(M, n), NEW key \in {"proposal", "proposals", "proposals_v2"}, NEW vkey \in {"ballots", "voteCast"},
         NEW dated, NEW table, TableOK(M, n, key, vkey, dated, table), Complete(M, key, vkey, table, n)
  PROVE  TableHasAll(M, key, vkey, dated, table)
<1>1. /\ \A r \in table : NamedRow(M, key, vkey, dated, r)
      /\ TableSays(M, key, vkey, table)
  BY RowIs, TableSaysIs
<1>2. \A r \in table : r.height \in 1..n
  BY DEF TableOK, RowOK
<1>3. ASSUME NEW i \in DOMAIN M.props PROVE Newest(table, <<key, i>>) = {M.props[i]}
  <2>1. M.props[i].mod \in Nat /\ M.props[i].mod <= n
    BY StateIs
  <2>2. Named(table, <<key, i>>, M.props[i].mod)
    BY <2>1 DEF Complete
  <2>3. /\ Newest(table, <<key, i>>) # {}
        /\ \A d \in Newest(table, <<key, i>>) : \E r \in table : r.name = <<key, i>> /\ r.data = d /\ M.props[i].mod <= r.height
    BY <1>2, <2>1, <2>2, NewestHas
  <2>4. ASSUME NEW d \in Newest(table, <<key, i>>) PROVE d = M.props[i]
    <3>1. PICK r \in table : r.name = <<key, i>> /\ r.data = d /\ M.props[i].mod <= r.height
      BY <2>3
    <3>2. r.name[1] = key /\ r.name[2] = i
      BY <3>1
    <3>3. PropRow(M, key, dated, i, r)
      BY <1>1, <3>2 DEF NamedRow
    <3> QED
      BY <3>1, <3>3 DEF PropRow
  <2> QED
    BY <2>3, <2>4
<1>4. MapOf(table, key) = M.props
  <2>1. PropsIn(table, key) = DOMAIN M.props
    <3>1. ASSUME NEW i \in DOMAIN M.props PROVE i \in PropsIn(table, key)
      <4>1. PICK d : d \in Newest(table, <<key, i>>)
        BY <1>3
      <4>2. PICK r \in table : r.name = <<key, i>>
        BY <4>1, NewestOf
      <4>3. r.name[1] = key /\ r.name[2] = i
        BY <4>2
      <4> QED
        BY <4>3 DEF PropsIn
    <3>2. PropsIn(table, key) \subseteq DOMAIN M.props
      BY IdsAre DEF IdsOf
    <3> QED
      BY <3>1, <3>2
  <2>2. MapOf(table, key) = [i \in PropsIn(table, key) |-> CHOOSE d \in Newest(table, <<key, i>>) : TRUE]
    BY DEF MapOf, PropsIn
  <2>3. \A i \in DOMAIN M.props : (CHOOSE d \in Newest(table, <<key, i>>) : TRUE) = M.props[i]
    BY <1>3
  <2>4. M.props = [i \in DOMAIN M.props |-> M.props[i]]
    BY StateIs
  <2> QED
    BY <2>1, <2>2, <2>3, <2>4
<1>5. ASSUME NEW w \in M.votes
      PROVE  HasVote(w, dated, Newest(table, VoteName(vkey, w.voter, w.id)))
  <2>1. w.at \in Nat /\ w.at <= n
    BY StateIs
  <2>2. PICK name : name = VoteName(vkey, w.voter, w.id) /\ name[1] = vkey
    BY NamesApart
  <2>3. Named(table, name, w.at)
    BY <2>1, <2>2 DEF Complete
  <2>4. /\ Newest(table, name) # {}
        /\ \A d \in Newest(table, name) : \E r \in table : r.name = name /\ r.data = d /\ w.at <= r.height
    BY <1>2, <2>1, <2>3, NewestHas
  <2>5. ASSUME NEW d \in Newest(table, name)
        PROVE  d.vote = w.at /\ w.at <= d.votedAt /\ (dated => d.votedAt = w.at)
    <3>1. PICK r \in table : r.name = name /\ r.data = d /\ w.at <= r.height
      BY <2>4
    <3>2. PICK x \in M.votes : r.name = VoteName(vkey, x.voter, x.id) /\ VoteRow(vkey, dated, x, r)
      BY <1>1, <2>2, <3>1 DEF NamedRow
    <3>3. x.voter = w.voter /\ x.id = w.id
      <4>1. PICK v, i, v2, i2 : v = x.voter /\ i = x.id /\ v2 = w.voter /\ i2 = w.id
        OBVIOUS
      <4>2. name = VoteName(vkey, v, i) /\ name = VoteName(vkey, v2, i2)
        BY <2>2, <3>1, <3>2, <4>1
      <4>3. v = v2 /\ i = i2
        <5>1. v = VoterNamed(name) /\ i = IdNamed(name)
          <6>1. name = VoteName(vkey, v, i)
            BY <4>2
          <6> QED
            BY <6>1, NamesTell
        <5>2. v2 = VoterNamed(name) /\ i2 = IdNamed(name)
          <6>1. name = VoteName(vkey, v2, i2)
            BY <4>2
          <6> QED
            BY <6>1, NamesTell
        <5> QED
          BY <5>1, <5>2
      <4> QED
        BY <4>1, <4>3
    <3>4. x = w
      BY <3>3 DEF StateOK
    <3>5. r.height \in Nat
      BY <1>2
    <3> QED
      BY <2>1, <3>1, <3>2, <3>4, <3>5 DEF VoteRow
  <2> QED
    BY <2>2, <2>4, <2>5 DEF HasVote
<1>6. ASSUME NEW i PROVE TableVoters(vkey, table, i) = VotersOf(M, i)
  <2> SUFFICES ASSUME NEW x \in VotersOf(M, i) PROVE x \in TableVoters(vkey, table, i)
    BY <1>1 DEF TableSays
  <2>1. PICK w \in M.votes : w.voter = x /\ w.id = i
    BY DEF VotersOf
  <2>2. PICK d : d \in Newest(table, VoteName(vkey, x, i))
    BY <1>5, <2>1 DEF HasVote
  <2>3. PICK r \in table : r.name = VoteName(vkey, x, i)
    BY <2>2, NewestOf
  <2>4. r.name = IF vkey = "ballots" THEN <<"ballots", i, x>> ELSE <<"voteCast", x, i>>
    BY <2>3 DEF VoteName
  <2> QED
    BY <2>3, <2>4 DEF TableVoters, VotersIn, BallotsIn
<1> QED
  BY <1>3, <1>4, <1>5, <1>6 DEF TableHasAll

\* The tables as they are: what they name, and which of them answers once all is written.
TablesSay(M, key, dated, ext, tr, ev) ==
    /\ TableSays(M, "proposal", "voteCast", ext) /\ TableSays(M, "proposal", "voteCast", tr)
    /\ TableSays(M, key, "ballots", ev)
OneHasAll(M, key, dated, ext, tr, ev) ==
    \/ TableHasAll(M, "proposal", "voteCast", dated, ext)
    \/ ext = {} /\ TableHasAll(M, "proposal", "voteCast", TRUE, tr)
    \/ ext = {} /\ tr = {} /\ TableHasAll(M, key, "ballots", TRUE, ev)

LEMMA OneAnswers ==
  ASSUME PmInv
  PROVE  /\ TablesSay(Module, ProposalsKey, ~sync.ever, pmRows.ext, pmRows.tr, pmRows.ev)
         /\ PmSettled => OneHasAll(Module, ProposalsKey, ~sync.ever, pmRows.ext, pmRows.tr, pmRows.ev)
<1>1. PICK M, n, key, ext, tr, ev, d :
          M = Module /\ n = PmHeight /\ key = ProposalsKey /\ ext = pmRows.ext /\ tr = pmRows.tr /\ ev = pmRows.ev /\ d = ~sync.ever
  OBVIOUS
<1>2. /\ n \in Nat /\ StateOK(M, n) /\ TableOK(M, n, "proposal", "voteCast", d, ext)
      /\ TableOK(M, n, "proposal", "voteCast", TRUE, tr) /\ TableOK(M, n, key, "ballots", TRUE, ev)
      /\ key \in {"proposal", "proposals", "proposals_v2"}
  BY <1>1, PmNow, KeyIs DEF PmInv, PmTablesOK
<1>3. TablesSay(M, key, d, ext, tr, ev)
  BY <1>2, TableSaysIs DEF TablesSay
<1>4. ASSUME PmSettled PROVE OneHasAll(M, key, d, ext, tr, ev)
  <2>1. CASE ext # {}
    <3>1. pmJobs = {} /\ AllCovered(M, {}, ext)
      BY <1>1, <1>4, <2>1 DEF PmSettled, PmInv, PmWritersOK
    <3>2. Complete(M, "proposal", "voteCast", ext, n)
      <4>1. ASSUME NEW i \in DOMAIN M.props
            PROVE  Named(ext, <<"proposal", i>>, M.props[i].mod) /\ Named(ext, <<"proposal", i>>, 0)
        <5>1. PICK r \in ext : r.name = <<"proposal", i>> /\ M.props[i].mod <= r.height
          BY <3>1 DEF AllCovered, PropCovered, Named
        <5>2. r.height \in 1..n
          BY <1>2 DEF TableOK, RowOK
        <5> QED
          BY <5>1, <5>2 DEF Named
      <4>2. ASSUME NEW w \in M.votes PROVE Named(ext, VoteName("voteCast", w.voter, w.id), w.at)
        BY <3>1 DEF AllCovered, VoteCovered, VoteName
      <4> QED
        BY <4>1, <4>2 DEF Complete
    <3>3. TableHasAll(M, "proposal", "voteCast", d, ext)
      BY <1>2, <3>2, TableHasAllIs
    <3> QED
      BY <3>3 DEF OneHasAll
  <2>2. CASE ext = {} /\ tr # {}
    <3>1. Complete(M, "proposal", "voteCast", tr, n)
      BY <1>1, <1>4, <2>2 DEF PmSettled, PmInv, PmTablesOK
    <3>2. TableHasAll(M, "proposal", "voteCast", TRUE, tr)
      BY <1>2, <3>1, TableHasAllIs
    <3> QED
      BY <2>2, <3>2 DEF OneHasAll
  <2>3. CASE ext = {} /\ tr = {}
    <3>1. Complete(M, key, "ballots", ev, n)
      BY <1>1, <1>4, <2>3 DEF PmSettled, PmInv, PmTablesOK
    <3>2. TableHasAll(M, key, "ballots", TRUE, ev)
      BY <1>2, <3>1, TableHasAllIs
    <3> QED
      BY <2>3, <3>2 DEF OneHasAll
  <2> QED
    BY <2>1, <2>2, <2>3
<1> QED
  BY <1>1, <1>3, <1>4

\* The first that is not empty, of which nothing is outside T.
LEMMA FirstIs ==
  ASSUME NEW a, NEW b, NEW c, NEW T, T = {} => b = {} /\ c = {}, a = T \/ (a = {} /\ b = T) \/ (a = {} /\ b = {} /\ c = T)
  PROVE  First(a, First(b, c)) = T
BY DEF First

LEMMA NothingIn ==
  /\ \A name : Newest({}, name) = {}
  /\ \A k : DOMAIN MapOf({}, k) = {}
  /\ \A vkey, i : TableVoters(vkey, {}, i) = {}
BY DEF Newest, MapOf, TableVoters, VotersIn, BallotsIn

\* A page that everything fits on.
LEMMA WholePage ==
  ASSUME NEW S \in SUBSET Voters
  PROVE  PageAfter(S, 0, Cardinality(Voters)) = S
<1>1. S \in SUBSET Nat /\ (\A x \in S : 0 < x) /\ IsFiniteSet(Voters)
  BY VotersAre, PmAssumption
<1>2. ASSUME NEW x \in S PROVE Cardinality({y \in S : 0 < y /\ y < x}) < Cardinality(Voters)
  <2>1. PICK B, C : B = {y \in S : 0 < y /\ y < x} /\ C = Voters \ {x}
    OBVIOUS
  <2>2. B \in SUBSET C
    <3>1. ASSUME NEW y \in B PROVE y \in Voters /\ y # x
      BY <1>1, <2>1
    <3> QED
      BY <2>1, <3>1
  <2>3. IsFiniteSet(C) /\ Cardinality(C) = Cardinality(Voters) - 1 /\ Cardinality(Voters) \in Nat
    BY <1>1, <2>1, FS_RemoveElement, FS_CardinalityType
  <2>4. IsFiniteSet(B) /\ Cardinality(B) <= Cardinality(C) /\ Cardinality(B) \in Nat
    BY <2>2, <2>3, FS_Subset, FS_CardinalityType
  <2> QED
    BY <2>1, <2>3, <2>4
<1> QED
  BY <1>1, <1>2 DEF PageAfter

LEMMA ProposalIs ==
  ASSUME PmInv, NEW i
  PROVE  getProposal(i) = First(Newest(pmRows.ext, <<"proposal", i>>),
                          First(Newest(pmRows.tr, <<"proposal", i>>), Newest(pmRows.ev, <<ProposalsKey, i>>)))
<1>1. TableSays(Module, ProposalsKey, "ballots", pmRows.ev)
  BY OneAnswers DEF TablesSay
<1>2. ASSUME NEW k, k \notin {ProposalsKey, "ballots"} PROVE Newest(pmRows.ev, <<k, i>>) = {}
  BY <1>1, <1>2 DEF TableSays
<1>3. CASE pmBound.kind = "multiple"
  BY <1>3, KeyIs DEF getProposal, getProposalMultiple
<1>4. CASE pmBound.kind # "multiple"
  <2>1. getProposal(i) = getProposalSingle(i)
    BY <1>4 DEF getProposal
  <2>2. CASE pmBound.kind = "v2"
    <3>1. ProposalsKey = "proposals_v2"
      BY <2>2, KeyIs
    <3>2. Newest(pmRows.ev, <<"proposals", i>>) = {}
      BY <1>2, <3>1
    <3> QED
      BY <2>1, <3>1, <3>2 DEF getProposalSingle, First
  <2>3. CASE pmBound.kind # "v2"
    <3>1. ProposalsKey = "proposals"
      BY <2>3, KeyIs
    <3>2. Newest(pmRows.ev, <<"proposals_v2", i>>) = {}
      BY <1>2, <3>1
    <3> QED
      BY <2>1, <3>1, <3>2 DEF getProposalSingle, First
  <2> QED
    BY <2>2, <2>3
<1> QED
  BY <1>3, <1>4

LEMMA ProposalsAre == ASSUME PmInv, PmSettled PROVE proposals = Module.props
<1>1. PICK M, key, ext, tr, ev, d :
          M = Module /\ key = ProposalsKey /\ ext = pmRows.ext /\ tr = pmRows.tr /\ ev = pmRows.ev /\ d = ~sync.ever
  OBVIOUS
<1>2. TablesSay(M, key, d, ext, tr, ev) /\ OneHasAll(M, key, d, ext, tr, ev)
  BY <1>1, OneAnswers
<1>3. PICK e, t, v2, v1, P : /\ e = MapOf(ext, "proposal") /\ t = MapOf(tr, "proposal") /\ P = M.props
                             /\ v2 = MapOf(ev, "proposals_v2") /\ v1 = MapOf(ev, "proposals")
  OBVIOUS
<1>4. /\ DOMAIN P = {} => e = P /\ t = P /\ v2 = P /\ v1 = P
      /\ key # "proposals_v2" => DOMAIN v2 = {}
  BY <1>2, <1>3 DEF TablesSay, TableSays
<1>5. \/ e = P
      \/ DOMAIN e = {} /\ t = P
      \/ DOMAIN e = {} /\ DOMAIN t = {} /\ MapOf(ev, key) = P
  BY <1>2, <1>3, NothingIn DEF OneHasAll, TableHasAll
<1>6. CASE pmBound.kind = "multiple"
  <2>1. proposals = OrElse(e, OrElse(t, v1)) /\ key = "proposals"
    BY <1>1, <1>3, <1>6, KeyIs DEF proposals, proposalsMultiple
  <2> QED
    BY <1>1, <1>3, <1>4, <1>5, <2>1 DEF OrElse
<1>7. CASE pmBound.kind # "multiple"
  <2>1. proposals = OrElse(e, OrElse(t, OrElse(v2, v1)))
    BY <1>1, <1>3, <1>7 DEF proposals, proposalsSingle
  <2>2. key = "proposals_v2" \/ key = "proposals"
    BY <1>1, KeyIs
  <2> QED
    BY <1>1, <1>3, <1>4, <1>5, <2>1, <2>2 DEF OrElse
<1> QED
  BY <1>6, <1>7

LEMMA VotersListed ==
  ASSUME PmInv, PmSettled, NEW i
  PROVE  listVotes(i, 0, Cardinality(Voters)) = VotersOf(Module, i)
<1>1. PICK M, key, ext, tr, ev, d :
          M = Module /\ key = ProposalsKey /\ ext = pmRows.ext /\ tr = pmRows.tr /\ ev = pmRows.ev /\ d = ~sync.ever
  OBVIOUS
<1>2. TablesSay(M, key, d, ext, tr, ev) /\ OneHasAll(M, key, d, ext, tr, ev)
  BY <1>1, OneAnswers
<1>3. PICK A, B, C, T : /\ A = VotersIn(ext, i) /\ B = VotersIn(tr, i) /\ C = BallotsIn(ev, i)
                        /\ T = VotersOf(M, i)
  OBVIOUS
<1>4. A = TableVoters("voteCast", ext, i) /\ B = TableVoters("voteCast", tr, i) /\ C = TableVoters("ballots", ev, i)
  BY <1>3 DEF TableVoters
<1>5. A \subseteq T /\ B \subseteq T /\ C \subseteq T
  BY <1>2, <1>3, <1>4 DEF TablesSay, TableSays
<1>6. A = T \/ (A = {} /\ B = T) \/ (A = {} /\ B = {} /\ C = T)
  BY <1>2, <1>3, <1>4, NothingIn DEF OneHasAll, TableHasAll
<1>7. T \subseteq Voters
  BY <1>1, <1>3, PmNow, StateIs DEF VotersOf
<1>8. /\ PageAfter(A, 0, Cardinality(Voters)) = A /\ PageAfter(B, 0, Cardinality(Voters)) = B
      /\ PageAfter(C, 0, Cardinality(Voters)) = C
  BY <1>5, <1>7, WholePage
<1>9. listVotes(i, 0, Cardinality(Voters)) = First(A, First(B, C))
  BY <1>1, <1>3, <1>8 DEF listVotes
<1> QED
  BY <1>1, <1>3, <1>5, <1>6, <1>9, FirstIs

LEMMA VoteIs ==
  ASSUME PmInv, PmSettled, NEW v, NEW i
  PROVE  /\ NotVoted(Module, v, i) => vote(i, v) = {}
         /\ \A w \in Module.votes : w.voter = v /\ w.id = i =>
                vote(i, v) # {} /\ \A b \in vote(i, v) : /\ b.vote = w.at /\ w.at <= b.votedAt
                                                         /\ ~sync.ever => b.votedAt = w.at
<1>1. PICK M, key, ext, tr, ev, d :
          M = Module /\ key = ProposalsKey /\ ext = pmRows.ext /\ tr = pmRows.tr /\ ev = pmRows.ev /\ d = ~sync.ever
  OBVIOUS
<1>2. TablesSay(M, key, d, ext, tr, ev) /\ OneHasAll(M, key, d, ext, tr, ev)
  BY <1>1, OneAnswers
<1>3. PICK A, B, C, T :
          /\ A = Newest(ext, VoteName("voteCast", v, i)) /\ B = Newest(tr, VoteName("voteCast", v, i))
          /\ C = Newest(ev, VoteName("ballots", v, i)) /\ T = vote(i, v)
  OBVIOUS
<1>4. T = First(A, First(B, C))
  BY <1>1, <1>3 DEF vote, VoteName
<1>5. ASSUME NotVoted(M, v, i) PROVE T = {}
  <2>1. A = {} /\ B = {} /\ C = {}
    BY <1>2, <1>3, <1>5 DEF TablesSay, TableSays
  <2> QED
    BY <1>4, <2>1 DEF First
<1>6. ASSUME NEW w \in M.votes, w.voter = v, w.id = i
      PROVE  T # {} /\ \A b \in T : b.vote = w.at /\ w.at <= b.votedAt /\ (d => b.votedAt = w.at)
  <2>1. CASE TableHasAll(M, "proposal", "voteCast", d, ext)
    <3>1. HasVote(w, d, A)
      BY <1>3, <1>6, <2>1 DEF TableHasAll
    <3> QED
      BY <1>4, <3>1 DEF First, HasVote
  <2>2. CASE ext = {} /\ TableHasAll(M, "proposal", "voteCast", TRUE, tr)
    <3>1. HasVote(w, TRUE, B)
      BY <1>3, <1>6, <2>2 DEF TableHasAll
    <3>2. A = {}
      BY <1>3, <2>2, NothingIn
    <3> QED
      BY <1>4, <3>1, <3>2 DEF First, HasVote
  <2>3. CASE ext = {} /\ tr = {} /\ TableHasAll(M, key, "ballots", TRUE, ev)
    <3>1. HasVote(w, TRUE, C)
      BY <1>3, <1>6, <2>3 DEF TableHasAll
    <3>2. A = {} /\ B = {}
      BY <1>3, <2>3, NothingIn
    <3> QED
      BY <1>4, <3>1, <3>2 DEF First, HasVote
  <2> QED
    BY <1>2, <2>1, <2>2, <2>3 DEF OneHasAll
<1> QED
  BY <1>1, <1>3, <1>5, <1>6

LEMMA GetProposalIs ==
  ASSUME PmInv, PmSettled, NEW i \in DOMAIN Module.props
  PROVE  getProposal(i) = {Module.props[i]}
<1>1. PICK M, key, ext, tr, ev, d :
          M = Module /\ key = ProposalsKey /\ ext = pmRows.ext /\ tr = pmRows.tr /\ ev = pmRows.ev /\ d = ~sync.ever
  OBVIOUS
<1>2. OneHasAll(M, key, d, ext, tr, ev)
  BY <1>1, OneAnswers
<1>3. PICK A, B, C, T : /\ A = Newest(ext, <<"proposal", i>>) /\ B = Newest(tr, <<"proposal", i>>)
                        /\ C = Newest(ev, <<key, i>>) /\ T = {M.props[i]}
  OBVIOUS
<1>4. A = T \/ (A = {} /\ B = T) \/ (A = {} /\ B = {} /\ C = T)
  BY <1>1, <1>2, <1>3, NothingIn DEF OneHasAll, TableHasAll
<1>5. getProposal(i) = First(A, First(B, C))
  BY <1>1, <1>3, ProposalIs
<1> QED
  BY <1>1, <1>3, <1>4, <1>5, FirstIs

-----------------------------------------------------------------------------
(* What settles.                                                           *)

LEMMA OpenProposalsAre ==
  ASSUME PmInv, PmSettled, NEW v
  PROVE  openProposals(v) = {[id |-> i, voted |-> \E w \in Module.votes : w.voter = v /\ w.id = i] :
                                 i \in {k \in DOMAIN Module.props : Module.props[k].open}}
<1> DEFINE f(i) == vote(i, v) # {}
           g(i) == \E w \in Module.votes : w.voter = v /\ w.id = i
           D == {k \in DOMAIN Module.props : Module.props[k].open}
<1>1. openProposals(v) = {[id |-> i, voted |-> f(i)] : i \in D}
  BY ProposalsAre DEF openProposals
<1>2. ASSUME NEW i PROVE f(i) = g(i)
  <2>1. CASE NotVoted(Module, v, i)
    <3>1. ~f(i)
      BY <2>1, VoteIs
    <3>2. ~g(i)
      BY <2>1 DEF NotVoted
    <3> QED
      BY <3>1, <3>2
  <2>2. CASE ~NotVoted(Module, v, i)
    <3>1. PICK w \in Module.votes : w.voter = v /\ w.id = i
      BY <2>2 DEF NotVoted
    <3>2. f(i)
      BY <3>1, VoteIs
    <3>3. g(i)
      BY <3>1
    <3> QED
      BY <3>2, <3>3
  <2> QED
    BY <2>1, <2>2
<1> HIDE DEF f, g, D
<1>3. {[id |-> i, voted |-> f(i)] : i \in D} = {[id |-> i, voted |-> g(i)] : i \in D}
  BY <1>2
<1> QED
  BY <1>1, <1>3 DEF g, D

\* The lists, the single proposals, the votes and the open proposals.
LEMMA ProposalsSettled == PmInv => ProposalsSettle
<1> SUFFICES ASSUME PmInv, PmSettled
             PROVE  /\ proposals = Module.props
                    /\ \A i \in DOMAIN Module.props :
                           /\ getProposal(i) = {Module.props[i]}
                           /\ listVotes(i, 0, Cardinality(Voters)) = {w.voter : w \in {x \in Module.votes : x.id = i}}
                           /\ \A v \in Voters :
                                  {d.vote : d \in vote(i, v)} = {w.at : w \in {x \in Module.votes : x.voter = v /\ x.id = i}}
                    /\ \A v \in Voters : openProposals(v) =
                           {[id |-> i, voted |-> \E w \in Module.votes : w.voter = v /\ w.id = i] :
                                i \in {k \in DOMAIN Module.props : Module.props[k].open}}
  BY DEF ProposalsSettle
<1>1. proposals = Module.props
  BY ProposalsAre
<1>2. ASSUME NEW i \in DOMAIN Module.props
      PROVE  /\ getProposal(i) = {Module.props[i]}
             /\ listVotes(i, 0, Cardinality(Voters)) = {w.voter : w \in {x \in Module.votes : x.id = i}}
  BY GetProposalIs, VotersListed DEF VotersOf
<1>3. ASSUME NEW i \in DOMAIN Module.props, NEW v \in Voters
      PROVE  {d.vote : d \in vote(i, v)} = {w.at : w \in {x \in Module.votes : x.voter = v /\ x.id = i}}
  <2>1. CASE NotVoted(Module, v, i)
    <3>1. vote(i, v) = {}
      BY <2>1, VoteIs
    <3>2. {x \in Module.votes : x.voter = v /\ x.id = i} = {}
      BY <2>1 DEF NotVoted
    <3> QED
      BY <3>1, <3>2
  <2>2. CASE ~NotVoted(Module, v, i)
    <3>1. PICK w \in Module.votes : w.voter = v /\ w.id = i
      BY <2>2 DEF NotVoted
    <3>2. vote(i, v) # {} /\ \A b \in vote(i, v) : b.vote = w.at
      BY <3>1, VoteIs
    <3>3. {x \in Module.votes : x.voter = v /\ x.id = i} = {w}
      BY <3>1, PmNow DEF StateOK
    <3>4. {d.vote : d \in vote(i, v)} = {w.at}
      BY <3>2
    <3> QED
      BY <3>3, <3>4
  <2> QED
    BY <2>1, <2>2
<1>4. \A v \in Voters : openProposals(v) =
          {[id |-> i, voted |-> \E w \in Module.votes : w.voter = v /\ w.id = i] :
               i \in {k \in DOMAIN Module.props : Module.props[k].open}}
  BY OpenProposalsAre
<1> QED
  BY <1>1, <1>2, <1>3, <1>4

\* The block a proposal is said to be made in.
FirstIn(table, keys, i) == {r.height : r \in {x \in table : x.name[1] \in keys /\ x.name[2] = i}}
CreatedIn(i) ==
    First({d.start : d \in getProposal(i)} \cap (1 .. pmExported \cup {r.height : r \in pmRows.ext}),
    First(FirstIn(pmRows.tr, {"proposal"}, i),
    First(FirstIn(pmRows.ext, {"proposal"}, i), FirstIn(pmRows.ev, {"proposals", "proposals_v2"}, i))))

NotBefore(S, s, dated) == \A x \in S : x \in Nat /\ (dated => s <= x)

LEMMA FirstInIs ==
  ASSUME NEW M, NEW n \in Nat, StateOK(M, n), NEW key \in {"proposal", "proposals", "proposals_v2"}, NEW vkey \in {"ballots", "voteCast"},
         NEW dated, NEW table, TableOK(M, n, key, vkey, dated, table), NEW i, NEW keys, vkey \notin keys
  PROVE  NotBefore(FirstIn(table, keys, i), M.props[i].start, dated)
<1> SUFFICES ASSUME NEW x \in FirstIn(table, keys, i) PROVE x \in Nat /\ (dated => M.props[i].start <= x)
  BY DEF NotBefore
<1>1. PICK r \in table : r.name[1] \in keys /\ r.name[2] = i /\ x = r.height
  BY DEF FirstIn
<1>2. NamedRow(M, key, vkey, dated, r)
  BY RowIs
<1>3. r.name[1] = key
  BY <1>1, <1>2 DEF NamedRow
<1>4. PropRow(M, key, dated, i, r)
  BY <1>1, <1>2, <1>3 DEF NamedRow
<1>5. r.height \in 1..n
  BY DEF TableOK, RowOK
<1> QED
  BY <1>1, <1>4, <1>5 DEF PropRow

LEMMA CreatedAtIs ==
  ASSUME PmInv, NEW i \in DOMAIN Module.props, NEW t \in proposalCreatedAt(i)
  PROVE  /\ t >= Module.props[i].start \/ sync.ever
         /\ Module.props[i].start <= pmExported => t = Module.props[i].start
<1>1. t = Min(CreatedIn(i)) /\ CreatedIn(i) # {}
  BY DEF proposalCreatedAt, CreatedIn, FirstIn
<1>2. PICK M, n, key, ext, tr, ev, d, s, C, X, T, E, V :
          /\ M = Module /\ n = PmHeight /\ key = ProposalsKey /\ ext = pmRows.ext /\ tr = pmRows.tr /\ ev = pmRows.ev
          /\ d = ~sync.ever /\ s = M.props[i].start /\ C = CreatedIn(i)
          /\ X = {b.start : b \in getProposal(i)} \cap (1 .. pmExported \cup {r.height : r \in pmRows.ext})
          /\ T = FirstIn(tr, {"proposal"}, i) /\ E = FirstIn(ext, {"proposal"}, i)
          /\ V = FirstIn(ev, {"proposals", "proposals_v2"}, i)
  OBVIOUS
<1>3. C = First(X, First(T, First(E, V)))
  BY <1>2 DEF CreatedIn
<1>4. /\ n \in Nat /\ StateOK(M, n) /\ TableOK(M, n, "proposal", "voteCast", d, ext)
      /\ TableOK(M, n, "proposal", "voteCast", TRUE, tr) /\ TableOK(M, n, key, "ballots", TRUE, ev)
      /\ key \in {"proposal", "proposals", "proposals_v2"} /\ TablesSay(M, key, d, ext, tr, ev)
      /\ i \in DOMAIN M.props /\ s \in Nat /\ 1 <= s
  <2>1. StateOK(M, n) /\ n \in Nat /\ i \in DOMAIN M.props
    BY <1>2, PmNow
  <2>2. s \in Nat /\ 1 <= s
    BY <1>2, <2>1, StateIs
  <2> QED
    BY <1>2, <2>1, <2>2, KeyIs, OneAnswers DEF PmInv, PmTablesOK
<1>5. PICK a, b, c : /\ a = Newest(ext, <<"proposal", i>>) /\ b = Newest(tr, <<"proposal", i>>)
                     /\ c = Newest(ev, <<key, i>>) /\ getProposal(i) = First(a, First(b, c))
  BY <1>2, ProposalIs
<1>6. \A x \in getProposal(i) : x.start = s
  <2>1. \A x \in a : x.start = s
    BY <1>2, <1>4, <1>5 DEF TablesSay, TableSays
  <2>2. \A x \in b : x.start = s
    BY <1>2, <1>4, <1>5 DEF TablesSay, TableSays
  <2>3. \A x \in c : x.start = s
    BY <1>2, <1>4, <1>5 DEF TablesSay, TableSays
  <2> QED
    BY <1>5, <2>1, <2>2, <2>3 DEF First
<1>7. X # {} => X = {s}
  BY <1>2, <1>6
<1>8. /\ \A x \in T : x \in Nat /\ s <= x
      /\ \A x \in E : x \in Nat /\ (d => s <= x)
      /\ \A x \in V : x \in Nat /\ s <= x
  <2>1. PICK K, L : K = {"proposal"} /\ L = {"proposals", "proposals_v2"}
    OBVIOUS
  <2>2. "voteCast" \notin K /\ "ballots" \notin L
    BY <2>1
  <2>3. T = FirstIn(tr, K, i) /\ E = FirstIn(ext, K, i) /\ V = FirstIn(ev, L, i)
    BY <1>2, <2>1
  <2>4. NotBefore(T, s, TRUE)
    BY <1>2, <1>4, <2>2, <2>3, FirstInIs
  <2>5. NotBefore(E, s, d)
    BY <1>2, <1>4, <2>2, <2>3, FirstInIs
  <2>6. NotBefore(V, s, TRUE)
    <3>1. NotBefore(FirstIn(ev, L, i), M.props[i].start, TRUE)
      BY <1>4, <2>2, FirstInIs
    <3> QED
      BY <1>2, <2>3, <3>1
  <2> QED
    BY <2>4, <2>5, <2>6 DEF NotBefore
<1>9. \A x \in C : x \in Nat /\ (d => s <= x)
  BY <1>3, <1>4, <1>7, <1>8 DEF First
<1>10. t \in C
  <2>1. C \in SUBSET Nat /\ C # {} /\ t = Min(C)
    BY <1>1, <1>2, <1>9
  <2> QED
    BY <2>1, MinIs
<1>11. ASSUME s <= pmExported PROVE t = s
  <2>1. Complete(M, key, "ballots", ev, pmExported)
    BY <1>2 DEF PmInv, PmTablesOK
  <2>2. Named(ev, <<key, i>>, 0)
    BY <1>2, <1>4, <1>11, <2>1 DEF Complete
  <2>3. \A r \in ev : r.height \in 1..n
    BY <1>4 DEF TableOK, RowOK
  <2>4. c # {}
    BY <1>4, <1>5, <2>2, <2>3, NewestHas
  <2>5. getProposal(i) # {}
    BY <1>5, <2>4 DEF First
  <2>6. s \in 1..pmExported
    BY <1>4, <1>11 DEF PmInv, PmTypeOK
  <2>7. s \in X
    BY <1>2, <1>6, <2>5, <2>6
  <2>8. C = {s}
    BY <1>3, <1>7, <2>7 DEF First
  <2> QED
    BY <1>10, <2>8
<1>12. d => t >= s
  BY <1>4, <1>9, <1>10
<1> QED
  BY <1>2, <1>11, <1>12

LEMMA DatesSettled == PmInv => DatesSettle
<1> SUFFICES ASSUME PmInv PROVE DatesSettle
  OBVIOUS
<1>1. ASSUME PmSettled, NEW w \in Module.votes, NEW d \in vote(w.id, w.voter)
      PROVE  IF sync.ever THEN d.votedAt >= w.at ELSE d.votedAt = w.at
  <2>1. PICK v, i : v = w.voter /\ i = w.id
    OBVIOUS
  <2>2. w.at <= d.votedAt /\ (~sync.ever => d.votedAt = w.at)
    BY <1>1, <2>1, VoteIs
  <2> QED
    BY <2>2
<1>2. \A i \in DOMAIN Module.props : \A t \in proposalCreatedAt(i) :
           /\ t >= Module.props[i].start \/ sync.ever
           /\ Module.props[i].start <= pmExported => t = Module.props[i].start
  BY CreatedAtIs
<1> QED
  BY <1>1, <1>2 DEF DatesSettle

LEMMA WalksFind == PmInv => WalkFindsAll
BY DEF PmInv, PmClientOK, ClientOK, Walked, WalkFindsAll

\* In every behaviour: once everything is written and nothing of it was lost, the formulas
\* answer what is, dated as it was cast and made; and while it is not, a client who walks
\* through pages misses nothing of what was there and sees nothing twice.
THEOREM ProposalsHold == ProposalModuleSpec => []ModuleSettles
<1>1. PmInv => ModuleSettles
  BY ProposalsSettled, DatesSettled, WalksFind DEF ModuleSettles
<1> QED
  BY <1>1, PmInvHolds, PTL
=============================================================================
