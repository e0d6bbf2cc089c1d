----------------------------- MODULE VotingProofs -----------------------------
(***************************************************************************)
(* Proofs about VotingPower: that power, totals, shares, stakers and       *)
(* delegations of every voting module are what the contracts held at every *)
(* height, for any number of members, delegates and blocks. They rest on   *)
(* lemmas on sums, on snapshot maps and on wormholes. And about Proposals: *)
(* that what is reported of a proposal stays true, whatever is voted.      *)
(***************************************************************************)
EXTENDS VotingPower, Proposals, Functions, Induction, SequenceTheorems

-----------------------------------------------------------------------------
(* Sums.                                                                   *)

\* What the fold of a sum over a set computes for its subsets.
Sums(f, S, it) ==
    it = [s \in SUBSET S |-> IF s = {} THEN 0
                             ELSE f[CHOOSE x \in s : TRUE] + it[s \ {CHOOSE x \in s : TRUE}]]

\* The sums of the subsets up to a size.
SumsUpTo(f, S, n, it) ==
    \A s \in SUBSET S : Cardinality(s) <= n =>
        /\ it[s] \in Int
        /\ it[s] = IF s = {} THEN 0 ELSE f[CHOOSE x \in s : TRUE] + it[s \ {CHOOSE x \in s : TRUE}]

LEMMA SmallerSubset ==
  ASSUME NEW S, IsFiniteSet(S), NEW s \in SUBSET S, NEW x \in s
  PROVE  /\ Cardinality(s) \in Nat /\ Cardinality(s) > 0 /\ IsFiniteSet(s)
         /\ Cardinality(s \ {x}) = Cardinality(s) - 1 /\ Cardinality(s \ {x}) \in Nat
<1>1. IsFiniteSet(s)
  BY FS_Subset
<1>2. Cardinality(s) \in Nat /\ Cardinality(s \ {x}) = Cardinality(s) - 1 /\ Cardinality(s) # 0
  BY <1>1, FS_RemoveElement, FS_CardinalityType, FS_EmptySet
<1> QED
  BY <1>1, <1>2

LEMMA SumsExist ==
  ASSUME NEW S, IsFiniteSet(S), NEW f, \A x \in S : f[x] \in Int
  PROVE  \E it : Sums(f, S, it) /\ \A s \in SUBSET S : it[s] \in Int
<1> DEFINE P == {n \in Nat : \E it : SumsUpTo(f, S, n, it)}
<1>1. 0 \in P
  <2>1. PICK it : it = [s \in SUBSET S |-> 0]
    OBVIOUS
  <2>2. \A s \in SUBSET S : Cardinality(s) <= 0 => s = {}
    <3> SUFFICES ASSUME NEW s \in SUBSET S, Cardinality(s) <= 0 PROVE s = {}
      OBVIOUS
    <3>1. s # {} => Cardinality(s) > 0
      BY SmallerSubset
    <3>2. Cardinality(s) \in Nat
      BY FS_Subset, FS_CardinalityType
    <3> QED
      BY <3>1, <3>2
  <2>3. SumsUpTo(f, S, 0, it)
    BY <2>1, <2>2 DEF SumsUpTo
  <2> QED
    BY <2>3
<1>2. ASSUME NEW n \in Nat, n \in P PROVE n + 1 \in P
  <2>1. PICK g : SumsUpTo(f, S, n, g)
    BY <1>2
  <2>2. PICK it : it = [s \in SUBSET S |-> IF Cardinality(s) <= n THEN g[s]
                            ELSE f[CHOOSE x \in s : TRUE] + g[s \ {CHOOSE x \in s : TRUE}]]
    OBVIOUS
  <2>3. ASSUME NEW s \in SUBSET S, Cardinality(s) <= n + 1
        PROVE  /\ it[s] \in Int
               /\ it[s] = IF s = {} THEN 0 ELSE f[CHOOSE x \in s : TRUE] + it[s \ {CHOOSE x \in s : TRUE}]
    <3>1. CASE s = {}
      <4>1. Cardinality(s) <= n
        BY <3>1, FS_EmptySet
      <4> QED
        BY <2>1, <2>2, <3>1, <4>1 DEF SumsUpTo
    <3>2. CASE s # {}
      <4>1. PICK x : x = (CHOOSE y \in s : TRUE)
        OBVIOUS
      <4>2. x \in s /\ s \ {x} \in SUBSET S
        BY <3>2, <4>1
      <4>3. Cardinality(s \ {x}) <= n
        BY <2>3, <4>2, SmallerSubset
      <4>4. it[s \ {x}] = g[s \ {x}] /\ g[s \ {x}] \in Int
        BY <2>1, <2>2, <4>2, <4>3 DEF SumsUpTo
      <4>5. it[s] = f[x] + g[s \ {x}]
        <5>1. CASE Cardinality(s) <= n
          BY <2>1, <2>2, <3>2, <4>1, <5>1 DEF SumsUpTo
        <5>2. CASE ~(Cardinality(s) <= n)
          BY <2>2, <4>1, <5>2
        <5> QED
          BY <5>1, <5>2
      <4> QED
        BY <3>2, <4>1, <4>2, <4>4, <4>5
    <3> QED
      BY <3>1, <3>2
  <2>4. SumsUpTo(f, S, n + 1, it)
    BY <2>3 DEF SumsUpTo
  <2> QED
    BY <2>4
<1>3. Cardinality(S) \in P
  <2> HIDE DEF P
  <2>1. \A n \in Nat : n \in P
    BY <1>1, <1>2, Successors
  <2> QED
    BY <2>1, FS_CardinalityType
<1>4. PICK g : SumsUpTo(f, S, Cardinality(S), g)
  BY <1>3
<1>5. \A s \in SUBSET S : Cardinality(s) <= Cardinality(S)
  BY FS_Subset
<1>6. PICK it : it = [s \in SUBSET S |-> g[s]]
  OBVIOUS
<1>7. ASSUME NEW s \in SUBSET S
      PROVE  /\ it[s] \in Int
             /\ it[s] = IF s = {} THEN 0 ELSE f[CHOOSE x \in s : TRUE] + it[s \ {CHOOSE x \in s : TRUE}]
  <2>1. s # {} => s \ {CHOOSE x \in s : TRUE} \in SUBSET S
    OBVIOUS
  <2> QED
    BY <1>4, <1>5, <1>6, <2>1 DEF SumsUpTo
<1>8. Sums(f, S, it)
  BY <1>6, <1>7 DEF Sums
<1> QED
  BY <1>7, <1>8

\* Two of them agree.
LEMMA SumsAlike ==
  ASSUME NEW S, NEW T, IsFiniteSet(S), NEW f, NEW it, NEW jt, Sums(f, S, it), Sums(f, T, jt)
  PROVE  \A s \in SUBSET S : s \in SUBSET T => it[s] = jt[s]
<1> DEFINE P == {n \in Nat : \A s \in SUBSET S : s \in SUBSET T /\ Cardinality(s) = n => it[s] = jt[s]}
<1>1. ASSUME NEW n \in Nat, \A m \in 0 .. (n - 1) : m \in P PROVE n \in P
  <2> SUFFICES ASSUME NEW s \in SUBSET S, s \in SUBSET T, Cardinality(s) = n PROVE it[s] = jt[s]
    OBVIOUS
  <2>1. CASE s = {}
    BY <2>1 DEF Sums
  <2>2. CASE s # {}
    <3>1. PICK x : x = (CHOOSE y \in s : TRUE)
      OBVIOUS
    <3>2. x \in s /\ s \ {x} \in SUBSET S /\ s \ {x} \in SUBSET T
      BY <2>2, <3>1
    <3>3. Cardinality(s \ {x}) \in 0 .. (n - 1)
      BY <3>2, SmallerSubset
    <3>4. it[s \ {x}] = jt[s \ {x}]
      BY <1>1, <3>2, <3>3
    <3>5. it[s] = f[x] + it[s \ {x}]
      BY <2>2, <3>1 DEF Sums
    <3>6. jt[s] = f[x] + jt[s \ {x}]
      BY <2>2, <3>1 DEF Sums
    <3> QED
      BY <3>4, <3>5, <3>6
  <2> QED
    BY <2>1, <2>2
<1>2. \A n \in Nat : n \in P
  <2> HIDE DEF P
  <2> QED
    BY <1>1, AllBelow
<1> SUFFICES ASSUME NEW s \in SUBSET S, s \in SUBSET T PROVE it[s] = jt[s]
  OBVIOUS
<1>3. Cardinality(s) \in Nat
  BY FS_Subset, FS_CardinalityType
<1> QED
  BY <1>2, <1>3

AreSums(f, S, it) ==
    /\ Sums(f, S, it)
    /\ \A s \in SUBSET S : it[s] \in Int /\ SumFunctionOnSet(f, s) = it[s]

\* The sum over a subset is what the fold over the set computes for it.
LEMMA SumIs ==
  ASSUME NEW S, IsFiniteSet(S), NEW f, \A x \in S : f[x] \in Int
  PROVE  \E it : AreSums(f, S, it)
<1>1. PICK it : Sums(f, S, it) /\ \A s \in SUBSET S : it[s] \in Int
  BY SumsExist
<1>2. ASSUME NEW s \in SUBSET S PROVE SumFunctionOnSet(f, s) = it[s]
  <2>1. IsFiniteSet(s) /\ \A x \in s : f[x] \in Int
    BY FS_Subset
  <2>2. PICK jt : Sums(f, s, jt)
    BY <2>1, SumsExist
  <2>3. PICK kt : kt = (CHOOSE g : Sums(f, s, g))
    OBVIOUS
  <2>4. Sums(f, s, kt)
    BY <2>2, <2>3
  <2>5. SumFunctionOnSet(f, s) = kt[s]
    BY <2>3 DEF SumFunctionOnSet, FoldFunctionOnSet, MapThenFoldSet, Sums
  <2>6. it[s] = kt[s]
    BY <1>1, <2>4, SumsAlike
  <2> QED
    BY <2>5, <2>6
<1> QED
  BY <1>1, <1>2 DEF AreSums

\* A sum with one element taken out, whichever it is.
LEMMA SumTakes ==
  ASSUME NEW S, IsFiniteSet(S), NEW f, \A x \in S : f[x] \in Int
  PROVE  /\ SumFunctionOnSet(f, S) \in Int
         /\ SumFunctionOnSet(f, {}) = 0
         /\ \A x \in S : SumFunctionOnSet(f, S) = f[x] + SumFunctionOnSet(f, S \ {x})
<1>1. PICK it : AreSums(f, S, it)
  BY SumIs
<1> DEFINE P == {n \in Nat : \A s \in SUBSET S : Cardinality(s) = n => \A x \in s : it[s] = f[x] + it[s \ {x}]}
<1>2. ASSUME NEW n \in Nat, \A m \in 0 .. (n - 1) : m \in P PROVE n \in P
  <2> SUFFICES ASSUME NEW s \in SUBSET S, Cardinality(s) = n, NEW x \in s PROVE it[s] = f[x] + it[s \ {x}]
    OBVIOUS
  <2>1. PICK c : c = (CHOOSE y \in s : TRUE)
    OBVIOUS
  <2>2. c \in s /\ it[s] = f[c] + it[s \ {c}]
    BY <1>1, <2>1 DEF Sums, AreSums
  <2>3. CASE x = c
    BY <2>2, <2>3
  <2>4. CASE x # c
    <3>1. PICK a, b, d : a = s \ {c} /\ b = s \ {x} /\ d = (s \ {c}) \ {x}
      OBVIOUS
    <3>2. a \in SUBSET S /\ b \in SUBSET S /\ d \in SUBSET S /\ x \in a /\ c \in b /\ d = a \ {x} /\ d = b \ {c}
      BY <2>2, <2>4, <3>1
    <3>3. Cardinality(a) \in 0 .. (n - 1) /\ Cardinality(b) \in 0 .. (n - 1)
      BY <2>2, <3>1, SmallerSubset
    <3>4. it[a] = f[x] + it[d] /\ it[b] = f[c] + it[d]
      <4>1. Cardinality(a) \in P /\ Cardinality(b) \in P
        BY <1>2, <3>3
      <4>2. it[a] = f[x] + it[a \ {x}]
        BY <4>1, <3>2
      <4>3. it[b] = f[c] + it[b \ {c}]
        BY <4>1, <3>2
      <4> QED
        BY <4>2, <4>3, <3>2
    <3>5. f[x] \in Int /\ f[c] \in Int /\ it[d] \in Int
      BY <1>1, <2>2, <3>2 DEF AreSums
    <3> QED
      BY <2>2, <3>1, <3>4, <3>5
  <2> QED
    BY <2>3, <2>4
<1>3. \A n \in Nat : n \in P
  <2> HIDE DEF P
  <2> QED
    BY <1>2, AllBelow
<1>4. Cardinality(S) \in Nat /\ S \in SUBSET S /\ {} \in SUBSET S /\ \A x \in S : S \ {x} \in SUBSET S
  BY FS_CardinalityType
<1>5. it[{}] = 0
  BY <1>1, <1>4 DEF Sums, AreSums
<1> QED
  BY <1>1, <1>3, <1>4, <1>5 DEF AreSums

\* Two functions that agree have one sum.
LEMMA SumAlike ==
  ASSUME NEW S, IsFiniteSet(S), NEW f, NEW g, \A x \in S : f[x] \in Int /\ g[x] = f[x]
  PROVE  SumFunctionOnSet(f, S) = SumFunctionOnSet(g, S)
<1>1. PICK it : AreSums(f, S, it)
  BY SumIs
<1>2. \A x \in S : g[x] \in Int
  OBVIOUS
<1>3. PICK jt : AreSums(g, S, jt)
  BY <1>2, SumIs
<1>4. Sums(f, S, jt)
  <2>1. \A s \in SUBSET S : s # {} => (CHOOSE x \in s : TRUE) \in S
    OBVIOUS
  <2> QED
    BY <1>3, <2>1 DEF Sums, AreSums
<1>5. \A s \in SUBSET S : it[s] = jt[s]
  <2>1. Sums(f, S, it)
    BY <1>1 DEF AreSums
  <2> QED
    BY ONLY <2>1, <1>4, IsFiniteSet(S), SumsAlike
<1> QED
  BY <1>1, <1>3, <1>5 DEF AreSums

\* Two functions that differ in one argument.
LEMMA SumChanges ==
  ASSUME NEW S, IsFiniteSet(S), NEW f, NEW g, NEW x \in S,
         \A y \in S : f[y] \in Int /\ g[y] \in Int, \A y \in S \ {x} : g[y] = f[y]
  PROVE  SumFunctionOnSet(g, S) = SumFunctionOnSet(f, S) + g[x] - f[x]
<1>1. PICK T : T = S \ {x}
  OBVIOUS
<1>2. IsFiniteSet(T) /\ \A y \in T : f[y] \in Int /\ g[y] = f[y]
  BY <1>1, FS_Subset
<1>3. SumFunctionOnSet(f, T) = SumFunctionOnSet(g, T) /\ SumFunctionOnSet(f, T) \in Int
  BY <1>2, SumAlike, SumTakes
<1>4. SumFunctionOnSet(f, S) = f[x] + SumFunctionOnSet(f, T) /\ SumFunctionOnSet(g, S) = g[x] + SumFunctionOnSet(g, T)
  BY <1>1, SumTakes
<1>5. f[x] \in Int /\ g[x] \in Int
  OBVIOUS
<1> QED
  BY <1>3, <1>4, <1>5

\* What is 0 adds nothing.
LEMMA SumSkips ==
  ASSUME NEW S, IsFiniteSet(S), NEW f, \A x \in S : f[x] \in Int,
         NEW T \in SUBSET S, \A x \in S \ T : f[x] = 0
  PROVE  SumFunctionOnSet(f, S) = SumFunctionOnSet(f, T)
<1>1. PICK it : AreSums(f, S, it)
  BY SumIs
<1> DEFINE P == {n \in Nat : \A s \in SUBSET S : T \subseteq s /\ Cardinality(s) = n => it[s] = it[T]}
<1>2. ASSUME NEW n \in Nat, \A m \in 0 .. (n - 1) : m \in P PROVE n \in P
  <2> SUFFICES ASSUME NEW s \in SUBSET S, T \subseteq s, Cardinality(s) = n PROVE it[s] = it[T]
    OBVIOUS
  <2>1. CASE s = T
    BY <2>1
  <2>2. CASE s # T
    <3>1. PICK x : x \in s \ T
      BY <2>2
    <3>2. s \ {x} \in SUBSET S /\ T \subseteq s \ {x} /\ Cardinality(s \ {x}) \in 0 .. (n - 1)
      BY <3>1, SmallerSubset
    <3>3. it[s \ {x}] = it[T]
      BY <1>2, <3>2
    <3>4. IsFiniteSet(s) /\ (\A y \in s : f[y] \in Int) /\ f[x] = 0
      BY <3>1, FS_Subset
    <3>5. SumFunctionOnSet(f, s) = f[x] + SumFunctionOnSet(f, s \ {x})
      BY <3>1, <3>4, SumTakes
    <3>6. IsFiniteSet(s \ {x}) /\ (\A y \in s \ {x} : f[y] \in Int)
      BY <3>2, FS_Subset
    <3>7. SumFunctionOnSet(f, s \ {x}) \in Int
      BY <3>6, SumTakes
    <3> QED
      BY <1>1, <3>2, <3>3, <3>4, <3>5, <3>7 DEF AreSums
  <2> QED
    BY <2>1, <2>2
<1>3. \A n \in Nat : n \in P
  <2> HIDE DEF P
  <2> QED
    BY <1>2, AllBelow
<1>4. Cardinality(S) \in Nat /\ S \in SUBSET S /\ T \in SUBSET S
  BY FS_CardinalityType
<1> QED
  BY <1>1, <1>3, <1>4 DEF AreSums


-----------------------------------------------------------------------------
(* Snapshot maps and items of VotingPower.                                 *)

Some(V) == {<<>>} \cup {<<v>> : v \in V}
Values(V) == Some(V) \cup {Removed}
Clean(x) == IF Exists(x) THEN x ELSE <<>>

\* A snapshot whose changes were made up to block b, at most one a block.
IsSnap(V, s, b) ==
    /\ s \in [value : Values(V), log : Seq([height : 1 .. b, old : Values(V)])]
    /\ \A i, j \in DOMAIN s.log : s.log[i].height = s.log[j].height => i = j

\* The first entry of a changelog at or after a height.
IsFirst(s, h, i) ==
    /\ i \in DOMAIN s.log /\ s.log[i].height >= h
    /\ \A j \in DOMAIN s.log : s.log[j].height >= h => s.log[i].height <= s.log[j].height

LEMMA EntriesOf ==
  ASSUME NEW R, NEW q \in Seq(R)
  PROVE  DOMAIN q = 1 .. Len(q) /\ Len(q) \in Nat /\ \A i \in DOMAIN q : q[i] \in R
  BY ElementOfSeq

LEMMA LogIs ==
  ASSUME NEW V, NEW b, NEW s, IsSnap(V, s, b)
  PROVE  /\ s = [value |-> s.value, log |-> s.log] /\ s.value \in Values(V)
         /\ s.log \in Seq([height : 1 .. b, old : Values(V)])
         /\ DOMAIN s.log = 1 .. Len(s.log) /\ Len(s.log) \in Nat
         /\ \A i \in DOMAIN s.log : /\ s.log[i] \in [height : 1 .. b, old : Values(V)]
                                    /\ s.log[i].height \in 1 .. b /\ s.log[i].old \in Values(V)
         /\ \A i, j \in DOMAIN s.log : s.log[i].height = s.log[j].height => i = j
<1> DEFINE R == [height : 1 .. b, old : Values(V)]
<1>1. s \in [value : Values(V), log : Seq(R)]
  BY DEF IsSnap
<1> HIDE DEF R
<1>2. s = [value |-> s.value, log |-> s.log] /\ s.value \in Values(V) /\ s.log \in Seq(R)
  BY <1>1
<1>3. DOMAIN s.log = 1 .. Len(s.log) /\ Len(s.log) \in Nat /\ \A i \in DOMAIN s.log : s.log[i] \in R
  BY <1>2, EntriesOf
<1>4. \A i \in DOMAIN s.log : s.log[i].height \in 1 .. b /\ s.log[i].old \in Values(V)
  BY <1>3 DEF R
<1>5. \A i, j \in DOMAIN s.log : s.log[i].height = s.log[j].height => i = j
  BY DEF IsSnap
<1> QED
  BY <1>2, <1>3, <1>4, <1>5 DEF R

LEMMA CleanIs ==
  ASSUME NEW V, NEW x \in Values(V)
  PROVE  Clean(x) \in Some(V) /\ (x # Removed => Clean(x) = x)
<1>1. CASE x = <<>>
  BY <1>1 DEF Clean, Exists, Some, Removed
<1>2. CASE x = Removed
  <2>1. Len(x) # 1
    BY <1>2 DEF Removed
  <2> QED
    BY <1>2, <2>1 DEF Clean, Exists, Some
<1>3. ASSUME NEW v \in V, x = <<v>> PROVE Clean(x) \in Some(V) /\ (x # Removed => Clean(x) = x)
  BY <1>3 DEF Clean, Exists, Some
<1> QED
  BY <1>1, <1>2, <1>3 DEF Values, Some

\* There is a first entry, or all are before.
LEMMA FirstExists ==
  ASSUME NEW V, NEW b \in Nat, NEW s, IsSnap(V, s, b), NEW h \in Nat
  PROVE  (\A i \in DOMAIN s.log : s.log[i].height < h) \/ \E i \in DOMAIN s.log : IsFirst(s, h, i)
<1>0. \A i \in DOMAIN s.log : s.log[i].height \in 1 .. b
  BY LogIs
<1>1. \A i \in DOMAIN s.log : s.log[i].height \in Nat
  BY <1>0
<1> SUFFICES ASSUME NEW k \in DOMAIN s.log, ~(s.log[k].height < h)
             PROVE  \E i \in DOMAIN s.log : IsFirst(s, h, i)
  OBVIOUS
<1> DEFINE T == {n \in Nat : n >= h /\ \E i \in DOMAIN s.log : s.log[i].height = n}
<1>2. s.log[k].height \in T
  BY <1>1
<1> HIDE DEF T
<1>3. T \in SUBSET Nat /\ T # {}
  BY <1>2 DEF T
<1>4. PICK n \in T : \A l \in T : n <= l
  BY <1>3, LeastOf
<1>5. PICK i \in DOMAIN s.log : s.log[i].height = n /\ n >= h
  BY <1>4 DEF T
<1>6. \A j \in DOMAIN s.log : s.log[j].height >= h => s.log[j].height \in T
  BY <1>1 DEF T
<1> QED
  BY <1>4, <1>5, <1>6 DEF IsFirst

\* What a snapshot has at a height: the value before the first entry at or after
\* it, or else the current one.
LEMMA LoadIsFirst ==
  ASSUME NEW V, NEW b \in Nat, NEW s, IsSnap(V, s, b), NEW h \in Nat, NEW i, IsFirst(s, h, i)
  PROVE  mayLoadAtHeight(s, h) = Clean(s.log[i].old)
<1> DEFINE since == {k \in DOMAIN s.log : s.log[k].height >= h}
           c == CHOOSE k \in since : \A j \in since : s.log[k].height <= s.log[j].height
<1>1. i \in since /\ \A j \in since : s.log[i].height <= s.log[j].height
  BY DEF IsFirst
<1>2. c \in since /\ \A j \in since : s.log[c].height <= s.log[j].height
  BY <1>1
<1>0. \A k \in DOMAIN s.log : s.log[k].height \in 1 .. b
  BY LogIs
<1>3. \A k \in DOMAIN s.log : s.log[k].height \in Nat
  BY <1>0
<1>4. s.log[c].height = s.log[i].height
  BY <1>1, <1>2, <1>3
<1>5. c = i
  BY <1>1, <1>2, <1>4 DEF IsSnap
<1>6. snapshotMayLoad(s, h) = <<s.log[i].old>>
  BY <1>1, <1>5 DEF snapshotMayLoad
<1> QED
  BY <1>6 DEF mayLoadAtHeight, Clean

LEMMA LoadIsNow ==
  ASSUME NEW s, NEW h, \A i \in DOMAIN s.log : ~(s.log[i].height >= h)
  PROVE  mayLoadAtHeight(s, h) = Cur(s)
<1>1. snapshotMayLoad(s, h) = <<>>
  BY DEF snapshotMayLoad
<1> QED
  BY <1>1 DEF mayLoadAtHeight

\* After the last change it is the current value.
LEMMA LoadAfter ==
  ASSUME NEW V, NEW b \in Nat, NEW s, IsSnap(V, s, b), NEW h \in Nat, h > b
  PROVE  mayLoadAtHeight(s, h) = Cur(s)
<1>1. \A i \in DOMAIN s.log : s.log[i].height \in 1 .. b
  BY LogIs
<1> QED
  BY <1>1, LoadIsNow

LEMMA LoadTyped ==
  ASSUME NEW V, NEW b \in Nat, NEW s, IsSnap(V, s, b)
  PROVE  /\ Cur(s) \in Some(V) /\ Cur(s) = Clean(s.value)
         /\ \A h \in Nat : mayLoadAtHeight(s, h) \in Some(V)
<1>1. Cur(s) = Clean(s.value)
  BY DEF Cur, Clean
<1>0. s.value \in Values(V) /\ \A i \in DOMAIN s.log : s.log[i].old \in Values(V) /\ s.log[i].height \in 1 .. b
  BY LogIs
<1>2. s.value \in Values(V) /\ \A i \in DOMAIN s.log : s.log[i].old \in Values(V) /\ s.log[i].height \in Nat
  BY <1>0
<1>3. Cur(s) \in Some(V)
  BY <1>1, <1>2, CleanIs
<1>4. ASSUME NEW h \in Nat PROVE mayLoadAtHeight(s, h) \in Some(V)
  <2>1. CASE \A i \in DOMAIN s.log : s.log[i].height < h
    BY <1>2, <1>3, <2>1, LoadIsNow
  <2>2. ASSUME NEW i \in DOMAIN s.log, IsFirst(s, h, i) PROVE mayLoadAtHeight(s, h) \in Some(V)
    BY <1>2, <2>2, LoadIsFirst, CleanIs
  <2> QED
    BY <2>1, <2>2, FirstExists
<1> QED
  BY <1>1, <1>3, <1>4

LEMMA SnapGrows ==
  ASSUME NEW V, NEW W, V \subseteq W, NEW b \in Nat, NEW c \in Nat, b <= c, NEW s, IsSnap(V, s, b)
  PROVE  IsSnap(W, s, c)
<1>1. Values(V) \subseteq Values(W)
  BY DEF Values, Some
<1>2. s.log \in Seq([height : 1 .. b, old : Values(V)]) /\ s.value \in Values(V)
      /\ s = [value |-> s.value, log |-> s.log]
  BY LogIs
<1>3. s.log \in Seq([height : 1 .. c, old : Values(W)])
  <2>0. \A i \in 1 .. Len(s.log) : s.log[i] \in [height : 1 .. b, old : Values(V)]
    BY LogIs
  <2>1. \A i \in 1 .. Len(s.log) : s.log[i] \in [height : 1 .. c, old : Values(W)]
    BY <1>1, <2>0
  <2>2. s.log = [i \in 1 .. Len(s.log) |-> s.log[i]] /\ Len(s.log) \in Nat
    BY <1>2
  <2> DEFINE n == Len(s.log)
             R == [height : 1 .. c, old : Values(W)]
  <2> HIDE DEF R
  <2>3. \A i \in 1 .. Len(s.log) : s.log[i] \in R
    BY <2>1 DEF R
  <2>4. s.log \in Seq(R)
    BY <2>2, <2>3
  <2> QED
    BY <2>4 DEF R
<1>4. s \in [value : Values(W), log : Seq([height : 1 .. c, old : Values(W)])]
  BY <1>1, <1>2, <1>3
<1> QED
  BY <1>4, LogIs DEF IsSnap

\* A change keeps what there was at every height up to its block.
LEMMA SnapSaved ==
  ASSUME NEW V, block \in Nat \ {0}, NEW s, IsSnap(V, s, block), NEW v \in Values(V),
         NEW t, t = Save(s, v)
  PROVE  /\ IsSnap(V, t, block) /\ Cur(t) = Clean(v) /\ t.value = v
         /\ \A h \in Nat : h <= block => mayLoadAtHeight(t, h) = mayLoadAtHeight(s, h)
         /\ \E i \in DOMAIN t.log : t.log[i].height = block
<1> DEFINE L == Seq([height : 1 .. block, old : Values(V)])
<1>1. /\ s.log \in L /\ s.value \in Values(V)
      /\ \A i \in DOMAIN s.log : s.log[i].old \in Values(V) /\ s.log[i].height \in 1 .. block
      /\ \A i, j \in DOMAIN s.log : s.log[i].height = s.log[j].height => i = j
  BY LogIs
<1>2. t.value = v /\ Cur(t) = Clean(v)
  BY DEF Save, Cur, Clean
<1>3. CASE \E i \in DOMAIN s.log : s.log[i].height = block
  <2>1. t = [value |-> v, log |-> s.log] /\ t.log = s.log
    BY <1>3 DEF Save
  <2>2. IsSnap(V, t, block)
    BY <1>1, <2>1 DEF IsSnap
  <2>3. ASSUME NEW h \in Nat, h <= block PROVE mayLoadAtHeight(t, h) = mayLoadAtHeight(s, h)
    <3>1. ~(\A i \in DOMAIN s.log : s.log[i].height < h)
      BY <1>1, <1>3, <2>3
    <3>2. PICK i \in DOMAIN s.log : IsFirst(s, h, i)
      BY <3>1, FirstExists
    <3>3. IsFirst(t, h, i)
      BY <2>1, <3>2 DEF IsFirst
    <3> QED
      BY <2>1, <2>2, <3>2, <3>3, LoadIsFirst
  <2> QED
    BY <1>2, <1>3, <2>1, <2>2, <2>3
<1>4. CASE ~\E i \in DOMAIN s.log : s.log[i].height = block
  <2> DEFINE n == Len(s.log)
             e == [height |-> block, old |-> s.value]
  <2>1. t = [value |-> v, log |-> Append(s.log, e)] /\ t.log = Append(s.log, e)
    BY <1>4 DEF Save
  <2>2. e \in [height : 1 .. block, old : Values(V)]
    BY <1>1
  <2>3. /\ n \in Nat /\ DOMAIN s.log = 1 .. n
        /\ t.log \in L /\ DOMAIN t.log = 1 .. (n + 1)
        /\ \A i \in 1 .. n : t.log[i] = s.log[i]
        /\ t.log[n + 1] = e /\ t.log[n + 1].height = block /\ t.log[n + 1].old = s.value
    BY <1>1, <2>1, <2>2
  <2>4. t \in [value : Values(V), log : L]
    BY <2>1, <2>3
  <2> HIDE DEF n, e
  <2>5. IsSnap(V, t, block)
    <3> SUFFICES ASSUME NEW i \in DOMAIN t.log, NEW j \in DOMAIN t.log, t.log[i].height = t.log[j].height
                 PROVE  i = j
      BY <2>4 DEF IsSnap
    <3>1. (i \in 1 .. n \/ i = n + 1) /\ (j \in 1 .. n \/ j = n + 1)
      BY <2>3
    <3>2. CASE i \in 1 .. n /\ j \in 1 .. n
      BY <1>1, <2>3, <3>2
    <3>3. CASE i = n + 1 /\ j \in 1 .. n
      BY <1>4, <2>3, <3>3
    <3>4. CASE j = n + 1 /\ i \in 1 .. n
      BY <1>4, <2>3, <3>4
    <3> QED
      BY <3>1, <3>2, <3>3, <3>4
  <2>6. ASSUME NEW h \in Nat, h <= block PROVE mayLoadAtHeight(t, h) = mayLoadAtHeight(s, h)
    <3>1. CASE \A i \in DOMAIN s.log : s.log[i].height < h
      <4>1. IsFirst(t, h, n + 1)
        <5> SUFFICES ASSUME NEW j \in DOMAIN t.log, t.log[j].height >= h
                     PROVE  t.log[n + 1].height <= t.log[j].height
          BY <2>3, <2>6 DEF IsFirst
        <5>1. CASE j = n + 1
          BY <2>3, <5>1
        <5>2. CASE j \in 1 .. n
          <6>1. s.log[j].height \in Nat /\ s.log[j].height < h /\ s.log[j].height >= h
            BY <1>1, <2>3, <3>1, <5>2
          <6> QED
            BY <6>1
        <5> QED
          BY <2>3, <5>1, <5>2
      <4>2. mayLoadAtHeight(t, h) = Clean(s.value)
        BY <2>3, <2>5, <4>1, LoadIsFirst
      <4>3. \A i \in DOMAIN s.log : ~(s.log[i].height >= h)
        BY <1>1, <3>1
      <4>4. mayLoadAtHeight(s, h) = Cur(s)
        BY <4>3, LoadIsNow
      <4> QED
        BY <4>2, <4>4 DEF Cur, Clean
    <3>2. ASSUME NEW i \in DOMAIN s.log, IsFirst(s, h, i)
          PROVE  mayLoadAtHeight(t, h) = mayLoadAtHeight(s, h)
      <4>1. i \in 1 .. n /\ t.log[i] = s.log[i] /\ s.log[i].height \in 1 .. block
        BY <1>1, <2>3
      <4>2. IsFirst(t, h, i)
        <5> SUFFICES ASSUME NEW j \in DOMAIN t.log, t.log[j].height >= h
                     PROVE  t.log[i].height <= t.log[j].height
          BY <2>3, <3>2, <4>1 DEF IsFirst
        <5>1. CASE j = n + 1
          BY <2>3, <4>1, <5>1
        <5>2. CASE j \in 1 .. n
          BY <2>3, <3>2, <4>1, <5>2 DEF IsFirst
        <5> QED
          BY <2>3, <5>1, <5>2
      <4> QED
        BY <2>5, <3>2, <4>1, <4>2, LoadIsFirst
    <3> QED
      BY <3>1, <3>2, FirstExists
  <2>7. \E i \in DOMAIN t.log : t.log[i].height = block
    <3>1. n + 1 \in DOMAIN t.log
      BY <2>3
    <3> QED
      BY <2>3, <3>1
  <2> QED
    BY <1>2, <2>5, <2>6, <2>7
<1> QED
  BY <1>3, <1>4

-----------------------------------------------------------------------------
(* Wormholes of VotingPower.                                               *)

IsHole(W) ==
    /\ W \subseteq [height : Nat \ {0}, value : Int]
    /\ \A e, f \in W : e.height = f.height => e = f

\* The last entry not after a height.
IsLast(W, x, e) ==
    /\ e \in W /\ e.height <= x
    /\ \A f \in W : f.height <= x => f.height <= e.height

LEMMA LastExists ==
  ASSUME NEW W, IsHole(W), NEW x \in Nat
  PROVE  (\A e \in W : ~(e.height <= x)) \/ \E e \in W : IsLast(W, x, e)
<1> SUFFICES ASSUME NEW e0 \in W, e0.height <= x PROVE \E e \in W : IsLast(W, x, e)
  OBVIOUS
<1>1. \A e \in W : e.height \in Nat \ {0}
  BY DEF IsHole
<1> DEFINE T == {n \in 1 .. x : \E e \in W : e.height = n}
<1>2. e0.height \in T
  BY <1>1
<1>3. \A e \in W : e.height <= x => e.height \in T
  BY <1>1
<1>4. \A n \in T : \E e \in W : e.height = n /\ n <= x
  OBVIOUS
<1>5. T \in SUBSET (1 .. x) /\ T # {}
  BY <1>2
<1> HIDE DEF T
<1>6. Max(T) \in T /\ \A k \in T : k <= Max(T)
  BY <1>5, MaxIs
<1>7. PICK e \in W : e.height = Max(T) /\ Max(T) <= x
  BY <1>4, <1>6
<1> QED
  BY <1>3, <1>6, <1>7 DEF IsLast

LEMMA HoleIsLast ==
  ASSUME NEW W, IsHole(W), NEW x \in Nat, NEW e, IsLast(W, x, e)
  PROVE  OrZero(wormholeLoad(W, x)) = e.value
<1> DEFINE upTo == {f \in W : f.height <= x}
           c == CHOOSE g \in upTo : \A f \in upTo : f.height <= g.height
<1>1. e \in upTo /\ \A f \in upTo : f.height <= e.height
  BY DEF IsLast
<1>2. c \in upTo /\ \A f \in upTo : f.height <= c.height
  BY <1>1
<1>3. c.height = e.height
  <2>1. c.height \in Nat /\ e.height \in Nat
    BY <1>1, <1>2 DEF IsHole
  <2> QED
    BY <1>1, <1>2, <2>1
<1>4. c = e
  BY <1>1, <1>2, <1>3 DEF IsHole
<1>5. wormholeLoad(W, x) = <<e.value>>
  BY <1>1, <1>4 DEF wormholeLoad
<1>6. <<e.value>> # <<>> /\ <<e.value>>[1] = e.value
  OBVIOUS
<1> QED
  BY <1>5, <1>6 DEF OrZero

LEMMA HoleIsEmpty ==
  ASSUME NEW W, NEW x, \A e \in W : ~(e.height <= x)
  PROVE  OrZero(wormholeLoad(W, x)) = 0
BY DEF OrZero, wormholeLoad

LEMMA HoleIsInt ==
  ASSUME NEW W, IsHole(W), NEW x \in Nat
  PROVE  OrZero(wormholeLoad(W, x)) \in Int
<1>1. CASE \A e \in W : ~(e.height <= x)
  BY <1>1, HoleIsEmpty
<1>2. ASSUME NEW e \in W, IsLast(W, x, e) PROVE OrZero(wormholeLoad(W, x)) \in Int
  <2>1. e.value \in Int
    BY DEF IsHole
  <2> QED
    BY <1>2, <2>1, HoleIsLast
<1> QED
  BY <1>1, <1>2, LastExists

\* The entries after something is added from a height on.
LEMMA AddHas ==
  ASSUME NEW W, IsHole(W), NEW h \in Nat \ {0}, NEW n \in Int, NEW A, A = Add(W, h, n),
         NEW at, at = OrZero(wormholeLoad(W, h))
  PROVE  /\ IsHole(A)
         /\ \A e \in W : e.height < h => e \in A
         /\ \A e \in W : e.height > h => [height |-> e.height, value |-> e.value + n] \in A
         /\ [height |-> h, value |-> at + n] \in A
         /\ \A a \in A : \/ a \in W /\ a.height < h
                         \/ a = [height |-> h, value |-> at + n]
                         \/ a.height > h /\ \E e \in W : e.height = a.height
<1>1. at \in Int
  BY HoleIsInt
<1>2. \A e \in W : e = [height |-> e.height, value |-> e.value] /\ e.height \in Nat \ {0} /\ e.value \in Int
  BY DEF IsHole
<1>3. A = {IF e.height > h THEN [e EXCEPT !.value = e.value + n] ELSE e : e \in {x \in W : x.height # h}}
              \cup {[height |-> h, value |-> at + n]}
  BY DEF Add
<1>4. \A e \in W : [e EXCEPT !.value = e.value + n] = [height |-> e.height, value |-> e.value + n]
  BY <1>2
<1>5. \A e \in W : e.height < h => e \in A
  BY <1>2, <1>3
<1>6. \A e \in W : e.height > h => [height |-> e.height, value |-> e.value + n] \in A
  BY <1>2, <1>3, <1>4
<1>7. [height |-> h, value |-> at + n] \in A
  BY <1>3
<1>8. ASSUME NEW a \in A
      PROVE  \/ a \in W /\ a.height < h
             \/ a = [height |-> h, value |-> at + n]
             \/ \E e \in W : a = [height |-> e.height, value |-> e.value + n] /\ e.height > h
  <2>1. CASE a = [height |-> h, value |-> at + n]
    BY <2>1
  <2>2. CASE a # [height |-> h, value |-> at + n]
    <3>1. PICK e \in W : e.height # h /\ a = IF e.height > h THEN [e EXCEPT !.value = e.value + n] ELSE e
      BY <1>3, <2>2
    <3>2. CASE e.height > h
      BY <1>4, <3>1, <3>2
    <3>3. CASE ~(e.height > h)
      BY <1>2, <3>1, <3>3
    <3> QED
      BY <3>2, <3>3
  <2> QED
    BY <2>1, <2>2
<1>9. \A a \in A : a \in [height : Nat \ {0}, value : Int]
  <2> SUFFICES ASSUME NEW a \in A PROVE a \in [height : Nat \ {0}, value : Int]
    OBVIOUS
  <2>1. CASE a \in W
    BY <2>1 DEF IsHole
  <2>2. CASE a = [height |-> h, value |-> at + n]
    BY <1>1, <2>2
  <2>3. ASSUME NEW e \in W, a = [height |-> e.height, value |-> e.value + n]
        PROVE  a \in [height : Nat \ {0}, value : Int]
    BY <1>2, <2>3
  <2> QED
    BY <1>8, <2>1, <2>2, <2>3
<1>10. ASSUME NEW a \in A, NEW b \in A, a.height = b.height PROVE a = b
  <2>1. CASE a.height < h
    <3>1. a \in W /\ b \in W
      BY <1>8, <1>10, <1>2, <2>1
    <3> QED
      BY <1>10, <3>1 DEF IsHole
  <2>2. CASE a.height = h
    <3>1. \A c \in A : c.height = h => c = [height |-> h, value |-> at + n]
      <4> SUFFICES ASSUME NEW c \in A, c.height = h PROVE c = [height |-> h, value |-> at + n]
        OBVIOUS
      <4>1. ~(c.height < h)
        OBVIOUS
      <4>2. ~\E e \in W : c = [height |-> e.height, value |-> e.value + n] /\ e.height > h
        BY <1>2
      <4> QED
        BY <1>8, <4>1, <4>2
    <3>2. b.height = h
      BY <1>10, <2>2
    <3> QED
      BY <2>2, <3>1, <3>2
  <2>3. CASE a.height > h
    <3>1. PICK e \in W : a = [height |-> e.height, value |-> e.value + n]
      BY <1>8, <1>2, <2>3
    <3>2. PICK f \in W : b = [height |-> f.height, value |-> f.value + n]
      BY <1>8, <1>10, <1>2, <2>3
    <3>3. e.height = f.height
      BY <1>10, <3>1, <3>2
    <3>4. e = f
      BY <3>3 DEF IsHole
    <3> QED
      BY <3>1, <3>2, <3>4
  <2>4. a.height \in Nat
    BY <1>9
  <2> QED
    BY <2>1, <2>2, <2>3, <2>4
<1>11. IsHole(A)
  BY <1>9, <1>10 DEF IsHole
<1>12. ASSUME NEW a \in A
       PROVE  \/ a \in W /\ a.height < h
              \/ a = [height |-> h, value |-> at + n]
              \/ a.height > h /\ \E e \in W : e.height = a.height
  BY <1>8
<1> QED
  BY <1>5, <1>6, <1>7, <1>11, <1>12

\* Adding from a height on adds at that height and every later one.
LEMMA AddIs ==
  ASSUME NEW W, IsHole(W), NEW h \in Nat \ {0}, NEW n \in Int, NEW A, A = Add(W, h, n)
  PROVE  /\ IsHole(A)
         /\ \A x \in Nat : OrZero(wormholeLoad(A, x)) = OrZero(wormholeLoad(W, x)) + IF x >= h THEN n ELSE 0
<1> DEFINE at == OrZero(wormholeLoad(W, h))
           N == [height |-> h, value |-> at + n]
<1>1. /\ IsHole(A)
      /\ \A e \in W : e.height < h => e \in A
      /\ \A e \in W : e.height > h => [height |-> e.height, value |-> e.value + n] \in A
      /\ N \in A
      /\ \A a \in A : \/ a \in W /\ a.height < h
                      \/ a = N
                      \/ a.height > h /\ \E e \in W : e.height = a.height
  BY AddHas
<1>2. N.height = h /\ N.value = at + n /\ at \in Int
  BY HoleIsInt
<1> HIDE DEF at, N
<1>3. \A e \in W : e.height \in Nat /\ e.value \in Int
  BY DEF IsHole
<1>4. \A a \in A : a.height \in Nat /\ a.value \in Int
  BY <1>1 DEF IsHole
<1> SUFFICES ASSUME NEW x \in Nat
             PROVE  OrZero(wormholeLoad(A, x)) = OrZero(wormholeLoad(W, x)) + IF x >= h THEN n ELSE 0
  BY <1>1
<1>5. OrZero(wormholeLoad(W, x)) \in Int
  BY HoleIsInt
<1>6. CASE \A e \in W : ~(e.height <= x)
  <2>1. OrZero(wormholeLoad(W, x)) = 0
    BY <1>6, HoleIsEmpty
  <2>2. CASE x < h
    <3>1. \A a \in A : ~(a.height <= x)
      BY <1>1, <1>2, <1>3, <1>6, <2>2, <1>4
    <3>2. OrZero(wormholeLoad(A, x)) = 0
      BY <3>1, HoleIsEmpty
    <3> QED
      BY <2>1, <2>2, <3>2
  <2>3. CASE x >= h
    <3>1. at = 0
      <4>1. \A e \in W : ~(e.height <= h)
        BY <1>3, <1>6, <2>3
      <4> QED
        BY <4>1, HoleIsEmpty DEF at
    <3>2. IsLast(A, x, N)
      <4> SUFFICES ASSUME NEW f \in A, f.height <= x PROVE f.height <= N.height
        BY <1>1, <1>2, <2>3 DEF IsLast
      <4> QED
        BY <1>1, <1>2, <1>3, <1>4, <1>6
    <3>3. OrZero(wormholeLoad(A, x)) = N.value
      BY <1>1, <3>2, HoleIsLast
    <3> QED
      BY <1>2, <2>1, <2>3, <3>1, <3>3
  <2> QED
    BY <2>2, <2>3
<1>7. ASSUME NEW e \in W, IsLast(W, x, e)
      PROVE  OrZero(wormholeLoad(A, x)) = OrZero(wormholeLoad(W, x)) + IF x >= h THEN n ELSE 0
  <2>1. OrZero(wormholeLoad(W, x)) = e.value /\ e.height \in Nat /\ e.value \in Int
    BY <1>3, <1>7, HoleIsLast
  <2>2. e.height <= x /\ \A f \in W : f.height <= x => f.height <= e.height
    BY <1>7 DEF IsLast
  <2>3. CASE x < h
    <3>1. e \in A
      BY <1>1, <2>1, <2>2, <2>3
    <3>2. \A f \in A : f.height <= x => f.height <= e.height
      <4> SUFFICES ASSUME NEW f \in A, f.height <= x PROVE f.height <= e.height
        OBVIOUS
      <4>1. f.height < h
        BY <1>4, <2>3
      <4>2. f \in W
        BY <1>1, <1>2, <1>4, <4>1
      <4> QED
        BY <2>2, <4>2
    <3>3. IsLast(A, x, e)
      BY <2>2, <3>1, <3>2 DEF IsLast
    <3>4. OrZero(wormholeLoad(A, x)) = e.value
      BY <1>1, <3>3, HoleIsLast
    <3> QED
      BY <2>1, <2>3, <3>4
  <2>4. CASE x >= h /\ e.height > h
    <3> DEFINE g == [height |-> e.height, value |-> e.value + n]
    <3>1. g \in A /\ g.height = e.height /\ g.value = e.value + n
      BY <1>1, <2>4
    <3> HIDE DEF g
    <3>2. \A f \in A : f.height <= x => f.height <= g.height
      <4> SUFFICES ASSUME NEW f \in A, f.height <= x PROVE f.height <= g.height
        OBVIOUS
      <4>1. CASE f.height > h
        <5>1. f # N
          BY <1>2, <4>1
        <5>2. PICK q \in W : q.height = f.height
          BY <1>1, <1>4, <4>1, <5>1
        <5> QED
          BY <2>2, <3>1, <5>2
      <4>2. CASE ~(f.height > h)
        BY <1>4, <2>1, <2>4, <3>1, <4>2
      <4> QED
        BY <4>1, <4>2
    <3>3. IsLast(A, x, g)
      BY <2>2, <3>1, <3>2 DEF IsLast
    <3>4. OrZero(wormholeLoad(A, x)) = g.value
      BY <1>1, <3>3, HoleIsLast
    <3> QED
      BY <2>1, <2>4, <3>1, <3>4
  <2>5. CASE x >= h /\ e.height <= h
    <3>1. IsLast(W, h, e)
      <4>1. \A f \in W : f.height <= h => f.height <= e.height
        BY <1>3, <2>2, <2>5
      <4> QED
        BY <2>5, <4>1 DEF IsLast
    <3>2. at = e.value
      BY <3>1, HoleIsLast DEF at
    <3>3. \A f \in A : f.height <= x => f.height <= N.height
      <4> SUFFICES ASSUME NEW f \in A, f.height <= x PROVE f.height <= N.height
        OBVIOUS
      <4>1. CASE f.height > h
        <5>1. f # N
          BY <1>2, <4>1
        <5>2. PICK q \in W : q.height = f.height
          BY <1>1, <1>4, <4>1, <5>1
        <5>3. q.height <= e.height /\ q.height \in Nat
          BY <1>3, <2>2, <5>2
        <5> QED
          BY <2>1, <2>5, <4>1, <5>2, <5>3
      <4>2. CASE ~(f.height > h)
        BY <1>2, <1>4, <4>2
      <4> QED
        BY <4>1, <4>2
    <3>4. IsLast(A, x, N)
      BY <1>1, <1>2, <2>5, <3>3 DEF IsLast
    <3>5. OrZero(wormholeLoad(A, x)) = N.value
      BY <1>1, <3>4, HoleIsLast
    <3> QED
      BY <1>2, <2>1, <2>5, <3>2, <3>5
  <2> QED
    BY <2>1, <2>3, <2>4, <2>5
<1> QED
  BY <1>6, <1>7, LastExists

-----------------------------------------------------------------------------
(* The invariant of VotingPower: what is indexed of each contract tells    *)
(* what it held at every height so far.                                    *)

PastAt == [balance : [Members -> Nat], delegate : SUBSET Delegates,
           active : [Members -> SUBSET Delegates], cap : Some(Caps)]
PastOK(p, b) == p \in Seq(PastAt) /\ Len(p) = b

StoreIs(st) == st = [balance |-> st.balance, delegate |-> st.delegate, active |-> st.active, cap |-> st.cap]

PowersOf(B, h) == [m \in Members |-> OrZero(mayLoadAtHeight(B[m], h))]

BalancesOK(B, b, p, st) ==
    /\ B = [k \in Members \cup {Total} |-> B[k]]
    /\ IsSnap(Int, B[Total], b) /\ \A m \in Members : IsSnap(Nat, B[m], b)
    /\ st => /\ \A m \in Members, h \in 1 .. b : OrZero(mayLoadAtHeight(B[m], h)) = p[h].balance[m]
             /\ \A h \in 1 .. b + 1 :
                    OrZero(mayLoadAtHeight(B[Total], h)) = SumFunctionOnSet(PowersOf(B, h), Members)
    /\ ~st => B[Total] = [value |-> <<Cardinality(Members)>>, log |-> <<>>]

DelegatesOK(D, b, p) ==
    /\ D = [d \in Delegates |-> D[d]]
    /\ \A d \in Delegates : IsSnap({TRUE}, D[d], b)
    /\ \A d \in Delegates, h \in 1 .. b : mayLoadAtHeight(D[d], h) # <<>> <=> d \in p[h].delegate

CapOK(C, b, p) == IsSnap(Caps, C, b) /\ \A h \in 1 .. b : mayLoadAtHeight(C, h) = p[h].cap

\* The delegations a member can have at a time: none, or one of those it made.
Made(q) == {{}} \cup {{i} : i \in [id : 1 .. Len(q), expiration : Nat, from : Nat]}
Live(x, h) == IF x = <<>> THEN {} ELSE {i \in x[1] : i.expiration > h}
At(A, M, m, h) == {M[m][i.id] : i \in Live(mayLoadAtHeight(A[m], h), h)}

\* The wormholes count the delegations at every height, later ones included.
Counts(A, M, W) ==
    /\ W = [d \in Delegates |-> W[d]] /\ \A d \in Delegates : IsHole(W[d])
    /\ \A d \in Delegates, h \in Nat \ {0} :
           OrZero(wormholeLoad(W[d], h)) = Cardinality({k \in Members : d \in At(A, M, k, h)})

DelegationsOK(A, M, W, b, p) ==
    /\ A = [m \in Members |-> A[m]] /\ M \in [Members -> Seq(Delegates)]
    /\ \A m \in Members : IsSnap(Made(M[m]), A[m], b)
    /\ \A m \in Members, h \in 1 .. b : At(A, M, m, h) = p[h].active[m]
    /\ Counts(A, M, W)

LeftOf(v, p, d) == {m \in Members \ v.voted : d \in p[v.opened].active[m]}

BallotOK(v, b, p, st) ==
    /\ v \in [opened : 0 .. b, voted : SUBSET Members, unvoted : [Delegates -> Some(Int)]]
    /\ v.opened = 0 => v.voted = {} /\ \A d \in Delegates : v.unvoted[d] = <<>>
    /\ v.opened # 0 => ~st
    /\ v.opened # 0 => \A d \in Delegates :
           IF v.unvoted[d] = <<>>
           THEN LeftOf(v, p, d) = {m \in Members : d \in p[v.opened].active[m]}
           ELSE v.unvoted[d] = <<Cardinality(LeftOf(v, p, d))>>

PowersInv ==
    /\ block \in Nat \ {0} /\ stakes \in BOOLEAN
    /\ PastOK(past, block) /\ StoreIs(store)
    /\ BalancesOK(store.balance, block, past, stakes)
    /\ DelegatesOK(store.delegate, block, past)
    /\ CapOK(store.cap, block, past)
    /\ DelegationsOK(store.active, made, delegated, block, past)
    /\ BallotOK(ballot, block, past, stakes)

-----------------------------------------------------------------------------
(* Stakes.                                                                 *)

LEMMA OrZeroIs ==
  /\ OrZero(<<>>) = 0
  /\ \A v : OrZero(<<v>>) = v
<1>1. \A v : <<v>> # <<>> /\ <<v>>[1] = v
  OBVIOUS
<1> QED
  BY <1>1 DEF OrZero

LEMMA OrZeroSome ==
  ASSUME NEW V, NEW x \in Some(V)
  PROVE  OrZero(x) \in V \cup {0} /\ (x = <<>> \/ x = <<OrZero(x)>>)
<1>1. CASE x = <<>>
  BY <1>1, OrZeroIs
<1>2. ASSUME NEW v \in V, x = <<v>> PROVE OrZero(x) \in V \cup {0} /\ (x = <<>> \/ x = <<OrZero(x)>>)
  <2>1. OrZero(x) = v
    BY <1>2, OrZeroIs
  <2> QED
    BY <1>2, <2>1
<1> QED
  BY <1>1, <1>2 DEF Some

\* The powers are numbers.
LEMMA PowersTyped ==
  ASSUME NEW B, NEW b \in Nat, NEW p, NEW st, BalancesOK(B, b, p, st)
  PROVE  /\ \A h \in Nat, m \in Members : OrZero(mayLoadAtHeight(B[m], h)) \in Nat
         /\ \A m \in Members : OrZero(Cur(B[m])) \in Nat
         /\ \A h \in Nat : OrZero(mayLoadAtHeight(B[Total], h)) \in Int
         /\ OrZero(Cur(B[Total])) \in Int
<1>1. ASSUME NEW m \in Members
      PROVE  OrZero(Cur(B[m])) \in Nat /\ \A h \in Nat : OrZero(mayLoadAtHeight(B[m], h)) \in Nat
  <2>1. IsSnap(Nat, B[m], b)
    BY DEF BalancesOK
  <2>2. Cur(B[m]) \in Some(Nat) /\ \A h \in Nat : mayLoadAtHeight(B[m], h) \in Some(Nat)
    BY <2>1, LoadTyped
  <2>3. \A x \in Some(Nat) : OrZero(x) \in Nat
    <3>1. \A x \in Some(Nat) : OrZero(x) \in Nat \cup {0}
      BY OrZeroSome
    <3> QED
      BY <3>1
  <2> QED
    BY <2>2, <2>3
<1>2. OrZero(Cur(B[Total])) \in Int /\ \A h \in Nat : OrZero(mayLoadAtHeight(B[Total], h)) \in Int
  <2>1. IsSnap(Int, B[Total], b)
    BY DEF BalancesOK
  <2>2. Cur(B[Total]) \in Some(Int) /\ \A h \in Nat : mayLoadAtHeight(B[Total], h) \in Some(Int)
    BY <2>1, LoadTyped
  <2>3. \A x \in Some(Int) : OrZero(x) \in Int
    <3>1. \A x \in Some(Int) : OrZero(x) \in Int \cup {0}
      BY OrZeroSome
    <3> QED
      BY <3>1
  <2> QED
    BY <2>2, <2>3
<1> QED
  BY <1>1, <1>2

\* A stake that changes.
LEMMA StakeKeeps ==
  ASSUME block \in Nat \ {0}, NEW B, NEW p, BalancesOK(B, block, p, TRUE),
         NEW m \in Members, NEW n \in Nat, NEW v, v = <<n>> \/ (n = 0 /\ v = Removed),
         NEW C, C = [B EXCEPT ![m] = Save(@, v),
                              ![Total] = Save(@, <<OrZero(Cur(B[Total])) + n - OrZero(Cur(B[m]))>>)]
  PROVE  BalancesOK(C, block, p, TRUE)
<1> DEFINE t == OrZero(Cur(B[Total])) + n - OrZero(Cur(B[m]))
<1>1. /\ B = [k \in Members \cup {Total} |-> B[k]]
      /\ IsSnap(Int, B[Total], block) /\ \A k \in Members : IsSnap(Nat, B[k], block)
      /\ \A k \in Members, h \in 1 .. block : OrZero(mayLoadAtHeight(B[k], h)) = p[h].balance[k]
      /\ \A h \in 1 .. block + 1 :
             OrZero(mayLoadAtHeight(B[Total], h)) = SumFunctionOnSet(PowersOf(B, h), Members)
  BY DEF BalancesOK
<1>2. t \in Int /\ \A k \in Members : OrZero(Cur(B[k])) \in Nat
  <2>1. block \in Nat /\ \A h \in 1 .. block : h \in Nat /\ h <= block
    OBVIOUS
  <2>2. OrZero(Cur(B[Total])) \in Int /\ \A k \in Members : OrZero(Cur(B[k])) \in Nat
    BY <2>1, PowersTyped
  <2> QED
    BY <2>2
<1>3. m # Total /\ \A k \in Members : k # Total
  BY VotingPowerAssumption DEF Total
<1>4. C[m] = Save(B[m], v) /\ C[Total] = Save(B[Total], <<t>>) /\ \A k \in Members \ {m} : C[k] = B[k]
  BY <1>1, <1>3
<1>5. C = [k \in Members \cup {Total} |-> C[k]]
  BY <1>1
<1> HIDE DEF t
<1>6. v \in Values(Nat) /\ <<t>> \in Values(Int) /\ OrZero(Clean(v)) = n /\ Clean(<<t>>) = <<t>>
  <2>1. v \in Values(Nat) /\ <<t>> \in Values(Int)
    BY <1>2 DEF Values, Some
  <2>2. Clean(<<t>>) = <<t>>
    BY DEF Clean, Exists
  <2>3. CASE v = <<n>>
    <3>1. Clean(v) = <<n>>
      BY <2>3 DEF Clean, Exists
    <3> QED
      BY <2>1, <2>2, <3>1, OrZeroIs
  <2>4. CASE n = 0 /\ v = Removed
    <3>1. Clean(v) = <<>>
      BY <2>4 DEF Clean, Exists, Removed
    <3> QED
      BY <2>1, <2>2, <2>4, <3>1, OrZeroIs
  <2> QED
    BY <2>3, <2>4
<1>7. /\ IsSnap(Nat, C[m], block) /\ OrZero(Cur(C[m])) = n
      /\ \A h \in Nat : h <= block => mayLoadAtHeight(C[m], h) = mayLoadAtHeight(B[m], h)
  BY <1>1, <1>4, <1>6, SnapSaved
<1>8. /\ IsSnap(Int, C[Total], block) /\ Cur(C[Total]) = <<t>>
      /\ \A h \in Nat : h <= block => mayLoadAtHeight(C[Total], h) = mayLoadAtHeight(B[Total], h)
  BY <1>1, <1>4, <1>6, SnapSaved
<1>9. \A k \in Members : IsSnap(Nat, C[k], block)
  BY <1>1, <1>4, <1>7
<1>10. \A k \in Members, h \in Nat : h <= block => mayLoadAtHeight(C[k], h) = mayLoadAtHeight(B[k], h)
  BY <1>4, <1>7
<1>11. \A k \in Members, h \in 1 .. block : OrZero(mayLoadAtHeight(C[k], h)) = p[h].balance[k]
  <2> SUFFICES ASSUME NEW k \in Members, NEW h \in 1 .. block
               PROVE  OrZero(mayLoadAtHeight(C[k], h)) = p[h].balance[k]
    OBVIOUS
  <2>1. h \in Nat /\ h <= block
    OBVIOUS
  <2> QED
    BY <1>1, <1>10, <2>1
<1>12. ASSUME NEW h \in 1 .. block + 1
       PROVE  OrZero(mayLoadAtHeight(C[Total], h)) = SumFunctionOnSet(PowersOf(C, h), Members)
  <2>1. CASE h <= block
    <3>0. h \in Nat
      OBVIOUS
    <3>1. \A k \in Members : mayLoadAtHeight(C[k], h) = mayLoadAtHeight(B[k], h)
      BY <1>10, <2>1, <3>0
    <3>2. PowersOf(C, h) = PowersOf(B, h)
      <4>1. [k \in Members |-> OrZero(mayLoadAtHeight(C[k], h))] = [k \in Members |-> OrZero(mayLoadAtHeight(B[k], h))]
        BY ONLY <3>1
      <4> QED
        BY <4>1 DEF PowersOf
    <3>3. mayLoadAtHeight(C[Total], h) = mayLoadAtHeight(B[Total], h)
      BY <1>8, <2>1, <3>0
    <3>4. OrZero(mayLoadAtHeight(B[Total], h)) = SumFunctionOnSet(PowersOf(B, h), Members)
      BY <1>1
    <3> QED
      BY <3>2, <3>3, <3>4
  <2>2. CASE h = block + 1
    <3>1. h \in Nat /\ h > block
      BY <2>2
    <3>2. \A k \in Members : mayLoadAtHeight(B[k], h) = Cur(B[k]) /\ mayLoadAtHeight(C[k], h) = Cur(C[k])
      <4> SUFFICES ASSUME NEW k \in Members
                   PROVE  mayLoadAtHeight(B[k], h) = Cur(B[k]) /\ mayLoadAtHeight(C[k], h) = Cur(C[k])
        OBVIOUS
      <4>1. IsSnap(Nat, B[k], block) /\ IsSnap(Nat, C[k], block)
        BY <1>1, <1>9
      <4> QED
        BY <3>1, <4>1, LoadAfter
    <3>3. mayLoadAtHeight(B[Total], h) = Cur(B[Total]) /\ mayLoadAtHeight(C[Total], h) = Cur(C[Total])
      BY <1>1, <1>8, <3>1, LoadAfter
    <3> DEFINE f == PowersOf(B, h)
               g == PowersOf(C, h)
    <3>4. /\ \A k \in Members : f[k] = OrZero(Cur(B[k])) /\ g[k] = OrZero(Cur(C[k]))
          /\ g[m] = n /\ \A k \in Members \ {m} : g[k] = f[k]
      <4>1. \A k \in Members : f[k] = OrZero(Cur(B[k])) /\ g[k] = OrZero(Cur(C[k]))
        BY <3>2 DEF PowersOf
      <4> HIDE DEF f, g
      <4>2. g[m] = n
        BY <1>7, <4>1
      <4>3. \A k \in Members \ {m} : g[k] = f[k]
        BY <1>4, <4>1
      <4> QED
        BY <4>1, <4>2, <4>3
    <3> HIDE DEF f, g
    <3>5. \A k \in Members : f[k] \in Int /\ g[k] \in Int
      <4>1. \A k \in Members : f[k] \in Nat
        BY <1>2, <3>4
      <4>2. \A k \in Members : g[k] \in Nat
        BY <3>4, <4>1
      <4> QED
        BY <4>1, <4>2
    <3>6. OrZero(Cur(B[Total])) = SumFunctionOnSet(f, Members)
      BY <1>1, <3>3 DEF f
    <3>7. SumFunctionOnSet(g, Members) = SumFunctionOnSet(f, Members) + g[m] - f[m]
      BY <3>4, <3>5, VotingPowerAssumption, SumChanges
    <3>8. SumFunctionOnSet(g, Members) = t
      BY <3>4, <3>6, <3>7 DEF t
    <3> QED
      BY <1>8, <3>3, <3>8, OrZeroIs DEF g
  <2> QED
    BY <2>1, <2>2
<1> QED
  BY <1>5, <1>8, <1>9, <1>11, <1>12 DEF BalancesOK

-----------------------------------------------------------------------------
(* Delegates, caps and delegations.                                        *)

LEMMA RegisterKeeps ==
  ASSUME block \in Nat \ {0}, NEW D, NEW p, DelegatesOK(D, block, p), NEW d \in Delegates,
         NEW v \in {Removed, <<TRUE>>}, NEW E, E = [D EXCEPT ![d] = Save(@, v)]
  PROVE  DelegatesOK(E, block, p)
<1>1. v \in Values({TRUE})
  BY DEF Values, Some
<1>2. IsSnap({TRUE}, D[d], block) /\ E[d] = Save(D[d], v) /\ \A c \in Delegates \ {d} : E[c] = D[c]
  BY DEF DelegatesOK
<1>3. /\ IsSnap({TRUE}, E[d], block)
      /\ \A h \in Nat : h <= block => mayLoadAtHeight(E[d], h) = mayLoadAtHeight(D[d], h)
  BY <1>1, <1>2, SnapSaved
<1>4. E = [c \in Delegates |-> E[c]]
  BY DEF DelegatesOK
<1>5. \A c \in Delegates : IsSnap({TRUE}, E[c], block)
  BY <1>2, <1>3 DEF DelegatesOK
<1>6. ASSUME NEW c \in Delegates, NEW h \in 1 .. block
      PROVE  mayLoadAtHeight(E[c], h) # <<>> <=> c \in p[h].delegate
  <2>1. h \in Nat /\ h <= block
    OBVIOUS
  <2>2. mayLoadAtHeight(E[c], h) = mayLoadAtHeight(D[c], h)
    BY <1>2, <1>3, <2>1
  <2> QED
    BY <2>2 DEF DelegatesOK
<1> QED
  BY <1>4, <1>5, <1>6 DEF DelegatesOK

LEMMA CapKeeps ==
  ASSUME block \in Nat \ {0}, NEW C, NEW p, CapOK(C, block, p), NEW c \in Caps, NEW E, E = Save(C, <<c>>)
  PROVE  CapOK(E, block, p)
<1>1. <<c>> \in Values(Caps)
  BY DEF Values, Some
<1>2. IsSnap(Caps, C, block) /\ \A h \in 1 .. block : mayLoadAtHeight(C, h) = p[h].cap
  BY DEF CapOK
<1>3. /\ IsSnap(Caps, E, block)
      /\ \A h \in Nat : h <= block => mayLoadAtHeight(E, h) = mayLoadAtHeight(C, h)
  BY <1>1, <1>2, SnapSaved
<1>4. \A h \in 1 .. block : h \in Nat /\ h <= block
  OBVIOUS
<1>5. \A h \in 1 .. block : mayLoadAtHeight(E, h) = p[h].cap
  BY <1>2, <1>3, <1>4
<1> QED
  BY <1>3, <1>5 DEF CapOK

\* The one delegation in a value, and how long it lives.
Holding(x, i) ==
    /\ UNION ToSet(x) = {i}
    /\ x = <<{i}>>
    /\ \A h \in Nat : Live(x, h) = IF i.expiration > h THEN {i} ELSE {}

LEMMA HeldIs ==
  ASSUME NEW q, NEW x \in Some(Made(q))
  PROVE  \/ UNION ToSet(x) = {} /\ \A h \in Nat : Live(x, h) = {}
         \/ \E i \in [id : 1 .. Len(q), expiration : Nat, from : Nat] : Holding(x, i)
<1>1. CASE x = <<>>
  BY <1>1 DEF ToSet, Live
<1>2. ASSUME NEW s, x = <<s>> PROVE ToSet(x) = {s} /\ x # <<>> /\ x[1] = s
  <2>1. DOMAIN x = {1} /\ x[1] = s /\ x # <<>>
    BY <1>2
  <2> QED
    BY <2>1 DEF ToSet
<1>3. CASE x = <<{}>>
  <2>1. ToSet(x) = {{}} /\ x # <<>> /\ x[1] = {}
    BY <1>2, <1>3
  <2> QED
    BY <2>1 DEF Live
<1>4. ASSUME NEW i \in [id : 1 .. Len(q), expiration : Nat, from : Nat], x = <<{i}>> PROVE Holding(x, i)
  <2>1. ToSet(x) = {{i}} /\ x # <<>> /\ x[1] = {i}
    BY <1>2, <1>4
  <2>2. UNION ToSet(x) = {i}
    BY <2>1
  <2>3. \A h \in Nat : Live(x, h) = IF i.expiration > h THEN {i} ELSE {}
    <3> SUFFICES ASSUME NEW h \in Nat PROVE Live(x, h) = IF i.expiration > h THEN {i} ELSE {}
      OBVIOUS
    <3>1. Live(x, h) = {j \in {i} : j.expiration > h}
      BY <2>1 DEF Live
    <3> QED
      BY <3>1
  <2> QED
    BY <1>4, <2>2, <2>3 DEF Holding
<1>5. x = <<>> \/ x = <<{}>> \/ \E i \in [id : 1 .. Len(q), expiration : Nat, from : Nat] : x = <<{i}>>
  BY DEF Some, Made
<1> QED
  BY <1>1, <1>3, <1>4, <1>5

LEMMA CountOne ==
  ASSUME NEW S \in SUBSET Members, NEW m \in Members, m \notin S
  PROVE  Cardinality(S \cup {m}) = Cardinality(S) + 1 /\ Cardinality(S) \in Nat
<1>1. IsFiniteSet(S)
  BY VotingPowerAssumption, FS_Subset
<1> QED
  BY <1>1, FS_AddElement, FS_CardinalityType

\* A member's delegation begins (n is 1) or ends (n is -1) after this block, and is
\* counted in the wormhole until it expires.
Turns(A, M, W, B, N, X, m, d, n, o, until) ==
    /\ m \in Members /\ d \in Delegates /\ until \in Nat /\ until > block
    /\ (n = 1 /\ o = -1) \/ (n = -1 /\ o = 1)
    /\ \A k \in Members \ {m} : B[k] = A[k] /\ N[k] = M[k]
    /\ \A h \in 1 .. block : At(B, N, m, h) = At(A, M, m, h)
    /\ \A h \in Nat : h > block =>
           /\ At(A, M, m, h) = IF n = -1 /\ h < until THEN {d} ELSE {}
           /\ At(B, N, m, h) = IF n = 1 /\ h < until THEN {d} ELSE {}
    /\ X = [W EXCEPT ![d] = Add(Add(@, block + 1, n), until, o)]

LEMMA HolesChange ==
  ASSUME block \in Nat \ {0}, NEW A, NEW M, NEW W, Counts(A, M, W),
         NEW m, NEW d, NEW n, NEW o, NEW until, NEW B, NEW N, NEW X,
         Turns(A, M, W, B, N, X, m, d, n, o, until)
  PROVE  Counts(B, N, X)
<1>0. /\ m \in Members /\ d \in Delegates /\ until \in Nat /\ until > block
      /\ (n = 1 /\ o = -1) \/ (n = -1 /\ o = 1)
      /\ n \in Int /\ o \in Int
      /\ \A k \in Members \ {m} : B[k] = A[k] /\ N[k] = M[k]
      /\ \A h \in 1 .. block : At(B, N, m, h) = At(A, M, m, h)
      /\ \A h \in Nat : h > block =>
             /\ At(A, M, m, h) = IF n = -1 /\ h < until THEN {d} ELSE {}
             /\ At(B, N, m, h) = IF n = 1 /\ h < until THEN {d} ELSE {}
      /\ X = [W EXCEPT ![d] = Add(Add(@, block + 1, n), until, o)]
  BY DEF Turns
<1>1. /\ W = [c \in Delegates |-> W[c]]
      /\ \A c \in Delegates : IsHole(W[c])
      /\ \A c \in Delegates, h \in Nat \ {0} :
             OrZero(wormholeLoad(W[c], h)) = Cardinality({k \in Members : c \in At(A, M, k, h)})
  BY DEF Counts
<1>2. X = [c \in Delegates |-> X[c]] /\ X[d] = Add(Add(W[d], block + 1, n), until, o)
      /\ \A c \in Delegates \ {d} : X[c] = W[c]
  BY <1>0, <1>1
<1> DEFINE Y == Add(W[d], block + 1, n)
<1>3. /\ IsHole(Y)
      /\ \A h \in Nat : OrZero(wormholeLoad(Y, h)) = OrZero(wormholeLoad(W[d], h)) + IF h >= block + 1 THEN n ELSE 0
  <2>1. block + 1 \in Nat \ {0} /\ IsHole(W[d])
    BY <1>0, <1>1
  <2> QED
    BY <1>0, <2>1, AddIs
<1>4. /\ IsHole(X[d])
      /\ \A h \in Nat : OrZero(wormholeLoad(X[d], h)) = OrZero(wormholeLoad(Y, h)) + IF h >= until THEN o ELSE 0
  <2>1. until \in Nat \ {0} /\ X[d] = Add(Y, until, o)
    BY <1>0, <1>2
  <2> HIDE DEF Y
  <2> QED
    BY <1>0, <1>3, <2>1, AddIs
<1> HIDE DEF Y
<1>5. \A c \in Delegates : IsHole(X[c])
  BY <1>0, <1>1, <1>2, <1>4
<1>6. \A k \in Members \ {m}, h \in Nat : At(B, N, k, h) = At(A, M, k, h)
  BY <1>0 DEF At
<1>7. ASSUME NEW c \in Delegates, NEW h \in Nat \ {0}
      PROVE  OrZero(wormholeLoad(X[c], h)) = Cardinality({k \in Members : c \in At(B, N, k, h)})
  <2> DEFINE S == {k \in Members : c \in At(A, M, k, h)}
             T == {k \in Members : c \in At(B, N, k, h)}
  <2>1. OrZero(wormholeLoad(W[c], h)) = Cardinality(S)
    BY <1>1
  <2>2. m \in Members /\ S \in SUBSET Members /\ T \in SUBSET Members
        /\ (m \in S <=> c \in At(A, M, m, h)) /\ (m \in T <=> c \in At(B, N, m, h))
        /\ \A k \in Members \ {m} : k \in S <=> k \in T
    BY <1>0, <1>6
  <2> HIDE DEF S, T
  <2>3. CASE c # d \/ h <= block \/ h >= until
    <3>1. m \in S <=> m \in T
      <4>1. CASE h <= block
        BY <1>0, <2>2, <4>1
      <4>2. CASE h > block
        BY <1>0, <2>2, <2>3, <4>2
      <4> QED
        BY <4>1, <4>2
    <3>2. S = T
      <4>1. \A k \in Members : k \in S <=> k \in T
        BY <2>2, <3>1
      <4> QED
        BY <2>2, <4>1
    <3>3. OrZero(wormholeLoad(X[c], h)) = OrZero(wormholeLoad(W[c], h))
      <4>1. CASE c # d
        BY <1>2, <4>1
      <4>2. CASE c = d
        <5>1. OrZero(wormholeLoad(W[d], h)) \in Int
          BY <1>0, <1>1, HoleIsInt
        <5>2. OrZero(wormholeLoad(Y, h)) = OrZero(wormholeLoad(W[d], h)) + IF h >= block + 1 THEN n ELSE 0
          BY <1>3
        <5>3. OrZero(wormholeLoad(X[d], h)) = OrZero(wormholeLoad(Y, h)) + IF h >= until THEN o ELSE 0
          BY <1>4
        <5> QED
          BY <1>0, <2>3, <4>2, <5>1, <5>2, <5>3
      <4> QED
        BY <4>1, <4>2
    <3> QED
      BY <2>1, <3>2, <3>3 DEF T
  <2>4. CASE c = d /\ h > block /\ h < until
    <3>1. OrZero(wormholeLoad(X[c], h)) = Cardinality(S) + n
      <4>1. OrZero(wormholeLoad(W[d], h)) \in Int
        BY <1>0, <1>1, HoleIsInt
      <4>2. OrZero(wormholeLoad(Y, h)) = OrZero(wormholeLoad(W[d], h)) + IF h >= block + 1 THEN n ELSE 0
        BY <1>3
      <4>3. OrZero(wormholeLoad(X[d], h)) = OrZero(wormholeLoad(Y, h)) + IF h >= until THEN o ELSE 0
        BY <1>4
      <4> QED
        BY <1>0, <2>1, <2>4, <4>1, <4>2, <4>3
    <3>2. CASE n = 1
      <4>1. m \notin S /\ m \in T
        BY <1>0, <2>2, <2>4, <3>2
      <4>2. T = S \cup {m}
        BY <2>2, <4>1
      <4>3. Cardinality(T) = Cardinality(S) + 1
        BY <2>2, <4>1, <4>2, CountOne
      <4> QED
        BY <3>1, <3>2, <4>3 DEF T
    <3>3. CASE n = -1
      <4>1. m \in S /\ m \notin T
        BY <1>0, <2>2, <2>4, <3>3
      <4>2. S = T \cup {m}
        BY <2>2, <4>1
      <4>3. Cardinality(S) = Cardinality(T) + 1 /\ Cardinality(T) \in Nat
        BY <2>2, <4>1, <4>2, CountOne
      <4> QED
        BY <3>1, <3>3, <4>3 DEF T
    <3> QED
      BY <1>0, <3>2, <3>3
  <2> QED
    BY <1>0, <2>3, <2>4
<1> QED
  BY <1>2, <1>5, <1>7 DEF Counts

\* A member delegates after its earlier delegation expired.
NewDelegation(A, M, W, B, N, X, p, m, d, until) ==
    /\ block \in Nat \ {0} /\ DelegationsOK(A, M, W, block, p)
    /\ m \in Members /\ d \in Delegates /\ until = block + Lifetime
    /\ \A i \in UNION ToSet(Cur(A[m])) : i.expiration <= block
    /\ N = [M EXCEPT ![m] = Append(@, d)]
    /\ B = [A EXCEPT ![m] = Save(@, <<{[id |-> Len(N[m]), expiration |-> until, from |-> block]}>>)]
    /\ X = [W EXCEPT ![d] = Add(Add(@, block + 1, 1), until, -1)]

LEMMA DelegateKeeps ==
  ASSUME NEW A, NEW M, NEW W, NEW B, NEW N, NEW X, NEW p, NEW m, NEW d, NEW until,
         NewDelegation(A, M, W, B, N, X, p, m, d, until)
  PROVE  DelegationsOK(B, N, X, block, p)
<1>0. /\ block \in Nat \ {0} /\ DelegationsOK(A, M, W, block, p)
      /\ m \in Members /\ d \in Delegates /\ until = block + Lifetime
      /\ \A i \in UNION ToSet(Cur(A[m])) : i.expiration <= block
      /\ N = [M EXCEPT ![m] = Append(@, d)]
      /\ B = [A EXCEPT ![m] = Save(@, <<{[id |-> Len(N[m]), expiration |-> until, from |-> block]}>>)]
      /\ X = [W EXCEPT ![d] = Add(Add(@, block + 1, 1), until, -1)]
  BY DEF NewDelegation
<1> USE <1>0
<1> DEFINE e == [id |-> Len(N[m]), expiration |-> until, from |-> block]
<1>1. /\ A = [k \in Members |-> A[k]] /\ M \in [Members -> Seq(Delegates)]
      /\ \A k \in Members : IsSnap(Made(M[k]), A[k], block)
      /\ \A k \in Members, h \in 1 .. block : At(A, M, k, h) = p[h].active[k]
  BY DEF DelegationsOK
<1>2. until \in Nat /\ until > block /\ block \in Nat
  BY VotingPowerAssumption
<1>3. /\ N \in [Members -> Seq(Delegates)] /\ N[m] = Append(M[m], d) /\ Len(M[m]) \in Nat
      /\ Len(N[m]) = Len(M[m]) + 1 /\ N[m][Len(N[m])] = d
      /\ \A i \in 1 .. Len(M[m]) : N[m][i] = M[m][i]
      /\ \A k \in Members \ {m} : N[k] = M[k]
  <2>1. M[m] \in Seq(Delegates)
    BY <1>1
  <2>2. /\ N[m] = Append(M[m], d) /\ \A k \in Members \ {m} : N[k] = M[k]
        /\ N \in [Members -> Seq(Delegates)]
    BY <1>1, <2>1
  <2>3. /\ Len(M[m]) \in Nat /\ Len(Append(M[m], d)) = Len(M[m]) + 1
        /\ Append(M[m], d)[Len(M[m]) + 1] = d
        /\ \A i \in 1 .. Len(M[m]) : Append(M[m], d)[i] = M[m][i]
    BY <2>1
  <2> QED
    BY <2>2, <2>3
<1>4. /\ B = [k \in Members |-> B[k]] /\ B[m] = Save(A[m], <<{e}>>)
      /\ \A k \in Members \ {m} : B[k] = A[k]
  BY <1>1
<1>5. e \in [id : 1 .. Len(N[m]), expiration : Nat, from : Nat] /\ e.id = Len(N[m]) /\ e.expiration = until
  BY <1>2, <1>3
<1> HIDE DEF e
<1>6. <<{e}>> \in Values(Made(N[m])) /\ Clean(<<{e}>>) = <<{e}>> /\ <<{e}>> \in Some(Made(N[m]))
  <2>1. {e} \in Made(N[m])
    BY <1>5 DEF Made
  <2> QED
    BY <2>1 DEF Values, Some, Clean, Exists
<1>7. IsSnap(Made(N[m]), A[m], block)
  <2>1. Made(M[m]) \subseteq Made(N[m])
    <3>1. [id : 1 .. Len(M[m]), expiration : Nat, from : Nat] \subseteq [id : 1 .. Len(N[m]), expiration : Nat, from : Nat]
      BY <1>3
    <3> QED
      BY <3>1 DEF Made
  <2> QED
    <3>1. IsSnap(Made(M[m]), A[m], block) /\ block <= block
      BY <1>1, <1>2
    <3> QED
      BY <1>2, <2>1, <3>1, SnapGrows
<1>8. /\ IsSnap(Made(N[m]), B[m], block) /\ Cur(B[m]) = <<{e}>>
      /\ \A h \in Nat : h <= block => mayLoadAtHeight(B[m], h) = mayLoadAtHeight(A[m], h)
  <2> DEFINE V == Made(N[m])
             v == <<{e}>>
             t == B[m]
  <2>1. IsSnap(V, A[m], block) /\ v \in Values(V) /\ t = Save(A[m], v) /\ Clean(v) = v
    BY <1>4, <1>6, <1>7
  <2> HIDE DEF V, v, t
  <2>2. /\ IsSnap(V, t, block) /\ Cur(t) = Clean(v)
        /\ \A h \in Nat : h <= block => mayLoadAtHeight(t, h) = mayLoadAtHeight(A[m], h)
    BY <2>1, SnapSaved
  <2> QED
    BY <2>1, <2>2 DEF V, v, t
<1>9. \A k \in Members : IsSnap(Made(N[k]), B[k], block)
  BY <1>1, <1>3, <1>4, <1>8
<1>10. ASSUME NEW h \in 1 .. block PROVE At(B, N, m, h) = At(A, M, m, h)
  <2>1. h \in Nat /\ h <= block
    OBVIOUS
  <2>2. mayLoadAtHeight(B[m], h) = mayLoadAtHeight(A[m], h) /\ mayLoadAtHeight(A[m], h) \in Some(Made(M[m]))
    BY <1>1, <1>2, <1>8, <2>1, LoadTyped
  <2>3. PICK x : x = mayLoadAtHeight(A[m], h)
    OBVIOUS
  <2>4. x \in Some(Made(M[m]))
    BY <2>2, <2>3
  <2>5. At(B, N, m, h) = {N[m][i.id] : i \in Live(x, h)} /\ At(A, M, m, h) = {M[m][i.id] : i \in Live(x, h)}
    BY <2>2, <2>3 DEF At
  <2>6. \A i \in Live(x, h) : N[m][i.id] = M[m][i.id]
    <3>1. CASE \A g \in Nat : Live(x, g) = {}
      BY <2>1, <3>1
    <3>2. ASSUME NEW i \in [id : 1 .. Len(M[m]), expiration : Nat, from : Nat], Holding(x, i)
          PROVE  \A j \in Live(x, h) : N[m][j.id] = M[m][j.id]
      <4>1. \A j \in Live(x, h) : j = i
        BY <2>1, <3>2 DEF Holding
      <4>2. i.id \in 1 .. Len(M[m])
        OBVIOUS
      <4> QED
        BY <1>3, <4>1, <4>2
    <3> QED
      BY <2>4, <3>1, <3>2, HeldIs
  <2> QED
    BY <2>5, <2>6
<1>11. ASSUME NEW h \in Nat, h > block
       PROVE  /\ At(A, M, m, h) = {}
              /\ At(B, N, m, h) = IF h < until THEN {d} ELSE {}
  <2>1. mayLoadAtHeight(A[m], h) = Cur(A[m]) /\ mayLoadAtHeight(B[m], h) = Cur(B[m])
    BY <1>2, <1>7, <1>8, <1>11, LoadAfter
  <2>2. Cur(A[m]) \in Some(Made(M[m]))
    BY <1>1, <1>2, LoadTyped
  <2>3. Live(Cur(A[m]), h) = {}
    <3>1. ASSUME NEW i \in [id : 1 .. Len(M[m]), expiration : Nat, from : Nat], Holding(Cur(A[m]), i)
          PROVE  Live(Cur(A[m]), h) = {}
      <4>1. i.expiration <= block /\ i.expiration \in Nat
        BY <3>1 DEF Holding
      <4>2. ~(i.expiration > h)
        BY <1>2, <1>11, <4>1
      <4>3. Live(Cur(A[m]), h) = IF i.expiration > h THEN {i} ELSE {}
        BY <3>1 DEF Holding
      <4> QED
        BY <4>2, <4>3
    <3> QED
      BY <2>2, <3>1, HeldIs
  <2>4. At(A, M, m, h) = {}
    BY <2>1, <2>3 DEF At
  <2>5. Live(Cur(B[m]), h) = {i \in {e} : i.expiration > h}
    <3>1. <<{e}>> # <<>> /\ <<{e}>>[1] = {e}
      OBVIOUS
    <3> QED
      BY <1>8, <3>1 DEF Live
  <2>6. At(B, N, m, h) = {N[m][i.id] : i \in Live(Cur(B[m]), h)}
    BY <2>1 DEF At
  <2>7. CASE h < until
    <3>1. Live(Cur(B[m]), h) = {e}
      BY <1>2, <1>5, <2>5, <2>7
    <3>2. N[m][e.id] = d
      BY <1>3, <1>5
    <3>3. {N[m][i.id] : i \in {e}} = {d}
      BY <3>2
    <3> QED
      BY <2>4, <2>6, <2>7, <3>1, <3>3
  <2>8. CASE ~(h < until)
    <3>1. Live(Cur(B[m]), h) = {}
      BY <1>2, <1>5, <2>5, <2>8
    <3> QED
      BY <2>4, <2>6, <2>8, <3>1
  <2> QED
    BY <2>7, <2>8
<1>12. \A k \in Members \ {m} : B[k] = A[k] /\ N[k] = M[k]
  BY <1>3, <1>4
<1>13. Counts(B, N, X)
  <2> DEFINE n == 1
             o == -1
  <2>1. n \in Int /\ o \in Int /\ ((n = 1 /\ o = -1) \/ (n = -1 /\ o = 1)) /\ n # -1
    OBVIOUS
  <2>2. X = [W EXCEPT ![d] = Add(Add(@, block + 1, n), until, o)]
    OBVIOUS
  <2> HIDE DEF n, o
  <2>3. \A h \in Nat : h > block =>
             /\ At(A, M, m, h) = IF n = -1 /\ h < until THEN {d} ELSE {}
             /\ At(B, N, m, h) = IF n = 1 /\ h < until THEN {d} ELSE {}
    BY <1>11, <2>1
  <2>4. Turns(A, M, W, B, N, X, m, d, n, o, until)
    BY <1>2, <1>10, <1>12, <2>1, <2>2, <2>3 DEF Turns
  <2>5. Counts(A, M, W)
    BY DEF DelegationsOK
  <2> QED
    BY <2>4, <2>5, HolesChange
<1>14. ASSUME NEW k \in Members, NEW h \in 1 .. block PROVE At(B, N, k, h) = p[h].active[k]
  <2>1. CASE k = m
    BY <1>1, <1>10, <2>1
  <2>2. CASE k # m
    <3>1. At(B, N, k, h) = At(A, M, k, h)
      BY <1>12, <2>2 DEF At
    <3> QED
      BY <1>1, <3>1
  <2> QED
    BY <2>1, <2>2
<1> QED
  BY <1>3, <1>4, <1>9, <1>13, <1>14 DEF DelegationsOK

LEMMA UndelegateKeeps ==
  ASSUME block \in Nat \ {0}, NEW A, NEW M, NEW W, NEW p, DelegationsOK(A, M, W, block, p),
         NEW m \in Members, NEW i \in UNION ToSet(Cur(A[m])), i.expiration > block + 1,
         NEW B, B = [A EXCEPT ![m] = Save(@, <<{}>>)],
         NEW X, X = [W EXCEPT ![M[m][i.id]] = Add(Add(@, block + 1, -1), i.expiration, 1)]
  PROVE  DelegationsOK(B, M, X, block, p)
<1>1. /\ A = [k \in Members |-> A[k]] /\ M \in [Members -> Seq(Delegates)]
      /\ \A k \in Members : IsSnap(Made(M[k]), A[k], block)
      /\ \A k \in Members, h \in 1 .. block : At(A, M, k, h) = p[h].active[k]
  BY DEF DelegationsOK
<1>2. block \in Nat
  OBVIOUS
<1>3. Cur(A[m]) \in Some(Made(M[m]))
  BY <1>1, <1>2, LoadTyped
<1>4. i \in [id : 1 .. Len(M[m]), expiration : Nat, from : Nat] /\ Holding(Cur(A[m]), i)
  <2>1. ASSUME NEW j \in [id : 1 .. Len(M[m]), expiration : Nat, from : Nat], Holding(Cur(A[m]), j)
        PROVE  j = i
    BY <2>1 DEF Holding
  <2> QED
    BY <1>3, <2>1, HeldIs
<1> DEFINE d == M[m][i.id]
           until == i.expiration
<1>5. d \in Delegates /\ until \in Nat /\ until > block
  <2>1. M[m] \in Seq(Delegates) /\ i.id \in 1 .. Len(M[m])
    BY <1>1, <1>4
  <2>2. d \in Delegates
    BY <2>1, EntriesOf
  <2> QED
    BY <1>2, <1>4, <2>2
<1>6. B = [k \in Members |-> B[k]] /\ B[m] = Save(A[m], <<{}>>) /\ \A k \in Members \ {m} : B[k] = A[k]
  BY <1>1
<1>7. X = [W EXCEPT ![d] = Add(Add(@, block + 1, -1), until, 1)]
  OBVIOUS
<1> HIDE DEF d, until
<1>8. <<{}>> \in Values(Made(M[m])) /\ Clean(<<{}>>) = <<{}>>
  BY DEF Values, Some, Clean, Exists, Made
<1>9. /\ IsSnap(Made(M[m]), B[m], block) /\ Cur(B[m]) = <<{}>>
      /\ \A h \in Nat : h <= block => mayLoadAtHeight(B[m], h) = mayLoadAtHeight(A[m], h)
  BY <1>1, <1>6, <1>8, SnapSaved
<1>10. \A k \in Members : IsSnap(Made(M[k]), B[k], block)
  BY <1>1, <1>6, <1>9
<1>11. \A h \in 1 .. block : At(B, M, m, h) = At(A, M, m, h)
  <2> SUFFICES ASSUME NEW h \in 1 .. block PROVE At(B, M, m, h) = At(A, M, m, h)
    OBVIOUS
  <2>1. h \in Nat /\ h <= block
    OBVIOUS
  <2>2. mayLoadAtHeight(B[m], h) = mayLoadAtHeight(A[m], h)
    BY <1>9, <2>1
  <2> QED
    BY <2>2 DEF At
<1>12. ASSUME NEW h \in Nat, h > block
       PROVE  /\ At(A, M, m, h) = IF h < until THEN {d} ELSE {}
              /\ At(B, M, m, h) = {}
  <2>1. mayLoadAtHeight(A[m], h) = Cur(A[m]) /\ mayLoadAtHeight(B[m], h) = Cur(B[m])
    BY <1>1, <1>2, <1>9, <1>12, LoadAfter
  <2>2. Live(Cur(B[m]), h) = {}
    <3>1. <<{}>>[1] = {}
      OBVIOUS
    <3> QED
      BY <1>9, <3>1 DEF Live
  <2>3. At(B, M, m, h) = {}
    BY <2>1, <2>2 DEF At
  <2>4. At(A, M, m, h) = {M[m][j.id] : j \in Live(Cur(A[m]), h)}
    BY <2>1 DEF At
  <2>5. Live(Cur(A[m]), h) = IF until > h THEN {i} ELSE {}
    BY <1>4 DEF Holding, until
  <2>6. CASE h < until
    <3>1. Live(Cur(A[m]), h) = {i}
      BY <1>5, <2>5, <2>6
    <3> QED
      BY <2>3, <2>4, <2>6, <3>1 DEF d
  <2>7. CASE ~(h < until)
    <3>1. Live(Cur(A[m]), h) = {}
      BY <1>5, <2>5, <2>7
    <3> QED
      BY <2>3, <2>4, <2>7, <3>1
  <2> QED
    BY <2>6, <2>7
<1>13. Counts(B, M, X)
  <2> DEFINE n == -1
             o == 1
  <2>1. n \in Int /\ o \in Int /\ ((n = 1 /\ o = -1) \/ (n = -1 /\ o = 1)) /\ n # 1
    OBVIOUS
  <2>2. X = [W EXCEPT ![d] = Add(Add(@, block + 1, n), until, o)]
    BY <1>7
  <2> HIDE DEF n, o
  <2>3. \A h \in Nat : h > block =>
             /\ At(A, M, m, h) = IF n = -1 /\ h < until THEN {d} ELSE {}
             /\ At(B, M, m, h) = IF n = 1 /\ h < until THEN {d} ELSE {}
    BY <1>12, <2>1
  <2>4. \A k \in Members \ {m} : B[k] = A[k] /\ M[k] = M[k]
    BY <1>6
  <2>5. Turns(A, M, W, B, M, X, m, d, n, o, until)
    BY <1>5, <1>11, <2>1, <2>2, <2>3, <2>4 DEF Turns
  <2>6. Counts(A, M, W)
    BY DEF DelegationsOK
  <2> QED
    BY <2>5, <2>6, HolesChange
<1>14. ASSUME NEW k \in Members, NEW h \in 1 .. block PROVE At(B, M, k, h) = p[h].active[k]
  <2>1. CASE k = m
    BY <1>1, <1>11, <2>1
  <2>2. CASE k # m
    <3>1. At(B, M, k, h) = At(A, M, k, h)
      BY <1>6, <2>2 DEF At
    <3> QED
      BY <1>1, <3>1
  <2> QED
    BY <2>1, <2>2
<1> QED
  BY <1>1, <1>6, <1>10, <1>13, <1>14 DEF DelegationsOK

-----------------------------------------------------------------------------
(* Votes, and the next block.                                              *)

\* A member votes while a proposal is open.
NewVote(W, p, v, w, m) ==
    /\ v.opened # 0 /\ m \in Members /\ m \notin v.voted
    /\ w = [v EXCEPT
           !.voted = @ \cup {m},
           !.unvoted = [d \in Delegates |->
               IF d \in p[v.opened].active[m]
               THEN <<(IF @[d] # <<>> THEN @[d][1] ELSE OrZero(wormholeLoad(W[d], v.opened))) - 1>>
               ELSE @[d]]]

LEMMA VoteKeeps ==
  ASSUME block \in Nat \ {0}, NEW A, NEW M, NEW W, NEW p, DelegationsOK(A, M, W, block, p),
         NEW v, NEW st, BallotOK(v, block, p, st), NEW m, NEW w, NewVote(W, p, v, w, m)
  PROVE  BallotOK(w, block, p, st)
<1>0. /\ v.opened # 0 /\ m \in Members /\ m \notin v.voted
      /\ w = [v EXCEPT
             !.voted = @ \cup {m},
             !.unvoted = [d \in Delegates |->
                 IF d \in p[v.opened].active[m]
                 THEN <<(IF @[d] # <<>> THEN @[d][1] ELSE OrZero(wormholeLoad(W[d], v.opened))) - 1>>
                 ELSE @[d]]]
  BY DEF NewVote
<1> USE <1>0
<1>1. /\ v \in [opened : 0 .. block, voted : SUBSET Members, unvoted : [Delegates -> Some(Int)]]
      /\ ~st
      /\ \A d \in Delegates :
           IF v.unvoted[d] = <<>>
           THEN LeftOf(v, p, d) = {k \in Members : d \in p[v.opened].active[k]}
           ELSE v.unvoted[d] = <<Cardinality(LeftOf(v, p, d))>>
  BY DEF BallotOK
<1> DEFINE New(d) == IF d \in p[v.opened].active[m]
                     THEN <<(IF v.unvoted[d] # <<>> THEN v.unvoted[d][1] ELSE OrZero(wormholeLoad(W[d], v.opened))) - 1>>
                     ELSE v.unvoted[d]
<1>2. /\ w.opened = v.opened /\ w.voted = v.voted \cup {m} /\ w.unvoted = [d \in Delegates |-> New(d)]
      /\ w = [opened |-> v.opened, voted |-> v.voted \cup {m}, unvoted |-> [d \in Delegates |-> New(d)]]
  BY <1>1
<1>3. v.opened \in 1 .. block /\ v.opened \in Nat \ {0}
  <2>1. v.opened \in 0 .. block
    BY <1>1
  <2> QED
    BY <2>1
<1>4. \A d \in Delegates :
          /\ LeftOf(v, p, d) \in SUBSET Members
          /\ d \in p[v.opened].active[m] => LeftOf(v, p, d) = LeftOf(w, p, d) \cup {m}
          /\ d \notin p[v.opened].active[m] => LeftOf(v, p, d) = LeftOf(w, p, d)
          /\ m \notin LeftOf(w, p, d) /\ LeftOf(w, p, d) \in SUBSET Members
  BY <1>2 DEF LeftOf
<1>5. \A d \in Delegates :
          Cardinality({k \in Members : d \in p[v.opened].active[k]}) = OrZero(wormholeLoad(W[d], v.opened))
  <2> SUFFICES ASSUME NEW d \in Delegates
               PROVE  Cardinality({k \in Members : d \in p[v.opened].active[k]}) = OrZero(wormholeLoad(W[d], v.opened))
    OBVIOUS
  <2>1. \A k \in Members : At(A, M, k, v.opened) = p[v.opened].active[k]
    BY <1>3 DEF DelegationsOK
  <2>2. {k \in Members : d \in p[v.opened].active[k]} = {k \in Members : d \in At(A, M, k, v.opened)}
    BY <2>1
  <2>3. Counts(A, M, W)
    BY DEF DelegationsOK
  <2>4. OrZero(wormholeLoad(W[d], v.opened)) = Cardinality({k \in Members : d \in At(A, M, k, v.opened)})
    BY <1>3, <2>3 DEF Counts
  <2> QED
    BY <2>2, <2>4
<1>6. ASSUME NEW d \in Delegates
      PROVE  /\ New(d) \in Some(Int)
             /\ New(d) = <<>> => LeftOf(w, p, d) = {k \in Members : d \in p[v.opened].active[k]}
             /\ New(d) # <<>> => New(d) = <<Cardinality(LeftOf(w, p, d))>>
  <2>1. CASE d \in p[v.opened].active[m]
    <3>1. Cardinality(LeftOf(v, p, d)) = Cardinality(LeftOf(w, p, d)) + 1 /\ Cardinality(LeftOf(w, p, d)) \in Nat
      BY <1>4, <2>1, CountOne
    <3>2. (IF v.unvoted[d] # <<>> THEN v.unvoted[d][1] ELSE OrZero(wormholeLoad(W[d], v.opened)))
              = Cardinality(LeftOf(v, p, d))
      BY <1>1, <1>5
    <3>3. New(d) = <<Cardinality(LeftOf(w, p, d))>>
      BY <2>1, <3>1, <3>2
    <3> HIDE DEF New
    <3>4. New(d) # <<>>
      BY <3>3
    <3>5. New(d) \in Some(Int)
      <4>1. PICK n : n = Cardinality(LeftOf(w, p, d))
        OBVIOUS
      <4>2. n \in Int /\ New(d) = <<n>>
        BY <3>1, <3>3, <4>1
      <4> QED
        BY ONLY <4>2 DEF Some
    <3> QED
      BY <3>3, <3>4, <3>5
  <2>2. CASE d \notin p[v.opened].active[m]
    <3>1. New(d) = v.unvoted[d] /\ LeftOf(w, p, d) = LeftOf(v, p, d)
      BY <1>4, <2>2
    <3>2. v.unvoted[d] \in Some(Int)
      BY <1>1
    <3> HIDE DEF New
    <3> QED
      BY <1>1, <3>1, <3>2
  <2> QED
    BY <2>1, <2>2
<1> HIDE DEF New
<1>7. \A d \in Delegates : w.unvoted[d] = New(d)
  BY <1>2
<1>8. w \in [opened : 0 .. block, voted : SUBSET Members, unvoted : [Delegates -> Some(Int)]]
  <2>1. [d \in Delegates |-> New(d)] \in [Delegates -> Some(Int)]
    BY <1>6
  <2>2. v.opened \in 0 .. block /\ v.voted \cup {m} \in SUBSET Members
    BY <1>1
  <2> QED
    BY <1>2, <2>1, <2>2
<1>9. \A d \in Delegates :
           IF w.unvoted[d] = <<>>
           THEN LeftOf(w, p, d) = {k \in Members : d \in p[w.opened].active[k]}
           ELSE w.unvoted[d] = <<Cardinality(LeftOf(w, p, d))>>
  BY <1>2, <1>6, <1>7
<1> QED
  BY <1>1, <1>2, <1>8, <1>9 DEF BallotOK

LEMMA OpenKeeps ==
  ASSUME block \in Nat \ {0}, NEW p, NEW v, NEW st, BallotOK(v, block, p, st), v.opened = 0, ~st,
         NEW w, w = [v EXCEPT !.opened = block]
  PROVE  BallotOK(w, block, p, st)
<1>1. /\ v \in [opened : 0 .. block, voted : SUBSET Members, unvoted : [Delegates -> Some(Int)]]
      /\ v.voted = {} /\ \A d \in Delegates : v.unvoted[d] = <<>>
  BY DEF BallotOK
<1>2. /\ w.opened = block /\ w.voted = {} /\ w.unvoted = v.unvoted
      /\ w \in [opened : 0 .. block, voted : SUBSET Members, unvoted : [Delegates -> Some(Int)]]
  BY <1>1
<1>3. \A d \in Delegates : LeftOf(w, p, d) = {m \in Members : d \in p[w.opened].active[m]}
  BY <1>2 DEF LeftOf
<1> QED
  BY <1>1, <1>2, <1>3 DEF BallotOK

\* What there was is kept, and what there is now comes to it.
Succeeds(q, p, b, r) == q[b + 1] = r /\ \A h \in 1 .. b : q[h] = p[h]

LEMMA PastGrows ==
  ASSUME NEW b \in Nat \ {0}, NEW p, PastOK(p, b), NEW r \in PastAt, NEW q, q = Append(p, r)
  PROVE  PastOK(q, b + 1) /\ Succeeds(q, p, b, r)
<1>1. p \in Seq(PastAt) /\ Len(p) = b
  BY DEF PastOK
<1> HIDE DEF PastAt
<1>2. q \in Seq(PastAt) /\ Len(q) = b + 1 /\ q[b + 1] = r /\ \A h \in 1 .. b : q[h] = p[h]
  BY <1>1
<1> QED
  BY <1>2 DEF PastOK, Succeeds

\* A property of the heights so far, and of the next one.
LEMMA NextHeight ==
  ASSUME NEW b \in Nat \ {0}, NEW h \in 1 .. b + 1
  PROVE  h \in 1 .. b \/ (h = b + 1 /\ h \in Nat /\ h > b)
OBVIOUS

LEMMA BalancesNext ==
  ASSUME NEW b \in Nat \ {0}, NEW B, NEW p, NEW st, BalancesOK(B, b, p, st),
         NEW q, NEW r, Succeeds(q, p, b, r), r.balance = [m \in Members |-> OrZero(Cur(B[m]))]
  PROVE  BalancesOK(B, b + 1, q, st)
<1>1. /\ B = [k \in Members \cup {Total} |-> B[k]]
      /\ IsSnap(Int, B[Total], b) /\ \A m \in Members : IsSnap(Nat, B[m], b)
  BY DEF BalancesOK
<1>2. b \in Nat /\ b + 1 \in Nat /\ b <= b + 1
  OBVIOUS
<1>3. IsSnap(Int, B[Total], b + 1) /\ \A m \in Members : IsSnap(Nat, B[m], b + 1)
  BY <1>1, <1>2, SnapGrows
<1>4. ASSUME st, NEW m \in Members, NEW h \in 1 .. b + 1
      PROVE  OrZero(mayLoadAtHeight(B[m], h)) = q[h].balance[m]
  <2>1. CASE h \in 1 .. b
    BY <1>4, <2>1 DEF BalancesOK, Succeeds
  <2>2. CASE h = b + 1 /\ h \in Nat /\ h > b
    <3>1. mayLoadAtHeight(B[m], h) = Cur(B[m])
      BY <1>1, <1>2, <2>2, LoadAfter
    <3> QED
      BY <2>2, <3>1 DEF Succeeds
  <2> QED
    BY <2>1, <2>2, NextHeight
<1>5. ASSUME st, NEW h \in 1 .. (b + 1) + 1
      PROVE  OrZero(mayLoadAtHeight(B[Total], h)) = SumFunctionOnSet(PowersOf(B, h), Members)
  <2>0. \A g \in 1 .. b + 1 : OrZero(mayLoadAtHeight(B[Total], g)) = SumFunctionOnSet(PowersOf(B, g), Members)
    BY <1>5 DEF BalancesOK
  <2>1. CASE h \in 1 .. b + 1
    BY <2>0, <2>1
  <2>2. CASE h = (b + 1) + 1
    <3>1. h \in Nat /\ h > b /\ b + 1 > b /\ b + 1 \in 1 .. b + 1
      BY <2>2
    <3>2. \A k \in Members : mayLoadAtHeight(B[k], h) = Cur(B[k]) /\ mayLoadAtHeight(B[k], b + 1) = Cur(B[k])
      <4> SUFFICES ASSUME NEW k \in Members
                   PROVE  mayLoadAtHeight(B[k], h) = Cur(B[k]) /\ mayLoadAtHeight(B[k], b + 1) = Cur(B[k])
        OBVIOUS
      <4>1. IsSnap(Nat, B[k], b)
        BY <1>1
      <4> QED
        BY <1>2, <3>1, <4>1, LoadAfter
    <3>3. mayLoadAtHeight(B[Total], h) = Cur(B[Total]) /\ mayLoadAtHeight(B[Total], b + 1) = Cur(B[Total])
      BY <1>1, <1>2, <3>1, LoadAfter
    <3>4. PowersOf(B, h) = PowersOf(B, b + 1)
      <4>1. \A k \in Members : mayLoadAtHeight(B[k], h) = mayLoadAtHeight(B[k], b + 1)
        BY <3>2
      <4>2. [k \in Members |-> OrZero(mayLoadAtHeight(B[k], h))]
                = [k \in Members |-> OrZero(mayLoadAtHeight(B[k], b + 1))]
        BY ONLY <4>1
      <4> QED
        BY <4>2 DEF PowersOf
    <3> QED
      BY <2>0, <3>1, <3>3, <3>4
  <2> QED
    BY <2>1, <2>2
<1>6. ~st => B[Total] = [value |-> <<Cardinality(Members)>>, log |-> <<>>]
  BY DEF BalancesOK
<1> QED
  BY <1>1, <1>3, <1>4, <1>5, <1>6 DEF BalancesOK

LEMMA DelegatesNext ==
  ASSUME NEW b \in Nat \ {0}, NEW D, NEW p, DelegatesOK(D, b, p),
         NEW q, NEW r, Succeeds(q, p, b, r), r.delegate = {d \in Delegates : Exists(D[d].value)}
  PROVE  DelegatesOK(D, b + 1, q)
<1>1. D = [d \in Delegates |-> D[d]] /\ \A d \in Delegates : IsSnap({TRUE}, D[d], b)
  BY DEF DelegatesOK
<1>2. b \in Nat /\ b + 1 \in Nat /\ b <= b + 1
  OBVIOUS
<1>3. \A d \in Delegates : IsSnap({TRUE}, D[d], b + 1)
  BY <1>1, <1>2, SnapGrows
<1>4. ASSUME NEW d \in Delegates, NEW h \in 1 .. b + 1
      PROVE  mayLoadAtHeight(D[d], h) # <<>> <=> d \in q[h].delegate
  <2>1. CASE h \in 1 .. b
    BY <2>1 DEF DelegatesOK, Succeeds
  <2>2. CASE h = b + 1 /\ h \in Nat /\ h > b
    <3>1. mayLoadAtHeight(D[d], h) = Cur(D[d])
      BY <1>1, <1>2, <2>2, LoadAfter
    <3>2. Cur(D[d]) # <<>> <=> Exists(D[d].value)
      <4>1. Len(<<>>) # 1
        OBVIOUS
      <4>2. Exists(D[d].value) => D[d].value # <<>>
        BY <4>1 DEF Exists
      <4> QED
        BY <4>2 DEF Cur
    <3> QED
      BY <2>2, <3>1, <3>2 DEF Succeeds
  <2> QED
    BY <2>1, <2>2, NextHeight
<1> QED
  BY <1>1, <1>3, <1>4 DEF DelegatesOK

LEMMA CapNext ==
  ASSUME NEW b \in Nat \ {0}, NEW C, NEW p, CapOK(C, b, p),
         NEW q, NEW r, Succeeds(q, p, b, r), r.cap = Cur(C)
  PROVE  CapOK(C, b + 1, q)
<1>1. IsSnap(Caps, C, b)
  BY DEF CapOK
<1>2. b \in Nat /\ b + 1 \in Nat /\ b <= b + 1
  OBVIOUS
<1>3. IsSnap(Caps, C, b + 1)
  BY <1>1, <1>2, SnapGrows
<1>4. ASSUME NEW h \in 1 .. b + 1 PROVE mayLoadAtHeight(C, h) = q[h].cap
  <2>1. CASE h \in 1 .. b
    BY <2>1 DEF CapOK, Succeeds
  <2>2. CASE h = b + 1 /\ h \in Nat /\ h > b
    <3>1. mayLoadAtHeight(C, h) = Cur(C)
      BY <1>1, <1>2, <2>2, LoadAfter
    <3> QED
      BY <2>2, <3>1 DEF Succeeds
  <2> QED
    BY <2>1, <2>2, NextHeight
<1> QED
  BY <1>3, <1>4 DEF CapOK

LEMMA DelegationsNext ==
  ASSUME NEW b \in Nat \ {0}, NEW A, NEW M, NEW W, NEW p, DelegationsOK(A, M, W, b, p),
         NEW q, NEW r, Succeeds(q, p, b, r),
         r.active = [m \in Members |-> {M[m][i.id] : i \in {x \in UNION ToSet(Cur(A[m])) : x.expiration > b + 1}}]
  PROVE  DelegationsOK(A, M, W, b + 1, q)
<1>1. /\ A = [m \in Members |-> A[m]] /\ M \in [Members -> Seq(Delegates)]
      /\ \A m \in Members : IsSnap(Made(M[m]), A[m], b)
      /\ Counts(A, M, W)
  BY DEF DelegationsOK
<1>2. b \in Nat /\ b + 1 \in Nat /\ b <= b + 1
  OBVIOUS
<1>3. \A m \in Members : IsSnap(Made(M[m]), A[m], b + 1)
  BY <1>1, <1>2, SnapGrows
<1>4. ASSUME NEW m \in Members, NEW h \in 1 .. b + 1 PROVE At(A, M, m, h) = q[h].active[m]
  <2>1. CASE h \in 1 .. b
    BY <2>1 DEF DelegationsOK, Succeeds
  <2>2. CASE h = b + 1 /\ h \in Nat /\ h > b
    <3>1. mayLoadAtHeight(A[m], h) = Cur(A[m])
      BY <1>1, <1>2, <2>2, LoadAfter
    <3>2. Cur(A[m]) \in Some(Made(M[m]))
      BY <1>1, <1>2, LoadTyped
    <3>3. {x \in UNION ToSet(Cur(A[m])) : x.expiration > h} = Live(Cur(A[m]), h)
      <4>1. ASSUME NEW i \in [id : 1 .. Len(M[m]), expiration : Nat, from : Nat], Holding(Cur(A[m]), i)
            PROVE  {x \in UNION ToSet(Cur(A[m])) : x.expiration > h} = Live(Cur(A[m]), h)
        BY <2>2, <4>1 DEF Holding
      <4>2. CASE UNION ToSet(Cur(A[m])) = {} /\ \A g \in Nat : Live(Cur(A[m]), g) = {}
        BY <2>2, <4>2
      <4> QED
        BY <3>2, <4>1, <4>2, HeldIs
    <3>4. At(A, M, m, h) = {M[m][i.id] : i \in Live(Cur(A[m]), h)}
      BY <3>1 DEF At
    <3>5. q[h].active[m] = {M[m][i.id] : i \in {x \in UNION ToSet(Cur(A[m])) : x.expiration > h}}
      BY <2>2 DEF Succeeds
    <3> QED
      BY <3>3, <3>4, <3>5
  <2> QED
    BY <2>1, <2>2, NextHeight
<1> QED
  BY <1>1, <1>3, <1>4 DEF DelegationsOK

LEMMA BallotNext ==
  ASSUME NEW b \in Nat \ {0}, NEW v, NEW p, NEW st, BallotOK(v, b, p, st), NEW q, NEW r, Succeeds(q, p, b, r)
  PROVE  BallotOK(v, b + 1, q, st)
<1>1. v \in [opened : 0 .. b, voted : SUBSET Members, unvoted : [Delegates -> Some(Int)]]
  BY DEF BallotOK
<1>2. v \in [opened : 0 .. b + 1, voted : SUBSET Members, unvoted : [Delegates -> Some(Int)]]
  <2>1. 0 .. b \subseteq 0 .. b + 1
    OBVIOUS
  <2> QED
    BY <1>1, <2>1
<1>3. v.opened # 0 => q[v.opened] = p[v.opened]
  <2>1. v.opened \in 0 .. b
    BY <1>1
  <2> QED
    BY <2>1 DEF Succeeds
<1>4. ASSUME v.opened # 0, NEW d \in Delegates
      PROVE  IF v.unvoted[d] = <<>>
             THEN LeftOf(v, q, d) = {m \in Members : d \in q[v.opened].active[m]}
             ELSE v.unvoted[d] = <<Cardinality(LeftOf(v, q, d))>>
  <2>1. LeftOf(v, q, d) = LeftOf(v, p, d)
    BY <1>3, <1>4 DEF LeftOf
  <2>2. IF v.unvoted[d] = <<>>
        THEN LeftOf(v, p, d) = {m \in Members : d \in p[v.opened].active[m]}
        ELSE v.unvoted[d] = <<Cardinality(LeftOf(v, p, d))>>
    BY <1>4 DEF BallotOK
  <2> QED
    BY <1>3, <1>4, <2>1, <2>2
<1> QED
  BY <1>2, <1>4 DEF BallotOK

-----------------------------------------------------------------------------
(* The invariant holds.                                                    *)

LEMMA EmptySnap ==
  ASSUME NEW V, NEW b \in Nat, NEW x \in Values(V), NEW s, s = [value |-> x, log |-> <<>>]
  PROVE  IsSnap(V, s, b) /\ Cur(s) = Clean(x) /\ \A h : mayLoadAtHeight(s, h) = Clean(x)
<1>1. s.value = x /\ s.log = <<>> /\ DOMAIN s.log = {}
  BY SMT
<1>2. <<>> \in Seq([height : 1 .. b, old : Values(V)])
  OBVIOUS
<1>3. IsSnap(V, s, b)
  BY <1>1, <1>2 DEF IsSnap
<1>4. Cur(s) = Clean(x)
  BY <1>1 DEF Cur, Clean
<1>5. \A h : mayLoadAtHeight(s, h) = Cur(s)
  BY <1>1, LoadIsNow
<1> QED
  BY <1>3, <1>4, <1>5

LEMMA SumOfZeros ==
  ASSUME NEW f, \A m \in Members : f[m] = 0
  PROVE  SumFunctionOnSet(f, Members) = 0
<1>1. /\ \A m \in Members : f[m] \in Int
      /\ {} \in SUBSET Members /\ \A m \in Members \ {} : f[m] = 0
  OBVIOUS
<1>2. SumFunctionOnSet(f, Members) = SumFunctionOnSet(f, {})
  BY <1>1, VotingPowerAssumption, SumSkips
<1>3. SumFunctionOnSet(f, {}) = 0
  BY <1>1, VotingPowerAssumption, SumTakes
<1> QED
  BY <1>2, <1>3

LEMMA PowersInit ==
  ASSUME VotingPowerInit
  PROVE  PowersInv
<1> DEFINE none == [value |-> <<>>, log |-> <<>>]
           one == [value |-> <<1>>, log |-> <<>>]
           all == [value |-> <<Cardinality(Members)>>, log |-> <<>>]
           r == [balance |-> [m \in Members |-> IF stakes THEN 0 ELSE 1], delegate |-> {},
                 active |-> [m \in Members |-> {}], cap |-> <<>>]
<1>1. /\ block = 1 /\ stakes \in BOOLEAN /\ past = <<r>>
      /\ delegated = [d \in Delegates |-> {}] /\ made = [m \in Members |-> <<>>]
      /\ ballot = [opened |-> 0, voted |-> {}, unvoted |-> [d \in Delegates |-> <<>>]]
  BY DEF VotingPowerInit
<1>2. Cardinality(Members) \in Nat /\ \A m \in Members : m # Total
  BY VotingPowerAssumption, FS_CardinalityType DEF Total
<1>3. /\ StoreIs(store)
      /\ store.balance = [k \in Members \cup {Total} |->
             IF stakes THEN none ELSE IF k = Total THEN all ELSE one]
      /\ store.delegate = [d \in Delegates |-> none]
      /\ store.active = [m \in Members |-> none]
      /\ store.cap = none
  <2>1. Snapshots = none /\ \A n : [Snapshots EXCEPT !.value = <<n>>] = [value |-> <<n>>, log |-> <<>>]
    BY DEF Snapshots
  <2>2. store = [balance |-> [k \in Members \cup {Total} |->
                     IF stakes THEN Snapshots
                     ELSE [Snapshots EXCEPT !.value = <<IF k = Total THEN Cardinality(Members) ELSE 1>>]],
                 delegate |-> [d \in Delegates |-> Snapshots],
                 active |-> [m \in Members |-> Snapshots],
                 cap |-> Snapshots]
    BY DEF VotingPowerInit
  <2>3. \A k \in Members \cup {Total} :
            (IF stakes THEN Snapshots
             ELSE [Snapshots EXCEPT !.value = <<IF k = Total THEN Cardinality(Members) ELSE 1>>])
                = IF stakes THEN none ELSE IF k = Total THEN all ELSE one
    BY <2>1
  <2>4. StoreIs(store)
    BY <2>2 DEF StoreIs
  <2>5. store.balance = [k \in Members \cup {Total} |->
             IF stakes THEN none ELSE IF k = Total THEN all ELSE one]
    BY <2>2, <2>3
  <2>6. store.delegate = [d \in Delegates |-> none] /\ store.active = [m \in Members |-> none] /\ store.cap = none
    BY <2>1, <2>2
  <2> QED
    BY <2>4, <2>5, <2>6
<1>4. \A V : IsSnap(V, none, block) /\ Cur(none) = <<>> /\ \A h : mayLoadAtHeight(none, h) = <<>>
  <2>1. \A V : <<>> \in Values(V)
    BY DEF Values, Some
  <2>2. Clean(<<>>) = <<>>
    BY DEF Clean
  <2>3. block \in Nat
    BY <1>1
  <2> HIDE DEF none
  <2>4. none = [value |-> <<>>, log |-> <<>>]
    BY DEF none
  <2> QED
    BY <2>1, <2>2, <2>3, <2>4, EmptySnap
<1>5. IsSnap(Nat, one, block) /\ IsSnap(Int, all, block) /\ \A h : mayLoadAtHeight(one, h) = <<1>>
  <2>1. <<1>> \in Values(Nat) /\ <<Cardinality(Members)>> \in Values(Int)
    BY <1>2 DEF Values, Some
  <2>2. Clean(<<1>>) = <<1>>
    BY DEF Clean, Exists
  <2>3. block \in Nat
    BY <1>1
  <2> HIDE DEF one, all
  <2>4. one = [value |-> <<1>>, log |-> <<>>] /\ all = [value |-> <<Cardinality(Members)>>, log |-> <<>>]
    BY DEF one, all
  <2> QED
    BY <2>1, <2>2, <2>3, <2>4, EmptySnap
<1>6. r \in PastAt
  BY DEF PastAt, Some
<1>7. Len(past) = 1 /\ past \in Seq(PastAt) /\ past[1] = r
  <2> HIDE DEF r, PastAt
  <2> QED
    BY <1>1, <1>6
<1>8. PastOK(past, block)
  BY <1>1, <1>7 DEF PastOK
<1>9. 1 .. block = {1} /\ \A h \in 1 .. block : past[h] = r
  BY <1>1, <1>7
<1> DEFINE B == store.balance
<1>10. /\ B = [k \in Members \cup {Total} |-> B[k]]
       /\ B[Total] = IF stakes THEN none ELSE all
       /\ \A m \in Members : B[m] = IF stakes THEN none ELSE one
  BY <1>2, <1>3
<1> HIDE DEF none, one, all, B
<1>11. BalancesOK(B, block, past, stakes)
  <2>1. IsSnap(Int, B[Total], block) /\ \A m \in Members : IsSnap(Nat, B[m], block)
    BY <1>4, <1>5, <1>10
  <2>2. ASSUME stakes
        PROVE  /\ \A m \in Members, h \in 1 .. block : OrZero(mayLoadAtHeight(B[m], h)) = past[h].balance[m]
               /\ \A h \in 1 .. block + 1 :
                      OrZero(mayLoadAtHeight(B[Total], h)) = SumFunctionOnSet(PowersOf(B, h), Members)
    <3>1. \A h : /\ OrZero(mayLoadAtHeight(B[Total], h)) = 0
                 /\ \A m \in Members : OrZero(mayLoadAtHeight(B[m], h)) = 0
      BY <1>4, <1>10, <2>2, OrZeroIs
    <3>2. \A h : SumFunctionOnSet(PowersOf(B, h), Members) = 0
      <4> SUFFICES ASSUME NEW h PROVE SumFunctionOnSet(PowersOf(B, h), Members) = 0
        OBVIOUS
      <4>1. \A m \in Members : PowersOf(B, h)[m] = 0
        BY <3>1 DEF PowersOf
      <4> QED
        BY <4>1, SumOfZeros
    <3>3. \A m \in Members : r.balance[m] = 0
      BY <2>2
    <3> HIDE DEF r
    <3> QED
      BY <1>9, <3>1, <3>2, <3>3
  <2>3. ~stakes => B[Total] = [value |-> <<Cardinality(Members)>>, log |-> <<>>]
    BY <1>10 DEF all
  <2> QED
    BY <1>10, <2>1, <2>2, <2>3 DEF BalancesOK
<1>12. DelegatesOK(store.delegate, block, past)
  <2>1. store.delegate = [d \in Delegates |-> none]
    BY <1>3
  <2>2. \A h \in 1 .. block : past[h].delegate = {}
    BY <1>9
  <2>3. \A d \in Delegates : IsSnap({TRUE}, none, block)
    BY <1>4
  <2> HIDE DEF r
  <2> QED
    BY <1>4, <2>1, <2>2, <2>3 DEF DelegatesOK
<1>13. CapOK(store.cap, block, past)
  <2>1. \A h \in 1 .. block : past[h].cap = <<>>
    BY <1>9
  <2>2. store.cap = none /\ IsSnap(Caps, none, block) /\ \A h : mayLoadAtHeight(none, h) = <<>>
    BY <1>3, <1>4
  <2> HIDE DEF r
  <2> QED
    BY <2>1, <2>2 DEF CapOK
<1> DEFINE A == store.active
<1>14. DelegationsOK(A, made, delegated, block, past)
  <2>1. A = [m \in Members |-> none] /\ \A m \in Members : A[m] = none
    BY <1>3
  <2>2. \A h \in 1 .. block : past[h].active = [m \in Members |-> {}]
    <3>1. r.active = [m \in Members |-> {}]
      OBVIOUS
    <3> HIDE DEF r
    <3> QED
      BY <1>9, <3>1
  <2> HIDE DEF r, A
  <2>3. \A m \in Members : \A h : At(A, made, m, h) = {}
    <3>1. \A m \in Members : \A h : Live(mayLoadAtHeight(A[m], h), h) = {}
      BY <1>4, <2>1 DEF Live
    <3> QED
      BY <3>1 DEF At
  <2>4. Counts(A, made, delegated)
    <3>1. \A d \in Delegates : delegated[d] = {} /\ IsHole(delegated[d])
      BY <1>1 DEF IsHole
    <3>2. ASSUME NEW d \in Delegates, NEW h \in Nat \ {0}
          PROVE  OrZero(wormholeLoad(delegated[d], h)) = Cardinality({k \in Members : d \in At(A, made, k, h)})
      <4>1. \A e \in delegated[d] : ~(e.height <= h)
        BY <3>1
      <4>2. OrZero(wormholeLoad(delegated[d], h)) = 0
        BY <4>1, HoleIsEmpty
      <4>3. {k \in Members : d \in At(A, made, k, h)} = {}
        BY <2>3
      <4> QED
        BY <4>2, <4>3, FS_EmptySet
    <3>3. delegated = [d \in Delegates |-> delegated[d]]
      BY <1>1
    <3> QED
      BY <3>1, <3>2, <3>3 DEF Counts
  <2>5. \A m \in Members : IsSnap(Made(made[m]), A[m], block)
    BY <1>4, <2>1
  <2>6. made \in [Members -> Seq(Delegates)]
    BY <1>1
  <2>7. \A m \in Members, h \in 1 .. block : At(A, made, m, h) = past[h].active[m]
    BY <2>2, <2>3
  <2>8. A = [m \in Members |-> A[m]]
    BY <2>1
  <2> QED
    BY <2>4, <2>5, <2>6, <2>7, <2>8 DEF DelegationsOK
<1>15. BallotOK(ballot, block, past, stakes)
  <2>1. ballot.opened = 0 /\ ballot.voted = {} /\ \A d \in Delegates : ballot.unvoted[d] = <<>>
    BY <1>1
  <2>2. ballot \in [opened : 0 .. block, voted : SUBSET Members, unvoted : [Delegates -> Some(Int)]]
    BY <1>1 DEF Some
  <2> QED
    BY <2>1, <2>2 DEF BallotOK
<1>16. block \in Nat \ {0}
  BY <1>1
<1> QED
  BY <1>1, <1>3, <1>8, <1>11, <1>12, <1>13, <1>14, <1>15, <1>16 DEF PowersInv, B, A

\* What a change of the contracts leaves alone.
LEMMA ChangeIs ==
  ASSUME Change
  PROVE  block' = block /\ past' = past /\ stakes' = stakes
BY DEF Change

\* The store after one of its parts changes.
LEMMA StoreParts ==
  ASSUME NEW st, StoreIs(st), NEW x
  PROVE  /\ \A t : t = [st EXCEPT !.balance = x] =>
                StoreIs(t) /\ t.balance = x /\ t.delegate = st.delegate /\ t.active = st.active /\ t.cap = st.cap
         /\ \A t : t = [st EXCEPT !.delegate = x] =>
                StoreIs(t) /\ t.balance = st.balance /\ t.delegate = x /\ t.active = st.active /\ t.cap = st.cap
         /\ \A t : t = [st EXCEPT !.active = x] =>
                StoreIs(t) /\ t.balance = st.balance /\ t.delegate = st.delegate /\ t.active = x /\ t.cap = st.cap
         /\ \A t : t = [st EXCEPT !.cap = x] =>
                StoreIs(t) /\ t.balance = st.balance /\ t.delegate = st.delegate /\ t.active = st.active /\ t.cap = x
<1>1. st = [balance |-> st.balance, delegate |-> st.delegate, active |-> st.active, cap |-> st.cap]
  BY DEF StoreIs
<1>2. ASSUME NEW t, t = [st EXCEPT !.balance = x]
      PROVE  StoreIs(t) /\ t.balance = x /\ t.delegate = st.delegate /\ t.active = st.active /\ t.cap = st.cap
  <2>1. t = [balance |-> x, delegate |-> st.delegate, active |-> st.active, cap |-> st.cap]
    BY <1>1, <1>2
  <2> QED
    BY ONLY <2>1 DEF StoreIs
<1>3. ASSUME NEW t, t = [st EXCEPT !.delegate = x]
      PROVE  StoreIs(t) /\ t.balance = st.balance /\ t.delegate = x /\ t.active = st.active /\ t.cap = st.cap
  <2>1. t = [balance |-> st.balance, delegate |-> x, active |-> st.active, cap |-> st.cap]
    BY <1>1, <1>3
  <2> QED
    BY ONLY <2>1 DEF StoreIs
<1>4. ASSUME NEW t, t = [st EXCEPT !.active = x]
      PROVE  StoreIs(t) /\ t.balance = st.balance /\ t.delegate = st.delegate /\ t.active = x /\ t.cap = st.cap
  <2>1. t = [balance |-> st.balance, delegate |-> st.delegate, active |-> x, cap |-> st.cap]
    BY <1>1, <1>4
  <2> QED
    BY ONLY <2>1 DEF StoreIs
<1>5. ASSUME NEW t, t = [st EXCEPT !.cap = x]
      PROVE  StoreIs(t) /\ t.balance = st.balance /\ t.delegate = st.delegate /\ t.active = st.active /\ t.cap = x
  <2>1. t = [balance |-> st.balance, delegate |-> st.delegate, active |-> st.active, cap |-> x]
    BY <1>1, <1>5
  <2> QED
    BY ONLY <2>1 DEF StoreIs
<1> QED
  BY <1>2, <1>3, <1>4, <1>5

LEMMA StakeStep ==
  ASSUME PowersInv, NEW m \in Members, Stake(m)
  PROVE  PowersInv'
<1>1. /\ block' = block /\ past' = past /\ stakes' = stakes /\ stakes = TRUE
      /\ delegated' = delegated /\ made' = made /\ ballot' = ballot
  BY ChangeIs DEF Stake, PowersInv
<1>2. PICK n \in 0 .. MaxStake : \E v \in (IF n = 0 THEN {<<0>>, Removed} ELSE {<<n>>}) :
          store' = [store EXCEPT !.balance[m] = Save(@, v),
                                 !.balance[Total] = Save(@, <<OrZero(Cur(store.balance[Total])) + n - Balance(m)>>)]
  BY DEF Stake
<1>20. PICK v \in (IF n = 0 THEN {<<0>>, Removed} ELSE {<<n>>}) :
          store' = [store EXCEPT !.balance[m] = Save(@, v),
                                 !.balance[Total] = Save(@, <<OrZero(Cur(store.balance[Total])) + n - Balance(m)>>)]
  BY <1>2
<1>3. n \in Nat /\ (v = <<n>> \/ (n = 0 /\ v = Removed))
  BY VotingPowerAssumption
<1>4. PICK B : B = store.balance
  OBVIOUS
<1>5. PICK C : C = [B EXCEPT ![m] = Save(@, v),
                             ![Total] = Save(@, <<OrZero(Cur(B[Total])) + n - OrZero(Cur(B[m]))>>)]
  OBVIOUS
<1>6. store' = [store EXCEPT !.balance = C]
  <2>1. store = [balance |-> B, delegate |-> store.delegate, active |-> store.active, cap |-> store.cap]
    BY <1>4 DEF PowersInv, StoreIs
  <2>2. store' = [store EXCEPT !.balance[m] = Save(@, v),
                               !.balance[Total] = Save(@, <<OrZero(Cur(B[Total])) + n - OrZero(Cur(B[m]))>>)]
    BY <1>20, <1>4 DEF Balance
  <2>3. B = [k \in Members \cup {Total} |-> B[k]] /\ m # Total /\ m \in Members \cup {Total}
        /\ Total \in Members \cup {Total}
    BY <1>4, VotingPowerAssumption DEF PowersInv, BalancesOK, Total
  <2>4. PICK b, t : b = Save(B[m], v) /\ t = Save(B[Total], <<OrZero(Cur(B[Total])) + n - OrZero(Cur(B[m]))>>)
    OBVIOUS
  <2>5. C = [B EXCEPT ![m] = b, ![Total] = t]
    BY <1>5, <2>3, <2>4
  <2>6. store' = [store EXCEPT !.balance[m] = b, !.balance[Total] = t]
    BY <1>4, <2>1, <2>2, <2>3, <2>4
  <2>7. store' = [balance |-> [B EXCEPT ![m] = b, ![Total] = t], delegate |-> store.delegate,
                  active |-> store.active, cap |-> store.cap]
    <3>1. PICK s, D : s = [store EXCEPT !.balance[m] = b] /\ D = [B EXCEPT ![m] = b]
      OBVIOUS
    <3>2. s = [balance |-> D, delegate |-> store.delegate, active |-> store.active, cap |-> store.cap]
      BY <2>1, <3>1
    <3>3. store' = [s EXCEPT !.balance[Total] = t]
      BY <2>6, <3>1
    <3>4. [B EXCEPT ![m] = b, ![Total] = t] = [D EXCEPT ![Total] = t]
      BY <3>1
    <3> QED
      BY <3>2, <3>3, <3>4
  <2> QED
    BY <2>1, <2>5, <2>7
<1>7. BalancesOK(B, block, past, TRUE)
  BY <1>1, <1>4 DEF PowersInv
<1>8. BalancesOK(C, block, past, TRUE)
  BY <1>3, <1>5, <1>7, StakeKeeps DEF PowersInv
<1>9. /\ StoreIs(store') /\ store'.balance = C /\ store'.delegate = store.delegate
      /\ store'.active = store.active /\ store'.cap = store.cap
  BY <1>6, StoreParts DEF PowersInv
<1> QED
  BY <1>1, <1>8, <1>9 DEF PowersInv

LEMMA RegisterStep ==
  ASSUME PowersInv, NEW d \in Delegates, Register(d)
  PROVE  PowersInv'
<1>1. /\ block' = block /\ past' = past /\ stakes' = stakes
      /\ delegated' = delegated /\ made' = made /\ ballot' = ballot
  BY ChangeIs DEF Register
<1>2. PICK D : D = store.delegate
  OBVIOUS
<1>3. PICK v : v = IF Exists(D[d].value) THEN Removed ELSE <<TRUE>>
  OBVIOUS
<1>4. PICK E : E = [D EXCEPT ![d] = Save(@, v)]
  OBVIOUS
<1>5. store' = [store EXCEPT !.delegate = E]
  <2>1. store' = [store EXCEPT !.delegate[d] = Save(@, IF Exists(@.value) THEN Removed ELSE <<TRUE>>)]
    BY DEF Register
  <2> QED
    BY <1>2, <1>3, <1>4, <2>1
<1>6. DelegatesOK(D, block, past) /\ v \in {Removed, <<TRUE>>} /\ block \in Nat \ {0}
  BY <1>2, <1>3 DEF PowersInv
<1>7. DelegatesOK(E, block, past)
  BY <1>4, <1>6, RegisterKeeps
<1>8. /\ StoreIs(store') /\ store'.delegate = E /\ store'.balance = store.balance
      /\ store'.active = store.active /\ store'.cap = store.cap
  BY <1>5, StoreParts DEF PowersInv
<1> QED
  BY <1>1, <1>7, <1>8 DEF PowersInv

LEMMA CapStep ==
  ASSUME PowersInv, NEW c \in Caps, SetCap(c)
  PROVE  PowersInv'
<1>1. /\ block' = block /\ past' = past /\ stakes' = stakes
      /\ delegated' = delegated /\ made' = made /\ ballot' = ballot
  BY ChangeIs DEF SetCap
<1>2. PICK E : E = Save(store.cap, <<c>>)
  OBVIOUS
<1>3. store' = [store EXCEPT !.cap = E]
  BY <1>2 DEF SetCap
<1>4. CapOK(store.cap, block, past) /\ block \in Nat \ {0}
  BY DEF PowersInv
<1>5. CapOK(E, block, past)
  BY <1>2, <1>4, CapKeeps
<1>6. /\ StoreIs(store') /\ store'.cap = E /\ store'.balance = store.balance
      /\ store'.delegate = store.delegate /\ store'.active = store.active
  BY <1>3, StoreParts DEF PowersInv
<1> QED
  BY <1>1, <1>5, <1>6 DEF PowersInv

LEMMA DelegateStep ==
  ASSUME PowersInv, NEW m \in Members, NEW d \in Delegates, Delegate(m, d)
  PROVE  PowersInv'
<1>1. block' = block /\ past' = past /\ stakes' = stakes /\ ballot' = ballot
  BY ChangeIs DEF Delegate
<1>2. PICK A, until : A = store.active /\ until = block + Lifetime
  OBVIOUS
<1>3. PICK N : N = [made EXCEPT ![m] = Append(@, d)]
  OBVIOUS
<1>4. PICK B : B = [A EXCEPT ![m] = Save(@, <<{[id |-> Len(N[m]), expiration |-> until, from |-> block]}>>)]
  OBVIOUS
<1>5. PICK X : X = [delegated EXCEPT ![d] = Add(Add(@, block + 1, 1), until, -1)]
  OBVIOUS
<1>6. made' = N /\ delegated' = X
  BY <1>2, <1>3, <1>5 DEF Delegate
<1>7. store' = [store EXCEPT !.active = B]
  <2>1. store' = [store EXCEPT !.active[m] =
               Save(@, <<{[id |-> Len(made'[m]), expiration |-> block + Lifetime, from |-> block]}>>)]
    BY DEF Delegate
  <2> QED
    BY <1>2, <1>4, <1>6, <2>1
<1>8. DelegationsOK(A, made, delegated, block, past) /\ block \in Nat \ {0}
  BY <1>2 DEF PowersInv
<1>9. \A i \in UNION ToSet(Cur(A[m])) : i.expiration <= block
  BY <1>2 DEF Delegate
<1>10. DelegationsOK(B, N, X, block, past)
  <2>1. NewDelegation(A, made, delegated, B, N, X, past, m, d, until)
    BY <1>2, <1>3, <1>4, <1>5, <1>8, <1>9 DEF NewDelegation
  <2> QED
    BY <2>1, DelegateKeeps
<1>11. /\ StoreIs(store') /\ store'.active = B /\ store'.balance = store.balance
       /\ store'.delegate = store.delegate /\ store'.cap = store.cap
  BY <1>7, StoreParts DEF PowersInv
<1> QED
  BY <1>1, <1>6, <1>10, <1>11 DEF PowersInv

LEMMA UndelegateStep ==
  ASSUME PowersInv, NEW m \in Members, Undelegate(m)
  PROVE  PowersInv'
<1>1. block' = block /\ past' = past /\ stakes' = stakes /\ ballot' = ballot /\ made' = made
  BY ChangeIs DEF Undelegate
<1>2. PICK A : A = store.active
  OBVIOUS
<1>3. PICK i \in UNION ToSet(Cur(A[m])) :
          /\ i.expiration > block + 1
          /\ delegated' = [delegated EXCEPT ![made[m][i.id]] = Add(Add(@, block + 1, -1), i.expiration, 1)]
  BY <1>2 DEF Undelegate
<1>4. PICK B : B = [A EXCEPT ![m] = Save(@, <<{}>>)]
  OBVIOUS
<1>5. store' = [store EXCEPT !.active = B]
  BY <1>2, <1>4 DEF Undelegate
<1>6. DelegationsOK(A, made, delegated, block, past) /\ block \in Nat \ {0}
  BY <1>2 DEF PowersInv
<1>7. PICK X : X = delegated'
  OBVIOUS
<1>8. DelegationsOK(B, made, X, block, past)
  BY <1>3, <1>4, <1>6, <1>7, UndelegateKeeps
<1>9. /\ StoreIs(store') /\ store'.active = B /\ store'.balance = store.balance
      /\ store'.delegate = store.delegate /\ store'.cap = store.cap
  BY <1>5, StoreParts DEF PowersInv
<1> QED
  BY <1>1, <1>7, <1>8, <1>9 DEF PowersInv

LEMMA OpenStep ==
  ASSUME PowersInv, OpenProposal
  PROVE  PowersInv'
<1>1. /\ block' = block /\ past' = past /\ stakes' = stakes /\ store' = store
      /\ made' = made /\ delegated' = delegated
      /\ ~stakes /\ ballot.opened = 0 /\ ballot' = [ballot EXCEPT !.opened = block]
  BY DEF OpenProposal
<1>2. BallotOK(ballot, block, past, stakes) /\ block \in Nat \ {0}
  BY DEF PowersInv
<1>3. PICK w : w = [ballot EXCEPT !.opened = block]
  OBVIOUS
<1>4. BallotOK(w, block, past, stakes)
  BY <1>1, <1>2, <1>3, OpenKeeps
<1> QED
  BY <1>1, <1>3, <1>4 DEF PowersInv

LEMMA VoteStep ==
  ASSUME PowersInv, NEW m \in Members, Vote(m)
  PROVE  PowersInv'
<1>1. /\ block' = block /\ past' = past /\ stakes' = stakes /\ store' = store
      /\ made' = made /\ delegated' = delegated
      /\ ballot.opened # 0 /\ m \notin ballot.voted
  BY ChangeIs DEF Vote
<1>2. PICK w : w = ballot'
  OBVIOUS
<1>3. w = [ballot EXCEPT
             !.voted = @ \cup {m},
             !.unvoted = [d \in Delegates |->
                 IF d \in past[ballot.opened].active[m]
                 THEN <<(IF @[d] # <<>> THEN @[d][1] ELSE OrZero(wormholeLoad(delegated[d], ballot.opened))) - 1>>
                 ELSE @[d]]]
  BY <1>2 DEF Vote
<1>4. /\ BallotOK(ballot, block, past, stakes) /\ block \in Nat \ {0}
      /\ DelegationsOK(store.active, made, delegated, block, past)
  BY DEF PowersInv
<1>5. BallotOK(w, block, past, stakes)
  <2>1. NewVote(delegated, past, ballot, w, m)
    BY <1>1, <1>3 DEF NewVote
  <2> QED
    BY <1>4, <2>1, VoteKeeps
<1> QED
  BY <1>1, <1>2, <1>5 DEF PowersInv

LEMMA BlockStep ==
  ASSUME PowersInv, NextBlock
  PROVE  PowersInv'
<1> DEFINE R == [balance |-> [m \in Members |-> Balance(m)],
                 delegate |-> {d \in Delegates : Exists(store.delegate[d].value)},
                 active |-> [m \in Members |->
                     {made[m][i.id] : i \in {x \in UNION ToSet(Cur(store.active[m])) :
                                                  x.expiration > block + 1}}],
                 cap |-> Cur(store.cap)]
<1>1. /\ block' = block + 1 /\ past' = Append(past, R) /\ stakes' = stakes /\ store' = store
      /\ made' = made /\ delegated' = delegated /\ ballot' = ballot
  BY DEF NextBlock
<1>2. /\ block \in Nat \ {0} /\ block \in Nat /\ PastOK(past, block)
      /\ BalancesOK(store.balance, block, past, stakes)
      /\ DelegatesOK(store.delegate, block, past)
      /\ CapOK(store.cap, block, past)
      /\ DelegationsOK(store.active, made, delegated, block, past)
      /\ BallotOK(ballot, block, past, stakes)
  BY DEF PowersInv
<1>3. PICK r : r = R
  OBVIOUS
<1>4. /\ r.balance = [m \in Members |-> OrZero(Cur(store.balance[m]))]
      /\ r.delegate = {d \in Delegates : Exists(store.delegate[d].value)}
      /\ r.active = [m \in Members |->
                     {made[m][i.id] : i \in {x \in UNION ToSet(Cur(store.active[m])) :
                                                  x.expiration > block + 1}}]
      /\ r.cap = Cur(store.cap)
  BY <1>3 DEF Balance
<1>5. r \in PastAt
  <2>1. [m \in Members |-> Balance(m)] \in [Members -> Nat]
    BY <1>2, PowersTyped DEF Balance
  <2>2. Cur(store.cap) \in Some(Caps)
    <3>1. IsSnap(Caps, store.cap, block)
      BY <1>2 DEF CapOK
    <3> QED
      BY <1>2, <3>1, LoadTyped
  <2>3. \A m \in Members :
            {made[m][i.id] : i \in {x \in UNION ToSet(Cur(store.active[m])) : x.expiration > block + 1}}
                \subseteq Delegates
    <3> SUFFICES ASSUME NEW m \in Members, NEW x \in UNION ToSet(Cur(store.active[m]))
                 PROVE  made[m][x.id] \in Delegates
      OBVIOUS
    <3>1. IsSnap(Made(made[m]), store.active[m], block) /\ made[m] \in Seq(Delegates)
      BY <1>2 DEF DelegationsOK
    <3>2. Cur(store.active[m]) \in Some(Made(made[m]))
      BY <1>2, <3>1, LoadTyped
    <3>3. x.id \in 1 .. Len(made[m])
      <4>1. ASSUME NEW i \in [id : 1 .. Len(made[m]), expiration : Nat, from : Nat],
                   Holding(Cur(store.active[m]), i)
            PROVE  x.id \in 1 .. Len(made[m])
        BY <4>1 DEF Holding
      <4> QED
        BY <3>2, <4>1, HeldIs
    <3> QED
      BY <3>1, <3>3, EntriesOf
  <2> QED
    BY <1>3, <2>1, <2>2, <2>3 DEF PastAt
<1> HIDE DEF R
<1>6. PICK q : q = Append(past, r)
  OBVIOUS
<1>7. PastOK(q, block + 1) /\ Succeeds(q, past, block, r)
  BY <1>2, <1>5, <1>6, PastGrows
<1>8. BalancesOK(store.balance, block + 1, q, stakes)
  BY <1>2, <1>4, <1>7, BalancesNext
<1>9. DelegatesOK(store.delegate, block + 1, q)
  BY <1>2, <1>4, <1>7, DelegatesNext
<1>10. CapOK(store.cap, block + 1, q)
  BY <1>2, <1>4, <1>7, CapNext
<1>11. DelegationsOK(store.active, made, delegated, block + 1, q)
  BY <1>2, <1>4, <1>7, DelegationsNext
<1>12. BallotOK(ballot, block + 1, q, stakes)
  BY <1>2, <1>7, BallotNext
<1>13. past' = q /\ block' \in Nat \ {0}
  BY <1>1, <1>2, <1>3, <1>6
<1> QED
  BY <1>1, <1>7, <1>8, <1>9, <1>10, <1>11, <1>12, <1>13 DEF PowersInv

LEMMA PowersStep ==
  ASSUME PowersInv, [VotingPowerNext]_powerVars
  PROVE  PowersInv'
<1>1. CASE UNCHANGED powerVars
  BY <1>1 DEF PowersInv, powerVars
<1>2. CASE VotingPowerNext
  BY <1>2, StakeStep, UndelegateStep, VoteStep, DelegateStep, RegisterStep, CapStep, OpenStep, BlockStep
     DEF VotingPowerNext
<1> QED
  BY <1>1, <1>2

-----------------------------------------------------------------------------
(* What the formulas answer.                                               *)

LEMMA HeightIs ==
  /\ AtHeight({}) = block
  /\ \A h : AtHeight({h}) = h /\ {h} # {}
<1>1. \A h : {h} # {} /\ (CHOOSE x \in {h} : TRUE) = h
  OBVIOUS
<1> QED
  BY <1>1 DEF AtHeight

\* The five voting modules answer alike, but that a cw4 group without a height tells
\* the weight of now.
LEMMA KindsAnswer ==
  ASSUME NEW kind \in Kinds
  PROVE  /\ \A m, h : votingPowerAtHeight(kind, m, {h}) = OrZero(mayLoadAtHeight(store.balance[m], h))
         /\ \A m : votingPowerAtHeight(kind, m, {}) =
                       IF kind = "cw4" THEN Balance(m) ELSE OrZero(mayLoadAtHeight(store.balance[m], block))
         /\ \A h : totalPowerAtHeight(kind, {h}) = OrZero(mayLoadAtHeight(store.balance[Total], h))
         /\ totalPowerAtHeight(kind, {}) =
                IF kind = "cw4" THEN OrZero(Cur(store.balance[Total]))
                ELSE OrZero(mayLoadAtHeight(store.balance[Total], block))
<1>1. /\ \A m, h : SnapshotPower(m, {h}) = OrZero(mayLoadAtHeight(store.balance[m], h))
      /\ \A m : SnapshotPower(m, {}) = OrZero(mayLoadAtHeight(store.balance[m], block))
      /\ \A h : SnapshotTotal({h}) = OrZero(mayLoadAtHeight(store.balance[Total], h))
      /\ SnapshotTotal({}) = OrZero(mayLoadAtHeight(store.balance[Total], block))
  BY HeightIs DEF SnapshotPower, SnapshotTotal
<1>2. /\ \A m, h : member(m, {h}) = OrZero(mayLoadAtHeight(store.balance[m], h))
      /\ \A m : member(m, {}) = Balance(m)
      /\ \A h : totalWeight({h}) = OrZero(mayLoadAtHeight(store.balance[Total], h))
      /\ totalWeight({}) = OrZero(Cur(store.balance[Total]))
  BY HeightIs DEF member, totalWeight
<1>3. CASE kind = "token"
  BY <1>1, <1>3 DEF votingPowerAtHeight, totalPowerAtHeight, tokenStakedPowerAtHeight, tokenStakedTotalPowerAtHeight
<1>4. CASE kind = "native"
  BY <1>1, <1>4 DEF votingPowerAtHeight, totalPowerAtHeight, nativeStakedPowerAtHeight, nativeStakedTotalPowerAtHeight
<1>5. CASE kind = "sg"
  BY <1>1, <1>5 DEF votingPowerAtHeight, totalPowerAtHeight, sgCommunityPowerAtHeight, sgCommunityTotalPowerAtHeight
<1>6. CASE kind = "cw20"
  BY <1>1, <1>6 DEF votingPowerAtHeight, totalPowerAtHeight, cw20StakedPowerAtHeight, cw20StakedTotalPowerAtHeight,
                    stakedBalanceAtHeight, totalStakedAtHeight
<1>7. CASE kind = "cw4"
  BY <1>2, <1>7 DEF votingPowerAtHeight, totalPowerAtHeight, cw4PowerAtHeight, cw4TotalPowerAtHeight
<1> QED
  BY <1>3, <1>4, <1>5, <1>6, <1>7 DEF Kinds

LEMMA PowerIsPastHolds ==
  ASSUME PowersInv
  PROVE  PowerIsPast
<1> SUFFICES ASSUME stakes, NEW m \in Members, NEW kind \in Kinds
             PROVE  /\ \A h \in 1 .. block : votingPowerAtHeight(kind, m, {h}) = past[h].balance[m]
                    /\ votingPowerAtHeight(kind, m, {}) =
                           IF kind = "cw4" THEN Balance(m) ELSE past[block].balance[m]
  BY DEF PowerIsPast
<1>1. BalancesOK(store.balance, block, past, stakes) /\ block \in 1 .. block
  BY DEF PowersInv
<1>2. \A h \in 1 .. block : OrZero(mayLoadAtHeight(store.balance[m], h)) = past[h].balance[m]
  BY <1>1 DEF BalancesOK
<1>3. /\ \A h : votingPowerAtHeight(kind, m, {h}) = OrZero(mayLoadAtHeight(store.balance[m], h))
      /\ votingPowerAtHeight(kind, m, {}) =
             IF kind = "cw4" THEN Balance(m) ELSE OrZero(mayLoadAtHeight(store.balance[m], block))
  BY KindsAnswer
<1> QED
  BY <1>1, <1>2, <1>3

LEMMA TotalIsSumHolds ==
  ASSUME PowersInv
  PROVE  TotalIsSum
<1> SUFFICES ASSUME stakes, NEW kind \in Kinds, NEW height \in {{}} \cup {{h} : h \in 1 .. block + 1}
             PROVE  totalPowerAtHeight(kind, height)
                        = SumFunction([m \in Members |-> votingPowerAtHeight(kind, m, height)])
  BY DEF TotalIsSum
<1>1. BalancesOK(store.balance, block, past, stakes) /\ block \in Nat \ {0}
  BY DEF PowersInv
<1>2. \A h \in 1 .. block + 1 :
          OrZero(mayLoadAtHeight(store.balance[Total], h)) = SumFunctionOnSet(PowersOf(store.balance, h), Members)
  BY <1>1 DEF BalancesOK
<1>3. /\ \A m \in Members : mayLoadAtHeight(store.balance[m], block + 1) = Cur(store.balance[m])
      /\ mayLoadAtHeight(store.balance[Total], block + 1) = Cur(store.balance[Total])
  <2>1. /\ IsSnap(Int, store.balance[Total], block) /\ \A m \in Members : IsSnap(Nat, store.balance[m], block)
        /\ block \in Nat /\ block + 1 \in Nat /\ block + 1 > block
    BY <1>1 DEF BalancesOK
  <2> QED
    BY <2>1, LoadAfter
<1>4. \E g \in 1 .. block + 1 :
          /\ totalPowerAtHeight(kind, height) = OrZero(mayLoadAtHeight(store.balance[Total], g))
          /\ \A m \in Members : votingPowerAtHeight(kind, m, height) = OrZero(mayLoadAtHeight(store.balance[m], g))
  <2>0. block \in 1 .. block + 1 /\ block + 1 \in 1 .. block + 1
    BY <1>1
  <2>1. ASSUME NEW h \in 1 .. block + 1, height = {h}
        PROVE  /\ totalPowerAtHeight(kind, height) = OrZero(mayLoadAtHeight(store.balance[Total], h))
               /\ \A m \in Members : votingPowerAtHeight(kind, m, height) = OrZero(mayLoadAtHeight(store.balance[m], h))
    <3>1. \A m, g : votingPowerAtHeight(kind, m, {g}) = OrZero(mayLoadAtHeight(store.balance[m], g))
      BY KindsAnswer
    <3>2. \A g : totalPowerAtHeight(kind, {g}) = OrZero(mayLoadAtHeight(store.balance[Total], g))
      BY KindsAnswer
    <3> QED
      BY <2>1, <3>1, <3>2
  <2>2. CASE height = {} /\ kind # "cw4"
    <3>1. /\ totalPowerAtHeight(kind, height) = OrZero(mayLoadAtHeight(store.balance[Total], block))
          /\ \A m \in Members : votingPowerAtHeight(kind, m, height) = OrZero(mayLoadAtHeight(store.balance[m], block))
      BY <2>2, KindsAnswer
    <3> QED
      BY <2>0, <3>1
  <2>3. CASE height = {} /\ kind = "cw4"
    <3>1. /\ totalPowerAtHeight(kind, height) = OrZero(mayLoadAtHeight(store.balance[Total], block + 1))
          /\ \A m \in Members : votingPowerAtHeight(kind, m, height) = OrZero(mayLoadAtHeight(store.balance[m], block + 1))
      BY <1>3, <2>3, KindsAnswer DEF Balance
    <3> QED
      BY <2>0, <3>1
  <2> QED
    BY <2>1, <2>2, <2>3
<1>5. PICK g \in 1 .. block + 1 :
          /\ totalPowerAtHeight(kind, height) = OrZero(mayLoadAtHeight(store.balance[Total], g))
          /\ \A m \in Members : votingPowerAtHeight(kind, m, height) = OrZero(mayLoadAtHeight(store.balance[m], g))
  BY <1>4
<1>6. [m \in Members |-> votingPowerAtHeight(kind, m, height)] = PowersOf(store.balance, g)
  <2>1. \A m \in Members : votingPowerAtHeight(kind, m, height) = OrZero(mayLoadAtHeight(store.balance[m], g))
    BY <1>5
  <2>2. [m \in Members |-> votingPowerAtHeight(kind, m, height)]
            = [m \in Members |-> OrZero(mayLoadAtHeight(store.balance[m], g))]
    BY ONLY <2>1
  <2> QED
    BY <2>2 DEF PowersOf
<1>7. SumFunction(PowersOf(store.balance, g)) = SumFunctionOnSet(PowersOf(store.balance, g), Members)
  <2>1. DOMAIN PowersOf(store.balance, g) = Members
    BY DEF PowersOf
  <2> QED
    BY <2>1 DEF SumFunction
<1> QED
  BY <1>2, <1>5, <1>6, <1>7

\* A page that is as long as the group has everyone.
LEMMA PageOfAll ==
  ASSUME NEW K \in SUBSET Members
  PROVE  {k \in K : Cardinality({x \in K : x < k}) < Everyone} = K
<1> SUFFICES ASSUME NEW k \in K PROVE Cardinality({x \in K : x < k}) < Everyone
  OBVIOUS
<1>1. k \in Members /\ {x \in K : x < k} \subseteq Members \ {k}
  <2>1. \A x \in Members : x \in Nat
    BY VotingPowerAssumption
  <2> QED
    BY <2>1
<1>2. /\ IsFiniteSet(Members) /\ IsFiniteSet(Members \ {k})
      /\ Cardinality(Members \ {k}) = Cardinality(Members) - 1 /\ Cardinality(Members) \in Nat
  BY <1>1, VotingPowerAssumption, FS_RemoveElement, FS_CardinalityType
<1>3. Cardinality({x \in K : x < k}) <= Cardinality(Members \ {k}) /\ Cardinality({x \in K : x < k}) \in Nat
  BY <1>1, <1>2, FS_Subset, FS_CardinalityType
<1> QED
  BY <1>2, <1>3 DEF Everyone

Holders == {m \in Members : Exists(store.balance[m].value)}

LEMMA RangeOfAll ==
  ASSUME PowersInv
  PROVE  mapRange(store.balance, 0, Everyone) = Holders
<1> DEFINE K == {k \in DOMAIN store.balance \ {Total} : k > 0 /\ store.balance[k].value # <<>>}
<1>1. store.balance = [k \in Members \cup {Total} |-> store.balance[k]]
  BY DEF PowersInv, BalancesOK
<1>2. DOMAIN store.balance = Members \cup {Total}
  BY <1>1
<1>3. \A k \in Members : k \in Nat /\ k > 0 /\ k # Total
  BY VotingPowerAssumption DEF Total
<1>4. K = {k \in Members : store.balance[k].value # <<>>}
  BY <1>2, <1>3
<1>5. mapRange(store.balance, 0, Everyone) =
          {k \in {k \in K : Cardinality({x \in K : x < k}) < Everyone} : Exists(store.balance[k].value)}
  BY DEF mapRange
<1> HIDE DEF K
<1>6. K \in SUBSET Members
  BY <1>4
<1>7. mapRange(store.balance, 0, Everyone) = {k \in K : Exists(store.balance[k].value)}
  BY <1>5, <1>6, PageOfAll
<1>8. Len(<<>>) # 1
  OBVIOUS
<1> QED
  BY <1>4, <1>7, <1>8 DEF Holders, Exists

LEMMA TopOfAll ==
  ASSUME PowersInv, NEW S \in SUBSET Members
  PROVE  TopBy(S, Everyone) = S
<1> SUFFICES ASSUME NEW m \in S
             PROVE  Cardinality({x \in S : Balance(x) > Balance(m)
                                       \/ (Balance(x) = Balance(m) /\ x < m)}) < Everyone
  BY DEF TopBy
<1> DEFINE T == {x \in S : Balance(x) > Balance(m) \/ (Balance(x) = Balance(m) /\ x < m)}
<1>1. block \in Nat /\ BalancesOK(store.balance, block, past, stakes)
  BY DEF PowersInv
<1>2. \A x \in Members : Balance(x) \in Nat /\ x \in Nat
  BY <1>1, PowersTyped, VotingPowerAssumption DEF Balance
<1>3. m \in Members /\ T \subseteq Members \ {m}
  BY <1>2
<1> HIDE DEF T
<1>4. /\ IsFiniteSet(Members) /\ IsFiniteSet(Members \ {m})
      /\ Cardinality(Members \ {m}) = Cardinality(Members) - 1 /\ Cardinality(Members) \in Nat
  BY <1>3, VotingPowerAssumption, FS_RemoveElement, FS_CardinalityType
<1>5. Cardinality(T) <= Cardinality(Members \ {m}) /\ Cardinality(T) \in Nat
  BY <1>3, <1>4, FS_Subset, FS_CardinalityType
<1> QED
  BY <1>4, <1>5 DEF T, Everyone

\* The shares of those that have a balance, and of any that do not.
LEMMA SharesSum ==
  ASSUME PowersInv, stakes, NEW S \in SUBSET Members, \A m \in Members \ S : Balance(m) = 0, NEW t
  PROVE  SumFunction(SharesOf(S, t).shares) = OrZero(Cur(store.balance[Total])) /\ SharesOf(S, t).of = t
<1> DEFINE f == [k \in S |-> Balance(k)]
           g == PowersOf(store.balance, block + 1)
<1>1. BalancesOK(store.balance, block, past, stakes) /\ block \in Nat /\ block + 1 \in 1 .. block + 1
      /\ block + 1 \in Nat /\ block + 1 > block
  BY DEF PowersInv
<1>2. /\ IsSnap(Int, store.balance[Total], block) /\ \A m \in Members : IsSnap(Nat, store.balance[m], block)
      /\ OrZero(mayLoadAtHeight(store.balance[Total], block + 1)) = SumFunctionOnSet(g, Members)
  BY <1>1 DEF BalancesOK
<1>3. \A m \in Members : g[m] = Balance(m)
  <2>1. \A m \in Members : mayLoadAtHeight(store.balance[m], block + 1) = Cur(store.balance[m])
    BY <1>1, <1>2, LoadAfter
  <2> QED
    BY <2>1 DEF PowersOf, Balance
<1>4. OrZero(Cur(store.balance[Total])) = SumFunctionOnSet(g, Members)
  BY <1>1, <1>2, LoadAfter
<1>5. \A m \in Members : Balance(m) \in Nat
  BY <1>1, PowersTyped DEF Balance
<1>6. DOMAIN f = S /\ \A m \in S : f[m] = Balance(m)
  OBVIOUS
<1>7. SharesOf(S, t).shares = f /\ SharesOf(S, t).of = t
  BY DEF SharesOf
<1> HIDE DEF f, g
<1>8. /\ \A m \in Members : g[m] \in Int
      /\ \A m \in Members \ S : g[m] = 0
      /\ \A m \in S : g[m] \in Int /\ f[m] = g[m]
  BY <1>3, <1>5, <1>6
<1>9. SumFunctionOnSet(g, Members) = SumFunctionOnSet(g, S)
  BY <1>8, VotingPowerAssumption, SumSkips
<1>10. IsFiniteSet(S)
  BY VotingPowerAssumption, FS_Subset
<1>11. SumFunctionOnSet(g, S) = SumFunctionOnSet(f, S)
  BY <1>8, <1>10, SumAlike
<1>12. SumFunction(f) = SumFunctionOnSet(f, S)
  BY <1>6 DEF SumFunction
<1> QED
  BY <1>4, <1>7, <1>9, <1>11, <1>12

LEMMA SharesAddUpHolds ==
  ASSUME PowersInv
  PROVE  SharesAddUp
<1> SUFFICES ASSUME stakes, NEW kind \in Kinds, kind = "cw4" \/ ~Changed
             PROVE  SumFunction(listMembers(kind).shares) = listMembers(kind).of
  BY DEF SharesAddUp
<1>1. block \in Nat /\ BalancesOK(store.balance, block, past, stakes)
  BY DEF PowersInv
<1>2. Holders \in SUBSET Members /\ \A m \in Members \ Holders : Balance(m) = 0
  BY OrZeroIs DEF Holders, Balance, Cur
<1>3. ASSUME ~Changed
      PROVE  OrZero(mayLoadAtHeight(store.balance[Total], block)) = OrZero(Cur(store.balance[Total]))
  <2>1. IsSnap(Int, store.balance[Total], block)
    BY <1>1 DEF BalancesOK
  <2>2. \A i \in DOMAIN store.balance[Total].log : store.balance[Total].log[i].height \in 1 .. block
    BY <2>1, LogIs
  <2>3. \A i \in DOMAIN store.balance[Total].log : store.balance[Total].log[i].height # block
    BY <1>3 DEF Changed
  <2>4. \A i \in DOMAIN store.balance[Total].log : ~(store.balance[Total].log[i].height >= block)
    BY <1>1, <2>2, <2>3
  <2> QED
    BY <2>4, LoadIsNow
<1>4. \A t : SumFunction(SharesOf(Holders, t).shares) = OrZero(Cur(store.balance[Total]))
             /\ SharesOf(Holders, t).of = t
  BY <1>2, SharesSum
<1>5. mapRange(store.balance, 0, Everyone) = Holders
  BY RangeOfAll
<1>6. SnapshotTotal({}) = OrZero(mayLoadAtHeight(store.balance[Total], block))
      /\ totalWeight({}) = OrZero(Cur(store.balance[Total]))
  BY HeightIs DEF SnapshotTotal, totalWeight
<1>7. CASE kind = "token"
  <2>1. listMembers(kind) = SharesOf(Holders, SnapshotTotal({}))
    BY <1>5, <1>7 DEF listMembers, tokenStakedTopStakers, tokenStakedListStakers, tokenStakedTotalPowerAtHeight
  <2> QED
    BY <1>3, <1>4, <1>6, <1>7, <2>1
<1>8. CASE kind = "native"
  <2>1. listMembers(kind) = SharesOf(Holders, SnapshotTotal({}))
    BY <1>5, <1>8 DEF listMembers, nativeStakedTopStakers, nativeStakedListStakers, nativeStakedTotalPowerAtHeight
  <2> QED
    BY <1>3, <1>4, <1>6, <1>8, <2>1
<1>9. CASE kind = "sg"
  <2>1. listMembers(kind) = SharesOf(Holders, SnapshotTotal({}))
    BY <1>5, <1>9 DEF listMembers, sgCommunityAllVotersWithVotingPower, sgCommunityTotalPowerAtHeight
  <2> QED
    BY <1>3, <1>4, <1>6, <1>9, <2>1
<1>10. CASE kind = "cw20"
  <2> DEFINE S == {k \in Members : Exists(store.balance[k].value) /\ Balance(k) > 0}
  <2>1. S \in SUBSET Members /\ \A m \in Members \ S : Balance(m) = 0
    <3>1. \A m \in Members : Balance(m) \in Nat
      BY <1>1, PowersTyped DEF Balance
    <3> QED
      BY <1>2, <3>1 DEF Holders
  <2>2. cw20StakeTopStakers(Everyone) = TopBy(S, Everyone)
    BY DEF cw20StakeTopStakers
  <2> HIDE DEF S
  <2>3. TopBy(S, Everyone) = S
    BY <2>1, TopOfAll
  <2>4. listMembers(kind) = SharesOf(S, SnapshotTotal({}))
    BY <1>10, <2>2, <2>3 DEF listMembers, cw20StakedTopStakers, cw20StakedTotalPowerAtHeight, totalStakedAtHeight
  <2>5. SumFunction(SharesOf(S, SnapshotTotal({})).shares) = OrZero(Cur(store.balance[Total]))
        /\ SharesOf(S, SnapshotTotal({})).of = SnapshotTotal({})
    BY <2>1, SharesSum
  <2> QED
    BY <1>3, <1>6, <1>10, <2>4, <2>5
<1>11. CASE kind = "cw4"
  <2>1. listMembers(kind) = SharesOf(Holders, totalWeight({}))
    BY <1>5, <1>11 DEF listMembers, listMembersOfGroup
  <2> QED
    BY <1>4, <1>6, <2>1
<1> QED
  BY <1>7, <1>8, <1>9, <1>10, <1>11 DEF Kinds

-----------------------------------------------------------------------------
(* Reading the stakers page by page.                                       *)

LEMMA ListIsRange ==
  ASSUME NEW kind \in Kinds, NEW a, NEW limit
  PROVE  ListStakers(kind, a, limit) = mapRange(Entries(kind), a, limit)
<1>1. CASE kind = "token"
  BY <1>1 DEF ListStakers, tokenStakedListStakers, Entries
<1>2. CASE kind = "native"
  BY <1>2 DEF ListStakers, nativeStakedListStakers, Entries
<1>3. CASE kind = "sg"
  BY <1>3 DEF ListStakers, sgCommunityListVoters, Entries
<1>4. CASE kind = "cw20"
  BY <1>4 DEF ListStakers, cw20StakeListStakers, Entries
<1>5. CASE kind = "cw4"
  BY <1>5 DEF ListStakers, listMembersOfGroup, Entries
<1> QED
  BY <1>1, <1>2, <1>3, <1>4, <1>5 DEF Kinds

\* The keys of the map a module pages through, voters' tokens included.
LEMMA EntriesAre ==
  ASSUME PowersInv, NEW kind \in Kinds
  PROVE  /\ DOMAIN Entries(kind) \ {Total} = Members
         /\ \A k \in Members : LET x == Entries(kind)[k].value
                               IN  x = <<>> \/ x = Removed \/ Len(x) = 1
<1>1. store.balance = [k \in Members \cup {Total} |-> store.balance[k]]
      /\ \A m \in Members : IsSnap(Nat, store.balance[m], block)
  BY DEF PowersInv, BalancesOK
<1>2. \A k \in Members : k # Total
  BY VotingPowerAssumption DEF Total
<1>3. ASSUME kind = "sg"
      PROVE  /\ DOMAIN Entries(kind) \ {Total} = Members
             /\ \A k \in Members : LET x == Entries(kind)[k].value
                                   IN  x = <<>> \/ x = Removed \/ Len(x) = 1
  <2>1. Entries(kind) = voterTokens
    BY <1>3 DEF Entries
  <2>2. \A k \in Members : LET x == voterTokens[k].value
                          IN  x = <<>> \/ x = Removed \/ x = <<k>>
    BY DEF voterTokens
  <2>3. \A k \in Members : Len(<<k>>) = 1
    OBVIOUS
  <2>4. DOMAIN voterTokens = Members
    BY DEF voterTokens
  <2> QED
    BY <1>2, <2>1, <2>2, <2>3, <2>4
<1>4. ASSUME kind # "sg"
      PROVE  /\ DOMAIN Entries(kind) \ {Total} = Members
             /\ \A k \in Members : LET x == Entries(kind)[k].value
                                   IN  x = <<>> \/ x = Removed \/ Len(x) = 1
  <2>1. Entries(kind) = store.balance
    BY <1>4 DEF Entries
  <2>2. DOMAIN store.balance = Members \cup {Total}
    BY <1>1
  <2>3. ASSUME NEW k \in Members
        PROVE  LET x == store.balance[k].value IN x = <<>> \/ x = Removed \/ Len(x) = 1
    <3>1. PICK x : x = store.balance[k].value
      OBVIOUS
    <3>2. x \in Values(Nat)
      BY <1>1, <3>1, LogIs
    <3>3. \A v : Len(<<v>>) = 1
      OBVIOUS
    <3>4. x = Removed \/ x = <<>> \/ \E v \in Nat : x = <<v>>
      BY <3>2 DEF Values, Some
    <3> QED
      BY <3>1, <3>3, <3>4
  <2> QED
    BY <1>2, <2>1, <2>2, <2>3
<1> QED
  BY <1>3, <1>4

\* Where no key was removed a page has the first stakers after its start.
NoneRemoved(kind) == \A m \in Members : Entries(kind)[m].value # Removed

Stakers(kind) == {m \in Members : Exists(Entries(kind)[m].value)}

FirstOf(page, T, limit) == page = {k \in T : Cardinality({x \in T : x < k}) < limit}

LEMMA FirstAre ==
  ASSUME NEW T \in SUBSET Nat, IsFiniteSet(T), NEW limit \in Nat \ {0}, NEW page, FirstOf(page, T, limit)
  PROVE  /\ IsFiniteSet(page) /\ Cardinality(page) \in Nat
         /\ \A k \in page, i \in T : i < k => i \in page
         /\ Cardinality(page) < limit => page = T
<1>1. page = {k \in T : Cardinality({i \in T : i < k}) < limit}
  BY DEF FirstOf
<1> QED
  BY <1>1, PagesAre

LEMMA PowerPageIs ==
  ASSUME PowersInv, NEW kind \in Kinds, NoneRemoved(kind), NEW a \in Nat, NEW limit \in Nat \ {0}, NEW T,
         T = {k \in Stakers(kind) : k > a}
  PROVE  FirstOf(ListStakers(kind, a, limit), T, limit)
<1>0. PICK map : map = Entries(kind)
  OBVIOUS
<1> DEFINE K == {k \in DOMAIN map \ {Total} : k > a /\ map[k].value # <<>>}
<1>1. DOMAIN map \ {Total} = Members
  BY <1>0, EntriesAre
<1>4. \A k \in Members : map[k].value # <<>> <=> Exists(map[k].value)
  <2> SUFFICES ASSUME NEW k \in Members
               PROVE  map[k].value # <<>> <=> Exists(map[k].value)
    OBVIOUS
  <2>1. PICK x : x = map[k].value
    OBVIOUS
  <2>2. x = <<>> \/ Len(x) = 1
    BY <1>0, <2>1, EntriesAre DEF NoneRemoved
  <2>3. Len(<<>>) # 1
    OBVIOUS
  <2> QED
    BY <2>1, <2>2, <2>3 DEF Exists
<1>5. K = T
  BY <1>0, <1>1, <1>4 DEF Stakers
<1>6. mapRange(map, a, limit) =
          {k \in {k \in K : Cardinality({x \in K : x < k}) < limit} : Exists(map[k].value)}
  BY DEF mapRange
<1> HIDE DEF K
<1>7. \A k \in T : Exists(map[k].value)
  BY <1>0 DEF Stakers
<1>8. mapRange(map, a, limit) = {k \in T : Cardinality({x \in T : x < k}) < limit}
  BY <1>5, <1>6, <1>7
<1> QED
  BY <1>0, <1>8, ListIsRange DEF FirstOf

\* A page as long as the group has them all.
LEMMA ListOfAll ==
  ASSUME PowersInv, NEW kind \in Kinds, NoneRemoved(kind), Everyone \in Nat \ {0}
  PROVE  ListStakers(kind, 0, Everyone) = Stakers(kind)
<1> DEFINE T == {k \in Stakers(kind) : k > 0}
<1>1. T = Stakers(kind) /\ T \in SUBSET Members
  <2>1. \A k \in Members : k > 0
    BY VotingPowerAssumption
  <2>2. Stakers(kind) \subseteq Members
    BY DEF Stakers
  <2> QED
    BY <2>1, <2>2
<1> HIDE DEF T
<1>2. FirstOf(ListStakers(kind, 0, Everyone), T, Everyone)
  <2>1. T = {k \in Stakers(kind) : k > 0}
    BY DEF T
  <2> QED
    BY <2>1, PowerPageIs
<1> QED
  BY <1>1, <1>2, PageOfAll DEF FirstOf

Start == [seen |-> {}, twice |-> FALSE, done |-> FALSE]

PageWalk(kind, limit, st) ==
    IF st.done THEN st
    ELSE LET page == ListStakers(kind, Max({0} \cup st.seen), limit)
         IN  [seen |-> st.seen \cup page, twice |-> st.twice \/ st.seen \cap page # {},
              done |-> Cardinality(page) < limit]

Steps == DOMAIN [i \in 1 .. Everyone + 1 |-> i]

\* What the fold computes for every set of steps.
Walks(kind, limit, it) ==
    it = [s \in SUBSET Steps |-> IF s = {} THEN Start ELSE PageWalk(kind, limit, it[s \ {Max(s)}])]

LEMMA WalkIs ==
  ASSUME NEW kind, NEW limit
  PROVE  Walk(kind, limit) = (CHOOSE it : Walks(kind, limit, it))[Steps]
BY DEF Walk, FoldLeft, MapThenFoldSet, Walks, PageWalk, Start, Steps

LEMMA SomeSteps ==
  /\ Everyone \in Nat /\ IsFiniteSet(Steps) /\ Cardinality(Steps) = Everyone + 1
  /\ \A s \in SUBSET Steps : /\ IsFiniteSet(s) /\ Cardinality(s) \in Nat
                             /\ s = {} <=> Cardinality(s) = 0
                             /\ s # {} => /\ Cardinality(s \ {Max(s)}) = Cardinality(s) - 1
                                          /\ s \ {Max(s)} \in SUBSET Steps
<1>1. Everyone \in Nat /\ Everyone + 1 \in Nat /\ 1 \in Nat
  BY VotingPowerAssumption, FS_CardinalityType DEF Everyone
<1>2. Steps = 1 .. Everyone + 1
  BY DEF Steps
<1>3. IsFiniteSet(Steps) /\ Cardinality(Steps) = Everyone + 1
  BY <1>1, <1>2, FS_Interval
<1>4. ASSUME NEW s \in SUBSET Steps
      PROVE  /\ IsFiniteSet(s) /\ Cardinality(s) \in Nat
             /\ s = {} <=> Cardinality(s) = 0
             /\ s # {} => /\ Cardinality(s \ {Max(s)}) = Cardinality(s) - 1
                          /\ s \ {Max(s)} \in SUBSET Steps
  <2>1. IsFiniteSet(s) /\ Cardinality(s) \in Nat
    BY <1>3, FS_Subset, FS_CardinalityType
  <2>2. s = {} <=> Cardinality(s) = 0
    BY <2>1, FS_EmptySet
  <2>3. ASSUME s # {} PROVE Cardinality(s \ {Max(s)}) = Cardinality(s) - 1
    <3>1. Max(s) \in s
      BY <1>1, <1>2, <2>3, MaxIs
    <3> QED
      BY <2>1, <3>1, FS_RemoveElement
  <2> QED
    BY <2>1, <2>2, <2>3
<1> QED
  BY <1>1, <1>3, <1>4

LEMMA WalkExists ==
  ASSUME PowersInv, NEW kind \in Kinds, NEW limit
  PROVE  \E it : Walks(kind, limit, it)
<1> DEFINE S == [seen : SUBSET Members, twice : BOOLEAN, done : BOOLEAN]
           next == [i \in Nat \ {0} |-> i - 1]
           G == [i \in Nat \ {0} |-> [st \in S |-> PageWalk(kind, limit, st)]]
<1>1. \A a : ListStakers(kind, a, limit) \subseteq Members
  <2>2. DOMAIN Entries(kind) \ {Total} = Members
    BY EntriesAre
  <2>3. \A a : mapRange(Entries(kind), a, limit) \subseteq Members
    BY <2>2 DEF mapRange
  <2> QED
    BY <2>3, ListIsRange
<1>2. Start \in S
  BY DEF Start
<1>3. \A st \in S : PageWalk(kind, limit, st) \in S
  BY <1>1 DEF PageWalk
<1>4. next \in [Nat \ {0} -> Nat] /\ \A i \in Nat \ {0} : next[i] = i - 1 /\ next[i] < i
  OBVIOUS
<1>5. G \in [Nat \ {0} -> [S -> S]] /\ \A i \in Nat \ {0} : \A st \in S : G[i][st] = PageWalk(kind, limit, st)
  BY <1>3
<1>6. Smaller(next)
  BY <1>4 DEF Smaller
<1> HIDE DEF next, G, S
<1>7. PICK f : Recurs(f, S, Start, next, G)
  <2>1. \E f : Recurs(f, S, Start, next, G)
    BY <1>2, <1>5, <1>6, Recursion
  <2> QED
    BY <2>1
<1>8. f \in [Nat -> S] /\ f[0] = Start /\ \A i \in Nat \ {0} : f[i] = G[i][f[next[i]]]
  BY <1>7 DEF Recurs
<1>9. \A i \in Nat \ {0} : f[i] = PageWalk(kind, limit, f[i - 1])
  <2> SUFFICES ASSUME NEW i \in Nat \ {0} PROVE f[i] = PageWalk(kind, limit, f[i - 1])
    OBVIOUS
  <2>1. i - 1 \in Nat /\ f[i - 1] \in S
    BY <1>8
  <2> QED
    BY <1>4, <1>5, <1>8, <2>1
<1> DEFINE it == [s \in SUBSET Steps |-> f[Cardinality(s)]]
<1>10. \A s \in SUBSET Steps : it[s] = IF s = {} THEN Start ELSE PageWalk(kind, limit, it[s \ {Max(s)}])
  <2> SUFFICES ASSUME NEW s \in SUBSET Steps
               PROVE  it[s] = IF s = {} THEN Start ELSE PageWalk(kind, limit, it[s \ {Max(s)}])
    OBVIOUS
  <2>1. CASE s = {}
    BY <1>8, <2>1, SomeSteps
  <2>2. CASE s # {}
    <3>1. /\ Cardinality(s) \in Nat \ {0} /\ s \ {Max(s)} \in SUBSET Steps
          /\ Cardinality(s \ {Max(s)}) = Cardinality(s) - 1
      BY <2>2, SomeSteps
    <3> QED
      BY <1>9, <2>2, <3>1
  <2> QED
    BY <2>1, <2>2
<1>11. it = [s \in SUBSET Steps |-> it[s]]
  OBVIOUS
<1> HIDE DEF it
<1>12. it = [s \in SUBSET Steps |-> IF s = {} THEN Start ELSE PageWalk(kind, limit, it[s \ {Max(s)}])]
  BY <1>10, <1>11
<1> QED
  BY <1>12 DEF Walks

\* The stakers seen after n pages are the first ones, each seen once.
WalkHas(kind, st, n) ==
    /\ st.seen \subseteq Stakers(kind)
    /\ \A k \in st.seen, i \in Stakers(kind) : i < k => i \in st.seen
    /\ st.twice = FALSE
    /\ st.done => st.seen = Stakers(kind)
    /\ ~st.done => Cardinality(st.seen) >= n

LEMMA SomeStakers ==
  ASSUME NEW kind
  PROVE  /\ Stakers(kind) \in SUBSET Members /\ Stakers(kind) \in SUBSET Nat /\ IsFiniteSet(Stakers(kind))
         /\ \A k \in Stakers(kind) : k \in Nat /\ k > 0
         /\ \A s \in SUBSET Stakers(kind) : IsFiniteSet(s) /\ Cardinality(s) \in Nat /\ Cardinality(s) <= Everyone
<1>1. Stakers(kind) \in SUBSET Members
  BY DEF Stakers
<1>2. \A k \in Members : k \in Nat /\ k > 0
  BY VotingPowerAssumption
<1>3. IsFiniteSet(Members)
  BY VotingPowerAssumption
<1>4. IsFiniteSet(Stakers(kind))
  BY <1>1, <1>3, FS_Subset
<1>5. ASSUME NEW s \in SUBSET Stakers(kind)
      PROVE  IsFiniteSet(s) /\ Cardinality(s) \in Nat /\ Cardinality(s) <= Everyone
  <2>1. s \in SUBSET Members
    BY <1>1
  <2> QED
    BY <1>3, <2>1, FS_Subset, FS_CardinalityType DEF Everyone
<1> QED
  BY <1>1, <1>2, <1>4, <1>5

LEMMA WalkStepHas ==
  ASSUME PowersInv, NEW kind \in Kinds, NoneRemoved(kind), NEW limit \in Nat \ {0},
         NEW n \in Nat, NEW st, WalkHas(kind, st, n)
  PROVE  WalkHas(kind, PageWalk(kind, limit, st), n + 1)
<1>1. CASE st.done
  BY <1>1 DEF WalkHas, PageWalk
<1>2. CASE ~st.done
  <2> DEFINE seen == st.seen
             a == Max({0} \cup seen)
             T == {k \in Stakers(kind) : k > a}
             page == ListStakers(kind, a, limit)
  <2>1. /\ seen \subseteq Stakers(kind) /\ \A k \in seen, i \in Stakers(kind) : i < k => i \in seen
        /\ st.twice = FALSE /\ Cardinality(seen) >= n
    BY <1>2 DEF WalkHas
  <2>2. PageWalk(kind, limit, st) =
            [seen |-> seen \cup page, twice |-> st.twice \/ seen \cap page # {}, done |-> Cardinality(page) < limit]
    BY <1>2 DEF PageWalk
  <2>21. seen \in SUBSET Stakers(kind) /\ seen \in SUBSET Nat
    <3>1. seen \in SUBSET Stakers(kind)
      BY <2>1
    <3> HIDE DEF seen
    <3> QED
      BY <3>1, SomeStakers
  <2>3. a \in {0} \cup seen /\ \A k \in {0} \cup seen : k <= a
    <3> HIDE DEF seen
    <3>1. IsFiniteSet(seen) /\ {0} \cup seen \in SUBSET Nat
      BY <2>21, SomeStakers
    <3>2. IsFiniteSet({0} \cup seen)
      BY <3>1, FS_AddElement
    <3> QED
      BY <3>1, <3>2, MaxOf
  <2> HIDE DEF a
  <2>4. a \in Nat
    BY <2>21, <2>3
  <2>5. page = {k \in T : Cardinality({x \in T : x < k}) < limit}
    <3>1. T = {k \in Stakers(kind) : k > a}
      OBVIOUS
    <3> HIDE DEF T
    <3>2. FirstOf(ListStakers(kind, a, limit), T, limit)
      BY <2>4, <3>1, PowerPageIs
    <3> QED
      BY <3>2 DEF FirstOf
  <2>6. T \in SUBSET Nat /\ IsFiniteSet(T) /\ T \in SUBSET Stakers(kind)
    <3>1. T \in SUBSET Stakers(kind)
      OBVIOUS
    <3> HIDE DEF T
    <3> QED
      BY <3>1, SomeStakers
  <2> HIDE DEF page, seen, a
  <2>7. /\ IsFiniteSet(page) /\ Cardinality(page) \in Nat
        /\ \A k \in page, i \in T : i < k => i \in page
        /\ Cardinality(page) < limit => page = T
    <3> HIDE DEF T
    <3>1. T \in SUBSET Nat /\ IsFiniteSet(T)
      BY <2>6
    <3>2. limit \in Nat \ {0}
      OBVIOUS
    <3>3. FirstOf(page, T, limit)
      BY <2>5 DEF FirstOf
    <3> QED
      BY ONLY <3>1, <3>2, <3>3, FirstAre
  <2>8. page \subseteq T
    BY <2>5
  <2>9. \A k \in Stakers(kind) : k \in seen <=> ~(k \in T)
    <3> SUFFICES ASSUME NEW k \in Stakers(kind) PROVE k \in seen <=> ~(k \in T)
      OBVIOUS
    <3>0. k \in Nat /\ k > 0
      BY SomeStakers
    <3>1. ASSUME k \in seen PROVE ~(k \in T)
      BY <2>3, <2>4, <3>0, <3>1
    <3>2. ASSUME ~(k \in T) PROVE k \in seen
      <4>1. k <= a
        BY <2>4, <3>0, <3>2
      <4>2. a \in seen
        BY <2>3, <2>4, <3>0, <4>1
      <4>3. CASE k = a
        BY <4>2, <4>3
      <4>4. CASE k # a
        <5>1. k < a
          BY <2>4, <3>0, <4>1, <4>4
        <5> QED
          BY <2>1, <4>2, <5>1
      <4> QED
        BY <4>3, <4>4
    <3> QED
      BY <3>1, <3>2
  <2> HIDE DEF T
  <2>10. seen \cup page \subseteq Stakers(kind)
    BY <2>1, <2>6, <2>8
  <2>11. seen \cap page = {}
    BY <2>1, <2>8, <2>9
  <2>12. \A k \in seen \cup page, i \in Stakers(kind) : i < k => i \in seen \cup page
    BY <2>1, <2>7, <2>9
  <2>13. Cardinality(page) < limit => seen \cup page = Stakers(kind)
    BY <2>1, <2>6, <2>7, <2>9
  <2>14. ~(Cardinality(page) < limit) => Cardinality(seen \cup page) >= n + 1
    <3> SUFFICES ASSUME ~(Cardinality(page) < limit) PROVE Cardinality(seen \cup page) >= n + 1
      OBVIOUS
    <3>1. Cardinality(page) > 0
      BY <2>7
    <3>2. page # {}
      BY <3>1, FS_EmptySet
    <3>3. PICK k \in page : k \notin seen
      BY <2>11, <3>2
    <3>4. IsFiniteSet(seen) /\ IsFiniteSet(seen \cup page) /\ Cardinality(seen) \in Nat
          /\ Cardinality(seen \cup page) \in Nat
      BY <2>1, <2>10, SomeStakers
    <3>5. Cardinality(seen \cup {k}) = Cardinality(seen) + 1
      BY <3>3, <3>4, FS_AddElement
    <3>6. Cardinality(seen \cup {k}) <= Cardinality(seen \cup page)
      <4>1. seen \cup {k} \subseteq seen \cup page
        OBVIOUS
      <4> QED
        BY <3>4, <4>1, FS_Subset
    <3> QED
      BY <2>1, <3>4, <3>5, <3>6
  <2>15. PICK w : w = PageWalk(kind, limit, st)
    OBVIOUS
  <2>16. w.seen = seen \cup page /\ w.twice = FALSE /\ w.done = (Cardinality(page) < limit)
    <3>1. (st.twice \/ seen \cap page # {}) = FALSE
      BY <2>1, <2>11
    <3>2. w = [seen |-> seen \cup page, twice |-> FALSE, done |-> Cardinality(page) < limit]
      BY <2>2, <2>15, <3>1
    <3> QED
      BY ONLY <3>2
  <2> QED
    BY <2>10, <2>12, <2>13, <2>14, <2>15, <2>16 DEF WalkHas
<1> QED
  BY <1>1, <1>2

LEMMA WalkInduct ==
  ASSUME PowersInv, NEW kind \in Kinds, NoneRemoved(kind), NEW limit \in Nat \ {0}, NEW it, Walks(kind, limit, it)
  PROVE  WalkHas(kind, it[Steps], Everyone + 1)
<1>1. \A s \in SUBSET Steps : it[s] = IF s = {} THEN Start ELSE PageWalk(kind, limit, it[s \ {Max(s)}])
  BY DEF Walks
<1> DEFINE P == {n \in Nat : \A s \in SUBSET Steps : Cardinality(s) = n => WalkHas(kind, it[s], n)}
<1>2. 0 \in P
  <2>1. WalkHas(kind, Start, 0)
    <3>1. Start.seen = {} /\ Start.twice = FALSE /\ Start.done = FALSE
      BY DEF Start
    <3>2. Cardinality({}) >= 0
      BY FS_EmptySet
    <3> QED
      BY <3>1, <3>2 DEF WalkHas
  <2> QED
    BY <1>1, <2>1, SomeSteps
<1>3. ASSUME NEW n \in Nat, n \in P PROVE n + 1 \in P
  <2> SUFFICES ASSUME NEW s \in SUBSET Steps, Cardinality(s) = n + 1 PROVE WalkHas(kind, it[s], n + 1)
    OBVIOUS
  <2>1. s # {}
    <3>1. n + 1 # 0
      OBVIOUS
    <3> QED
      BY <3>1, SomeSteps
  <2>2. s \ {Max(s)} \in SUBSET Steps /\ Cardinality(s \ {Max(s)}) = n
    BY <2>1, SomeSteps
  <2>3. WalkHas(kind, it[s \ {Max(s)}], n)
    BY <1>3, <2>2
  <2>4. it[s] = PageWalk(kind, limit, it[s \ {Max(s)}])
    BY <1>1, <2>1
  <2> QED
    BY <2>3, <2>4, WalkStepHas
<1> HIDE DEF P
<1>4. \A n \in Nat : n \in P
  BY <1>2, <1>3, Successors
<1>5. Everyone + 1 \in P /\ Steps \in SUBSET Steps /\ Cardinality(Steps) = Everyone + 1
  BY <1>4, SomeSteps
<1> QED
  BY <1>5 DEF P

LEMMA PagesFindStakersHolds ==
  ASSUME PowersInv
  PROVE  PagesFindStakers
<1> SUFFICES ASSUME NEW kind \in Kinds, NoneRemoved(kind), NEW limit \in 1 .. Everyone
             PROVE  Walk(kind, limit).seen = ListStakers(kind, 0, Everyone) /\ ~Walk(kind, limit).twice
  BY DEF PagesFindStakers, NoneRemoved
<1>1. limit \in Nat \ {0} /\ Everyone \in Nat \ {0}
  BY SomeSteps
<1> DEFINE it == CHOOSE it : Walks(kind, limit, it)
<1>2. Walks(kind, limit, it)
  BY WalkExists
<1>3. Walk(kind, limit) = it[Steps]
  BY WalkIs
<1> HIDE DEF it
<1>4. WalkHas(kind, Walk(kind, limit), Everyone + 1)
  BY <1>1, <1>2, <1>3, WalkInduct
<1>5. Walk(kind, limit).done
  <2>1. Cardinality(Walk(kind, limit).seen) \in Nat /\ Cardinality(Walk(kind, limit).seen) <= Everyone
    BY <1>4, SomeStakers DEF WalkHas
  <2> QED
    BY <1>1, <1>4, <2>1 DEF WalkHas
<1>6. ListStakers(kind, 0, Everyone) = Stakers(kind)
  BY <1>1, ListOfAll
<1> QED
  BY <1>4, <1>5, <1>6 DEF WalkHas

-----------------------------------------------------------------------------
(* Delegations, and what is left of them to vote with.                     *)

LEMMA LoadIsLive ==
  ASSUME PowersInv, NEW m \in Members, NEW h \in Nat
  PROVE  snapshotVectorMapLoad(m, h, 0, 1) = Live(mayLoadAtHeight(store.active[m], h), h)
<1>1. PICK x : x = mayLoadAtHeight(store.active[m], h)
  OBVIOUS
<1>2. x \in Some(Made(made[m]))
  <2>1. IsSnap(Made(made[m]), store.active[m], block) /\ block \in Nat
    BY DEF PowersInv, DelegationsOK
  <2> QED
    BY <1>1, <2>1, LoadTyped
<1>3. PICK live : live = Live(x, h)
  OBVIOUS
<1>4. snapshotVectorMapLoad(m, h, 0, 1) =
          {i \in live : Cardinality({y \in live : y.id < i.id}) >= 0 /\ Cardinality({y \in live : y.id < i.id}) < 0 + 1}
  BY <1>1, <1>3 DEF snapshotVectorMapLoad, Live
<1>5. ASSUME NEW i \in live PROVE Cardinality({y \in live : y.id < i.id}) = 0
  <2>1. ASSUME NEW j \in [id : 1 .. Len(made[m]), expiration : Nat, from : Nat], Holding(x, j)
        PROVE  {y \in live : y.id < i.id} = {}
    <3>1. live \subseteq {j}
      BY <1>3, <2>1 DEF Holding
    <3>2. j.id \in Nat /\ i = j
      BY <3>1
    <3>3. \A y \in live : ~(y.id < i.id)
      BY <3>1, <3>2
    <3> QED
      BY <3>3
  <2>2. ASSUME \A g \in Nat : Live(x, g) = {} PROVE {y \in live : y.id < i.id} = {}
    <3>1. live = {}
      BY <1>3, <2>2
    <3> QED
      BY ONLY <3>1
  <2>3. {y \in live : y.id < i.id} = {}
    <3>1. \/ UNION ToSet(x) = {} /\ \A g \in Nat : Live(x, g) = {}
          \/ \E j \in [id : 1 .. Len(made[m]), expiration : Nat, from : Nat] : Holding(x, j)
      BY <1>2, HeldIs
    <3>2. CASE \A g \in Nat : Live(x, g) = {}
      BY ONLY <2>2, <3>2
    <3>3. ASSUME NEW j \in [id : 1 .. Len(made[m]), expiration : Nat, from : Nat], Holding(x, j)
          PROVE  {y \in live : y.id < i.id} = {}
      BY ONLY <2>1, <3>3
    <3> QED
      BY ONLY <3>1, <3>2, <3>3, Zenon
  <2> QED
    BY <2>3, FS_EmptySet
<1>6. snapshotVectorMapLoad(m, h, 0, 1) = live
  <2>1. \A i \in live : Cardinality({y \in live : y.id < i.id}) >= 0 /\ Cardinality({y \in live : y.id < i.id}) < 0 + 1
    <3> SUFFICES ASSUME NEW i \in live
                 PROVE  Cardinality({y \in live : y.id < i.id}) >= 0 /\ Cardinality({y \in live : y.id < i.id}) < 0 + 1
      OBVIOUS
    <3>1. PICK c : c = Cardinality({y \in live : y.id < i.id})
      OBVIOUS
    <3>2. c = 0
      BY <1>5, <3>1
    <3> QED
      BY <3>1, <3>2
  <2> QED
    BY <1>4, <2>1, Zenon
<1> QED
  BY <1>1, <1>3, <1>6

LEMMA DelegationsAre ==
  ASSUME PowersInv, NEW m \in Members, NEW h \in Nat
  PROVE  /\ {x.delegate : x \in delegations(m, h, 0, 1)} = At(store.active, made, m, h)
         /\ \A d : (\E x \in delegations(m, h, 0, 1) : x.delegate = d) <=> d \in At(store.active, made, m, h)
<1>1. PICK live : live = Live(mayLoadAtHeight(store.active[m], h), h)
  OBVIOUS
<1>2. snapshotVectorMapLoad(m, h, 0, 1) = live
  BY <1>1, LoadIsLive
<1> DEFINE D(i) == [delegate |-> made[m][i.id], active |-> mayLoadAtHeight(store.delegate[made[m][i.id]], h) # <<>>]
<1>3. delegations(m, h, 0, 1) = {D(i) : i \in live}
  BY <1>2 DEF delegations
<1>4. \A i : D(i).delegate = made[m][i.id]
  OBVIOUS
<1>5. At(store.active, made, m, h) = {made[m][i.id] : i \in live}
  BY <1>1 DEF At
<1> HIDE DEF D
<1>6. \A d : (\E x \in delegations(m, h, 0, 1) : x.delegate = d) <=> d \in At(store.active, made, m, h)
  <2> SUFFICES ASSUME NEW d
               PROVE  (\E x \in delegations(m, h, 0, 1) : x.delegate = d) <=> d \in At(store.active, made, m, h)
    OBVIOUS
  <2>1. (\E x \in delegations(m, h, 0, 1) : x.delegate = d) <=> \E i \in live : made[m][i.id] = d
    BY <1>3, <1>4
  <2> QED
    BY <1>5, <2>1
<1>7. \A d : d \in {x.delegate : x \in delegations(m, h, 0, 1)} <=> d \in At(store.active, made, m, h)
  BY <1>6
<1> QED
  BY <1>6, <1>7

LEMMA DelegatedIsActiveHolds ==
  ASSUME PowersInv
  PROVE  DelegatedIsActive
<1> SUFFICES ASSUME NEW h \in 1 .. block, NEW d \in Delegates, NEW power,
                    power = Cardinality({m \in Members : \E x \in delegations(m, h, 0, 1) : x.delegate = d})
             PROVE  /\ registration(d, {h}).power = power
                    /\ h = block /\ d \in DOMAIN delegates(0, Cardinality(Delegates)) =>
                           delegates(0, Cardinality(Delegates))[d] = power
  BY DEF DelegatedIsActive
<1>1. h \in Nat \ {0} /\ h \in Nat
  BY DEF PowersInv
<1>2. {m \in Members : \E x \in delegations(m, h, 0, 1) : x.delegate = d}
          = {m \in Members : d \in At(store.active, made, m, h)}
  <2>1. \A m \in Members : (\E x \in delegations(m, h, 0, 1) : x.delegate = d) <=> d \in At(store.active, made, m, h)
    BY <1>1, DelegationsAre
  <2> QED
    BY <2>1
<1>3. Counts(store.active, made, delegated)
  BY DEF PowersInv, DelegationsOK
<1>4. OrZero(wormholeLoad(delegated[d], h)) = power
  BY <1>1, <1>2, <1>3 DEF Counts
<1>5. registration(d, {h}).power = power
  BY <1>4, HeightIs DEF registration
<1>6. ASSUME h = block, d \in DOMAIN delegates(0, Cardinality(Delegates))
      PROVE  delegates(0, Cardinality(Delegates))[d] = power
  <2>1. PICK page : page = mapRange(store.delegate, 0, Cardinality(Delegates))
    OBVIOUS
  <2>2. delegates(0, Cardinality(Delegates)) = [c \in page |-> OrZero(wormholeLoad(delegated[c], block))]
    BY <2>1 DEF delegates
  <2> QED
    BY <1>4, <1>6, <2>2
<1> QED
  BY <1>5, <1>6

LEMMA DelegationsArePastHolds ==
  ASSUME PowersInv
  PROVE  DelegationsArePast
<1> SUFFICES ASSUME NEW h \in 1 .. block
             PROVE  /\ \A m \in Members : {x.delegate : x \in delegations(m, h, 0, 1)} = past[h].active[m]
                    /\ \A d \in Delegates : registration(d, {h}).registered = (d \in past[h].delegate)
                    /\ votingPowerCap({h}) = past[h].cap
  BY DEF DelegationsArePast
<1>1. h \in Nat
  BY DEF PowersInv
<1>2. \A m \in Members : At(store.active, made, m, h) = past[h].active[m]
  BY DEF PowersInv, DelegationsOK
<1>3. \A m \in Members : {x.delegate : x \in delegations(m, h, 0, 1)} = past[h].active[m]
  BY <1>1, <1>2, DelegationsAre
<1>4. ASSUME NEW d \in Delegates
      PROVE  registration(d, {h}).registered = (d \in past[h].delegate)
  <2>1. registration(d, {h}).registered = (mayLoadAtHeight(store.delegate[d], h) # <<>>)
    <3>1. PICK r : r = (mayLoadAtHeight(store.delegate[d], h) # <<>>)
      OBVIOUS
    <3>2. registration(d, {h}) = [registered |-> r, power |-> OrZero(wormholeLoad(delegated[d], h))]
      BY <3>1, HeightIs DEF registration
    <3> QED
      BY <3>1, <3>2
  <2>2. mayLoadAtHeight(store.delegate[d], h) # <<>> <=> d \in past[h].delegate
    BY DEF PowersInv, DelegatesOK
  <2> QED
    BY <2>1, <2>2
<1>5. votingPowerCap({h}) = past[h].cap
  BY HeightIs DEF votingPowerCap, PowersInv, CapOK
<1> QED
  BY <1>3, <1>4, <1>5

\* A part of a number.
LEMMA PartOf ==
  ASSUME NEW n \in Nat, NEW w \in Nat \ {0}
  PROVE  (n \div w) \in Nat /\ (n \div w) * w <= n
OBVIOUS

LEMMA LessOf ==
  ASSUME NEW a \in Nat, NEW b \in Nat
  PROVE  Min({a, b}) \in Nat /\ Min({a, b}) <= a /\ Min({a, b}) <= b
<1>1. {a, b} \in SUBSET Nat /\ {a, b} # {}
  OBVIOUS
<1>2. Min({a, b}) \in {a, b} /\ \A k \in {a, b} : Min({a, b}) <= k
  BY <1>1, MinIs
<1> QED
  BY <1>2

\* A cap below the whole caps, any other does not.
LEMMA CapsTo ==
  ASSUME NEW e \in Nat, NEW t \in Nat, t <= e, NEW w \in Nat \ {0}, NEW c \in 0 .. w, NEW x \in Nat,
         \/ c = w /\ x = t
         \/ x <= (e * c) \div w
  PROVE  x * w <= c * e
<1>1. e * c \in Nat /\ c \in Nat /\ c * e = e * c
  OBVIOUS
<1>2. CASE c = w /\ x = t
  BY <1>2
<1>3. CASE x <= (e * c) \div w
  <2>1. PICK q : q = (e * c) \div w
    OBVIOUS
  <2>2. q \in Nat /\ q * w <= e * c
    BY <1>1, <2>1, PartOf
  <2>3. x * w <= q * w
    BY <1>3, <2>1, <2>2
  <2>4. x * w \in Nat /\ q * w \in Nat
    BY <2>2
  <2> QED
    BY <1>1, <2>2, <2>3, <2>4
<1> QED
  BY <1>2, <1>3

LEMMA UnvotedIsLeftHolds ==
  ASSUME PowersInv
  PROVE  UnvotedIsLeft
<1> SUFFICES ASSUME ballot.opened # 0, NEW d \in Delegates, NEW h, h = ballot.opened, NEW left,
                    left = {m \in Members \ ballot.voted : d \in past[h].active[m]},
                    NEW power, power = unvotedDelegatedVotingPower(d, h)
             PROVE  /\ power.total = IF d \in past[h].delegate THEN Cardinality(left) ELSE 0
                    /\ power.effective <= power.total
                    /\ past[h].cap # <<>> => power.effective * Whole <= past[h].cap[1] * Everyone
  BY DEF UnvotedIsLeft
<1>1. /\ BallotOK(ballot, block, past, stakes) /\ ~stakes /\ block \in Nat \ {0}
      /\ h \in 1 .. block /\ h \in Nat \ {0} /\ h \in Nat
  <2>1. BallotOK(ballot, block, past, stakes) /\ block \in Nat \ {0}
    BY DEF PowersInv
  <2>2. ~stakes /\ ballot.opened \in 0 .. block
    BY <2>1 DEF BallotOK
  <2> QED
    BY <2>1, <2>2
<1>2. left = LeftOf(ballot, past, d) /\ left \in SUBSET Members
  BY DEF LeftOf
<1>3. Cardinality(left) \in Nat /\ Cardinality(left) <= Everyone /\ Everyone \in Nat
  BY <1>2, VotingPowerAssumption, FS_Subset, FS_CardinalityType DEF Everyone
<1> DEFINE total == IF ballot.unvoted[d] # <<>> THEN ballot.unvoted[d][1] ELSE OrZero(wormholeLoad(delegated[d], h))
           cap == votingPowerCap({h})
           most == (totalPowerAtHeight("token", {h}) * OrZero(cap)) \div Whole
<1>4. total = Cardinality(left)
  <2>1. IF ballot.unvoted[d] = <<>>
        THEN LeftOf(ballot, past, d) = {m \in Members : d \in past[h].active[m]}
        ELSE ballot.unvoted[d] = <<Cardinality(LeftOf(ballot, past, d))>>
    BY <1>1 DEF BallotOK
  <2>2. CASE ballot.unvoted[d] = <<>>
    <3>1. Counts(store.active, made, delegated)
          /\ \A m \in Members : At(store.active, made, m, h) = past[h].active[m]
      BY <1>1 DEF PowersInv, DelegationsOK
    <3>2. {m \in Members : d \in past[h].active[m]} = {m \in Members : d \in At(store.active, made, m, h)}
      BY <3>1
    <3>3. OrZero(wormholeLoad(delegated[d], h)) = Cardinality({m \in Members : d \in At(store.active, made, m, h)})
      BY <1>1, <3>1 DEF Counts
    <3> QED
      BY <1>2, <2>1, <2>2, <3>2, <3>3
  <2>3. CASE ballot.unvoted[d] # <<>>
    <3>1. PICK c : c = Cardinality(left)
      OBVIOUS
    <3>2. ballot.unvoted[d] = <<c>>
      BY <1>2, <2>1, <2>3, <3>1
    <3>3. ballot.unvoted[d][1] = c
      BY <3>2
    <3> QED
      BY <2>3, <3>1, <3>3
  <2> QED
    BY <2>2, <2>3
<1>5. cap = past[h].cap /\ cap \in Some(Caps)
  <2>1. CapOK(store.cap, block, past) /\ block \in Nat
    BY DEF PowersInv
  <2>2. cap = mayLoadAtHeight(store.cap, h)
    BY HeightIs DEF votingPowerCap
  <2>3. mayLoadAtHeight(store.cap, h) \in Some(Caps)
    BY <1>1, <2>1, LoadTyped DEF CapOK
  <2> QED
    BY <1>1, <2>1, <2>2, <2>3 DEF CapOK
<1>6. totalPowerAtHeight("token", {h}) = Everyone
  <2>1. store.balance[Total] = [value |-> <<Everyone>>, log |-> <<>>]
    BY <1>1 DEF PowersInv, BalancesOK, Everyone
  <2>2. <<Everyone>> \in Values(Int) /\ Clean(<<Everyone>>) = <<Everyone>>
    BY <1>3 DEF Values, Some, Clean, Exists
  <2>3. mayLoadAtHeight(store.balance[Total], h) = <<Everyone>>
    BY <1>1, <2>1, <2>2, EmptySnap
  <2>4. totalPowerAtHeight("token", {h}) = OrZero(mayLoadAtHeight(store.balance[Total], h))
    BY KindsAnswer DEF Kinds
  <2> QED
    BY <2>3, <2>4, OrZeroIs
<1>7. mayLoadAtHeight(store.delegate[d], h) # <<>> <=> d \in past[h].delegate
  BY <1>1 DEF PowersInv, DelegatesOK
<1>8. power = IF mayLoadAtHeight(store.delegate[d], h) = <<>> THEN [total |-> 0, effective |-> 0]
              ELSE [total |-> total,
                    effective |-> IF cap = <<>> \/ cap[1] >= Whole THEN total ELSE Min({total, most})]
  BY DEF unvotedDelegatedVotingPower
<1>9. most = (Everyone * OrZero(cap)) \div Whole
  BY <1>6
<1>10. Whole \in Nat \ {0} /\ Caps \subseteq 0 .. Whole
  BY VotingPowerAssumption
<1> HIDE DEF total, cap, most
<1>11. OrZero(cap) \in 0 .. Whole /\ (cap # <<>> => cap[1] = OrZero(cap))
  <2>1. OrZero(cap) \in Caps \cup {0}
    BY <1>5, OrZeroSome
  <2>2. OrZero(cap) \in 0 .. Whole
    <3>1. PICK c : c = OrZero(cap)
      OBVIOUS
    <3>2. c \in Caps \cup {0}
      BY ONLY <2>1, <3>1
    <3>3. 0 \in 0 .. Whole
      BY <1>10
    <3>4. c \in 0 .. Whole
      BY <1>10, <3>2, <3>3, Zenon
    <3> QED
      BY ONLY <3>1, <3>4
  <2>3. cap # <<>> => cap[1] = OrZero(cap)
    BY DEF OrZero
  <2> QED
    BY <2>2, <2>3
<1>12. most \in Nat
  <2>1. Everyone * OrZero(cap) \in Nat
    BY <1>3, <1>11
  <2> QED
    BY <1>9, <1>10, <2>1, PartOf
<1>13. CASE d \notin past[h].delegate
  <2>1. power.total = 0 /\ power.effective = 0
    BY <1>7, <1>8, <1>13
  <2>2. ASSUME cap # <<>> PROVE 0 * Whole <= cap[1] * Everyone
    <3>1. OrZero(cap) \in Nat /\ OrZero(cap) * Everyone \in Nat
      BY <1>3, <1>11
    <3> QED
      BY <1>10, <1>11, <2>2, <3>1
  <2> QED
    BY <1>5, <1>13, <2>1, <2>2
<1>14. CASE d \in past[h].delegate
  <2>1. power.total = total
        /\ power.effective = IF cap = <<>> \/ cap[1] >= Whole THEN total ELSE Min({total, most})
    BY <1>7, <1>8, <1>14
  <2>2. total \in Nat /\ total <= Everyone
    BY <1>3, <1>4
  <2>3. Min({total, most}) \in Nat /\ Min({total, most}) <= total /\ Min({total, most}) <= most
    BY <1>12, <2>2, LessOf
  <2>4. power.effective \in Nat /\ power.effective <= power.total
    BY <2>1, <2>2, <2>3
  <2>5. ASSUME cap # <<>> PROVE power.effective * Whole <= cap[1] * Everyone
    <3>1. PICK c, x : c = OrZero(cap) /\ x = power.effective
      OBVIOUS
    <3>2. c \in 0 .. Whole /\ cap[1] = c
      BY <1>11, <2>5, <3>1
    <3>3. (c = Whole /\ x = total) \/ x <= (Everyone * c) \div Whole
      <4>1. CASE cap[1] >= Whole
        BY <1>10, <2>1, <3>1, <3>2, <4>1
      <4>2. CASE ~(cap[1] >= Whole)
        BY <1>9, <2>1, <2>3, <2>5, <3>1, <4>2
      <4> QED
        BY <4>1, <4>2
    <3>4. x * Whole <= c * Everyone
      BY <1>3, <1>10, <2>2, <2>4, <3>1, <3>2, <3>3, CapsTo
    <3> QED
      BY <3>1, <3>2, <3>4
  <2> QED
    BY <1>4, <1>5, <1>14, <2>1, <2>4, <2>5
<1> QED
  BY <1>13, <1>14

\* The formulas of voting modules and of delegations agree with each other and with what
\* the contracts held at every height, for any members, delegates, caps and lifetime of a
\* delegation, and however long and often stakes and delegations change
\* (snapshotMayLoadAtHeight, wormholeLoad, snapshotVectorMapLoad, mapRange).
THEOREM PowersHold == VotingPowerSpec => []PowersAgree
<1>1. VotingPowerInit => PowersInv
  BY PowersInit
<1>2. PowersInv /\ [VotingPowerNext]_powerVars => PowersInv'
  BY PowersStep
<1>3. PowersInv => PowersAgree
  BY PowerIsPastHolds, TotalIsSumHolds, SharesAddUpHolds, PagesFindStakersHolds,
     DelegatedIsActiveHolds, DelegationsArePastHolds, UnvotedIsLeftHolds DEF PowersAgree
<1> QED
  BY <1>1, <1>2, <1>3, PTL DEF VotingPowerSpec

-----------------------------------------------------------------------------
(* Counting the votes of Proposals.                                        *)

\* The sum of the sums.
LEMMA SumPlus ==
  ASSUME NEW S, IsFiniteSet(S), NEW f, NEW g, NEW h,
         \A x \in S : f[x] \in Int /\ g[x] \in Int /\ h[x] = f[x] + g[x]
  PROVE  SumFunctionOnSet(h, S) = SumFunctionOnSet(f, S) + SumFunctionOnSet(g, S)
<1> DEFINE P == {n \in Nat : \A s \in SUBSET S : Cardinality(s) = n =>
                   SumFunctionOnSet(h, s) = SumFunctionOnSet(f, s) + SumFunctionOnSet(g, s)}
<1>2. ASSUME NEW n \in Nat, \A m \in 0 .. (n - 1) : m \in P PROVE n \in P
  <2> SUFFICES ASSUME NEW s \in SUBSET S, Cardinality(s) = n
               PROVE  SumFunctionOnSet(h, s) = SumFunctionOnSet(f, s) + SumFunctionOnSet(g, s)
    OBVIOUS
  <2>1. IsFiniteSet(s) /\ \A y \in s : f[y] \in Int /\ g[y] \in Int /\ h[y] \in Int /\ h[y] = f[y] + g[y]
    BY FS_Subset
  <2>2. CASE s = {}
    <3>1. SumFunctionOnSet(h, {}) = 0 /\ SumFunctionOnSet(f, {}) = 0 /\ SumFunctionOnSet(g, {}) = 0
      BY <2>1, SumTakes
    <3> QED
      BY <2>2, <3>1
  <2>3. CASE s # {}
    <3>1. PICK x : x \in s
      BY <2>3
    <3>2. s \ {x} \in SUBSET S /\ Cardinality(s \ {x}) \in 0 .. (n - 1)
      BY <3>1, SmallerSubset
    <3>3. SumFunctionOnSet(h, s \ {x}) = SumFunctionOnSet(f, s \ {x}) + SumFunctionOnSet(g, s \ {x})
      BY <1>2, <3>2
    <3>4. /\ SumFunctionOnSet(f, s) = f[x] + SumFunctionOnSet(f, s \ {x})
          /\ SumFunctionOnSet(g, s) = g[x] + SumFunctionOnSet(g, s \ {x})
          /\ SumFunctionOnSet(h, s) = h[x] + SumFunctionOnSet(h, s \ {x})
      BY <2>1, <3>1, SumTakes
    <3>5. IsFiniteSet(s \ {x}) /\ \A y \in s \ {x} : f[y] \in Int /\ g[y] \in Int
      BY <2>1, <3>2, FS_Subset
    <3>6. SumFunctionOnSet(f, s \ {x}) \in Int /\ SumFunctionOnSet(g, s \ {x}) \in Int
      BY <3>5, SumTakes
    <3>7. h[x] = f[x] + g[x] /\ f[x] \in Int /\ g[x] \in Int
      BY <2>1, <3>1
    <3> QED
      BY <3>3, <3>4, <3>6, <3>7
  <2> QED
    BY <2>2, <2>3
<1>3. \A n \in Nat : n \in P
  <2> HIDE DEF P
  <2> QED
    BY <1>2, AllBelow
<1>4. Cardinality(S) \in Nat /\ S \in SUBSET S
  BY FS_CardinalityType
<1> QED
  BY <1>3, <1>4

LEMMA SumGrows ==
  ASSUME NEW S, IsFiniteSet(S), NEW f, NEW g, \A x \in S : f[x] \in Int /\ g[x] \in Int /\ f[x] <= g[x]
  PROVE  SumFunctionOnSet(f, S) <= SumFunctionOnSet(g, S)
<1> DEFINE P == {n \in Nat : \A s \in SUBSET S : Cardinality(s) = n =>
                   SumFunctionOnSet(f, s) <= SumFunctionOnSet(g, s)}
<1>2. ASSUME NEW n \in Nat, \A m \in 0 .. (n - 1) : m \in P PROVE n \in P
  <2> SUFFICES ASSUME NEW s \in SUBSET S, Cardinality(s) = n
               PROVE  SumFunctionOnSet(f, s) <= SumFunctionOnSet(g, s)
    OBVIOUS
  <2>1. IsFiniteSet(s) /\ \A y \in s : f[y] \in Int /\ g[y] \in Int /\ f[y] <= g[y]
    BY FS_Subset
  <2>2. CASE s = {}
    <3>1. SumFunctionOnSet(f, {}) = 0 /\ SumFunctionOnSet(g, {}) = 0
      BY <2>1, SumTakes
    <3> QED
      BY <2>2, <3>1
  <2>3. CASE s # {}
    <3>1. PICK x : x \in s
      BY <2>3
    <3>2. s \ {x} \in SUBSET S /\ Cardinality(s \ {x}) \in 0 .. (n - 1)
      BY <3>1, SmallerSubset
    <3>3. SumFunctionOnSet(f, s \ {x}) <= SumFunctionOnSet(g, s \ {x})
      BY <1>2, <3>2
    <3>4. /\ SumFunctionOnSet(f, s) = f[x] + SumFunctionOnSet(f, s \ {x})
          /\ SumFunctionOnSet(g, s) = g[x] + SumFunctionOnSet(g, s \ {x})
      BY <2>1, <3>1, SumTakes
    <3>5. IsFiniteSet(s \ {x}) /\ \A y \in s \ {x} : f[y] \in Int /\ g[y] \in Int
      BY <2>1, <3>2, FS_Subset
    <3>6. SumFunctionOnSet(f, s \ {x}) \in Int /\ SumFunctionOnSet(g, s \ {x}) \in Int
      BY <3>5, SumTakes
    <3>7. f[x] \in Int /\ g[x] \in Int /\ f[x] <= g[x]
      BY <2>1, <3>1
    <3> QED
      BY <3>3, <3>4, <3>6, <3>7
  <2> QED
    BY <2>2, <2>3
<1>3. \A n \in Nat : n \in P
  <2> HIDE DEF P
  <2> QED
    BY <1>2, AllBelow
<1>4. Cardinality(S) \in Nat /\ S \in SUBSET S
  BY FS_CardinalityType
<1> QED
  BY <1>3, <1>4

\* Votes for n choices, and later votes: nobody took one back.
Votes(n) == [1 .. n -> Nat]
Later(n, v, w) == v \in Votes(n) /\ w \in Votes(n) /\ \A i \in 1 .. n : v[i] <= w[i]

LEMMA Counted ==
  ASSUME NEW n \in Nat, NEW v \in Votes(n)
  PROVE  /\ DOMAIN v = 1 .. n /\ IsFiniteSet(1 .. n)
         /\ totalVotes(v) = SumFunctionOnSet(v, 1 .. n) /\ totalVotes(v) \in Nat
         /\ \A i \in 1 .. n : v[i] \in Nat /\ v[i] <= totalVotes(v)
<1>1. DOMAIN v = 1 .. n /\ IsFiniteSet(1 .. n) /\ \A i \in 1 .. n : v[i] \in Nat
  <2>1. IsFiniteSet(1 .. n)
    BY FS_Interval
  <2> QED
    BY <2>1 DEF Votes
<1>2. totalVotes(v) = SumFunctionOnSet(v, 1 .. n)
  BY <1>1 DEF totalVotes, SumFunction
<1>3. PICK z : z = [i \in 1 .. n |-> 0]
  OBVIOUS
<1>4. \A i \in 1 .. n : z[i] = 0 /\ z[i] \in Int /\ v[i] \in Int /\ z[i] <= v[i]
  BY <1>1, <1>3
<1>5. SumFunctionOnSet(z, 1 .. n) = SumFunctionOnSet(z, {}) /\ SumFunctionOnSet(z, {}) = 0
  BY <1>1, <1>4, SumSkips, SumTakes
<1>6. SumFunctionOnSet(z, 1 .. n) <= SumFunctionOnSet(v, 1 .. n) /\ SumFunctionOnSet(v, 1 .. n) \in Int
  BY <1>1, <1>4, SumGrows, SumTakes
<1>7. ASSUME NEW i \in 1 .. n PROVE v[i] <= totalVotes(v)
  <2>1. \A x \in (1 .. n) \ {i} : z[x] \in Int /\ v[x] \in Int /\ z[x] <= v[x] /\ z[x] = 0
    BY <1>4
  <2>2. IsFiniteSet((1 .. n) \ {i})
    BY <1>1, FS_Subset
  <2>3. SumFunctionOnSet(z, (1 .. n) \ {i}) = SumFunctionOnSet(z, {})
    BY <2>1, <2>2, SumSkips
  <2>4. /\ SumFunctionOnSet(z, (1 .. n) \ {i}) <= SumFunctionOnSet(v, (1 .. n) \ {i})
        /\ SumFunctionOnSet(v, (1 .. n) \ {i}) \in Int
    BY <2>1, <2>2, SumGrows, SumTakes
  <2>5. SumFunctionOnSet(v, 1 .. n) = v[i] + SumFunctionOnSet(v, (1 .. n) \ {i})
    BY <1>1, <1>4, SumTakes
  <2>6. v[i] \in Nat
    BY <1>1
  <2> QED
    BY <1>2, <1>5, <2>3, <2>4, <2>5, <2>6
<1> QED
  BY <1>1, <1>2, <1>5, <1>6, <1>7

\* Votes that are cast are in the total.
LEMMA Growing ==
  ASSUME NEW n \in Nat, NEW v, NEW w, Later(n, v, w)
  PROVE  /\ totalVotes(v) <= totalVotes(w)
         /\ \A i \in 1 .. n : w[i] - v[i] <= totalVotes(w) - totalVotes(v)
         /\ \A i, j \in 1 .. n : i # j =>
                (w[i] - v[i]) + (w[j] - v[j]) <= totalVotes(w) - totalVotes(v)
<1>1. v \in Votes(n) /\ w \in Votes(n)
  BY DEF Later
<1>2. /\ IsFiniteSet(1 .. n) /\ totalVotes(v) = SumFunctionOnSet(v, 1 .. n) /\ totalVotes(w) = SumFunctionOnSet(w, 1 .. n)
      /\ totalVotes(v) \in Nat /\ totalVotes(w) \in Nat
      /\ \A i \in 1 .. n : v[i] \in Nat /\ w[i] \in Nat
  BY <1>1, Counted
<1>3. \A i \in 1 .. n : v[i] \in Int /\ w[i] \in Int /\ v[i] <= w[i]
  BY <1>2 DEF Later
<1>4. SumFunctionOnSet(v, 1 .. n) <= SumFunctionOnSet(w, 1 .. n)
  BY <1>2, <1>3, SumGrows
<1>5. ASSUME NEW S, IsFiniteSet(S), S \subseteq 1 .. n, NEW i \in S
      PROVE  /\ SumFunctionOnSet(v, S) \in Int /\ SumFunctionOnSet(w, S) \in Int
             /\ w[i] - v[i] <= SumFunctionOnSet(w, S) - SumFunctionOnSet(v, S)
             /\ SumFunctionOnSet(v, S) = v[i] + SumFunctionOnSet(v, S \ {i})
             /\ SumFunctionOnSet(w, S) = w[i] + SumFunctionOnSet(w, S \ {i})
  <2>1. \A x \in S : v[x] \in Int /\ w[x] \in Int /\ v[x] <= w[x]
    BY <1>3, <1>5
  <2>2. /\ SumFunctionOnSet(v, S) \in Int /\ SumFunctionOnSet(w, S) \in Int
        /\ SumFunctionOnSet(v, S) = v[i] + SumFunctionOnSet(v, S \ {i})
        /\ SumFunctionOnSet(w, S) = w[i] + SumFunctionOnSet(w, S \ {i})
    BY <1>5, <2>1, SumTakes
  <2>3. IsFiniteSet(S \ {i}) /\ \A x \in S \ {i} : v[x] \in Int /\ w[x] \in Int /\ v[x] <= w[x]
    BY <1>5, <2>1, FS_Subset
  <2>4. /\ SumFunctionOnSet(v, S \ {i}) \in Int /\ SumFunctionOnSet(w, S \ {i}) \in Int
        /\ SumFunctionOnSet(v, S \ {i}) <= SumFunctionOnSet(w, S \ {i})
    BY <2>3, SumTakes, SumGrows
  <2>5. v[i] \in Int /\ w[i] \in Int
    BY <2>1
  <2> QED
    BY <2>2, <2>4, <2>5
<1>6. ASSUME NEW i \in 1 .. n, NEW j \in 1 .. n, i # j
      PROVE  (w[i] - v[i]) + (w[j] - v[j]) <= totalVotes(w) - totalVotes(v)
  <2>1. PICK S : S = (1 .. n) \ {i}
    OBVIOUS
  <2>2. IsFiniteSet(S) /\ S \subseteq 1 .. n /\ j \in S
    BY <1>2, <1>6, <2>1, FS_Subset
  <2>3. /\ SumFunctionOnSet(v, S) \in Int /\ SumFunctionOnSet(w, S) \in Int
        /\ w[j] - v[j] <= SumFunctionOnSet(w, S) - SumFunctionOnSet(v, S)
    BY <1>5, <2>2
  <2>4. /\ SumFunctionOnSet(v, 1 .. n) = v[i] + SumFunctionOnSet(v, S)
        /\ SumFunctionOnSet(w, 1 .. n) = w[i] + SumFunctionOnSet(w, S)
    BY <1>2, <1>5, <2>1
  <2>5. v[i] \in Int /\ w[i] \in Int /\ v[j] \in Int /\ w[j] \in Int
    BY <1>3
  <2>6. /\ totalVotes(v) = v[i] + SumFunctionOnSet(v, S)
        /\ totalVotes(w) = w[i] + SumFunctionOnSet(w, S)
    BY <1>2, <2>4
  <2> QED
    BY ONLY <2>3, <2>5, <2>6
<1>7. \A i \in 1 .. n : w[i] - v[i] <= totalVotes(w) - totalVotes(v)
  BY <1>2, <1>5
<1> QED
  BY <1>2, <1>4, <1>6, <1>7

\* Votes more, or less.
Adding(v, i, k) == [v EXCEPT ![i] = @ + k]
MayAdd(n, v, i, k) == v \in Votes(n) /\ i \in 1 .. n /\ k \in Int /\ v[i] + k \in Nat

LEMMA OneMore ==
  ASSUME NEW n \in Nat, NEW v, NEW i, NEW k, MayAdd(n, v, i, k), NEW w, w = Adding(v, i, k)
  PROVE  w \in Votes(n) /\ totalVotes(w) = totalVotes(v) + k /\ (k >= 0 => Later(n, v, w))
<1>0. v \in Votes(n) /\ i \in 1 .. n /\ k \in Int /\ v[i] + k \in Nat
  BY DEF MayAdd
<1>1. w \in Votes(n) /\ w[i] = v[i] + k /\ \A j \in (1 .. n) \ {i} : w[j] = v[j]
  BY <1>0 DEF Votes, Adding
<1>2. /\ IsFiniteSet(1 .. n) /\ totalVotes(v) = SumFunctionOnSet(v, 1 .. n) /\ totalVotes(w) = SumFunctionOnSet(w, 1 .. n)
      /\ totalVotes(v) \in Nat /\ \A x \in 1 .. n : v[x] \in Nat /\ w[x] \in Nat
  BY <1>0, <1>1, Counted
<1>3. \A x \in 1 .. n : v[x] \in Int /\ w[x] \in Int
  BY <1>2
<1>4. SumFunctionOnSet(w, 1 .. n) = SumFunctionOnSet(v, 1 .. n) + w[i] - v[i]
  <2>1. PICK S : S = 1 .. n
    OBVIOUS
  <2>2. /\ IsFiniteSet(S) /\ i \in S /\ \A y \in S : v[y] \in Int /\ w[y] \in Int
        /\ \A y \in S \ {i} : w[y] = v[y]
    BY <1>0, <1>1, <1>2, <1>3, <2>1
  <2>3. SumFunctionOnSet(w, S) = SumFunctionOnSet(v, S) + w[i] - v[i]
    <3>1. /\ SumFunctionOnSet(v, S) = v[i] + SumFunctionOnSet(v, S \ {i})
          /\ SumFunctionOnSet(w, S) = w[i] + SumFunctionOnSet(w, S \ {i})
      <4>1. \A y \in S : v[y] \in Int
        BY <2>2
      <4>2. \A y \in S : w[y] \in Int
        BY <2>2
      <4>3. SumFunctionOnSet(v, S) = v[i] + SumFunctionOnSet(v, S \ {i})
        BY ONLY <2>2, <4>1, SumTakes
      <4>4. SumFunctionOnSet(w, S) = w[i] + SumFunctionOnSet(w, S \ {i})
        BY ONLY <2>2, <4>2, SumTakes
      <4> QED
        BY <4>3, <4>4
    <3>2. IsFiniteSet(S \ {i}) /\ \A y \in S \ {i} : v[y] \in Int /\ w[y] = v[y]
      BY <2>2, FS_Subset
    <3>3. SumFunctionOnSet(v, S \ {i}) = SumFunctionOnSet(w, S \ {i}) /\ SumFunctionOnSet(v, S \ {i}) \in Int
      BY <3>2, SumAlike, SumTakes
    <3>4. v[i] \in Int /\ w[i] \in Int
      BY <2>2
    <3> QED
      BY ONLY <3>1, <3>3, <3>4
  <2> QED
    BY <2>1, <2>3
<1>5. k >= 0 => \A x \in 1 .. n : v[x] <= w[x]
  BY <1>0, <1>1, <1>2
<1>6. v[i] \in Nat
  BY <1>0, <1>2
<1>7. totalVotes(w) = totalVotes(v) + k
  BY <1>0, <1>1, <1>2, <1>4, <1>6
<1> QED
  BY <1>0, <1>1, <1>5, <1>7 DEF Later

\* Votes of members and of delegates together.
LEMMA Together ==
  ASSUME NEW n \in Nat, NEW v \in Votes(n), NEW d \in Votes(n)
  PROVE  /\ Plus(v, d) \in Votes(n) /\ Later(n, v, Plus(v, d))
         /\ totalVotes(Plus(v, d)) = totalVotes(v) + totalVotes(d)
         /\ totalVotes(d) = 0 => Plus(v, d) = v
<1>1. DOMAIN v = 1 .. n /\ IsFiniteSet(1 .. n) /\ \A i \in 1 .. n : v[i] \in Nat /\ d[i] \in Nat /\ d[i] <= totalVotes(d)
  BY Counted
<1>2. Plus(v, d) = [i \in 1 .. n |-> v[i] + d[i]]
  BY <1>1 DEF Plus
<1>3. PICK w : w = Plus(v, d)
  OBVIOUS
<1>4. w \in Votes(n) /\ \A i \in 1 .. n : w[i] = v[i] + d[i] /\ v[i] \in Int /\ d[i] \in Int
  BY <1>1, <1>2, <1>3 DEF Votes
<1>5. SumFunctionOnSet(w, 1 .. n) = SumFunctionOnSet(v, 1 .. n) + SumFunctionOnSet(d, 1 .. n)
  BY <1>1, <1>4, SumPlus
<1>6. totalVotes(w) = totalVotes(v) + totalVotes(d)
  BY <1>4, <1>5, Counted
<1>7. Later(n, v, w)
  <2>1. \A i \in 1 .. n : w[i] = v[i] + d[i] /\ v[i] \in Nat /\ d[i] \in Nat
    BY <1>1, <1>4
  <2>2. \A i \in 1 .. n : v[i] <= w[i]
    BY <2>1
  <2> QED
    BY <1>4, <2>2 DEF Later
<1>8. ASSUME totalVotes(d) = 0 PROVE w = v
  <2>1. \A i \in 1 .. n : w[i] = v[i]
    BY <1>1, <1>4, <1>8
  <2> QED
    BY <1>4, <2>1 DEF Votes
<1> QED
  BY <1>3, <1>4, <1>6, <1>7, <1>8

LEMMA OfThree ==
  ASSUME NEW v \in Votes(3)
  PROVE  /\ v[1] \in Nat /\ v[2] \in Nat /\ v[3] \in Nat
         /\ totalVotes(v) = v[1] + v[2] + v[3]
<1>1. /\ IsFiniteSet(1 .. 3) /\ totalVotes(v) = SumFunctionOnSet(v, 1 .. 3)
      /\ \A i \in 1 .. 3 : v[i] \in Nat /\ v[i] \in Int
  <2>1. \A i \in 1 .. 3 : v[i] \in Nat
    BY DEF Votes
  <2>2. 3 \in Nat
    OBVIOUS
  <2>3. IsFiniteSet(1 .. 3) /\ totalVotes(v) = SumFunctionOnSet(v, 1 .. 3)
    BY <2>2, Counted, Zenon
  <2> QED
    BY <2>1, <2>3
<1>2. 1 .. 3 = {1, 2, 3} /\ {1, 2, 3} \ {1} = {2, 3} /\ {2, 3} \ {2} = {3} /\ {3} \ {3} = {}
  OBVIOUS
<1>3. IsFiniteSet({1, 2, 3}) /\ IsFiniteSet({2, 3}) /\ IsFiniteSet({3})
  BY <1>1, <1>2, FS_Subset
<1>4. v[1] \in Int /\ v[2] \in Int /\ v[3] \in Int
  BY <1>1, <1>2
<1>5. SumFunctionOnSet(v, {1, 2, 3}) = v[1] + SumFunctionOnSet(v, {1, 2, 3} \ {1})
  BY <1>3, <1>4, SumTakes
<1>6. SumFunctionOnSet(v, {2, 3}) = v[2] + SumFunctionOnSet(v, {2, 3} \ {2})
  BY <1>3, <1>4, SumTakes
<1>7. SumFunctionOnSet(v, {3}) = v[3] + SumFunctionOnSet(v, {3} \ {3}) /\ SumFunctionOnSet(v, {}) = 0
  <2>1. \A x \in {3} : v[x] \in Int
    BY <1>4
  <2> QED
    BY <1>3, <2>1, SumTakes
<1>8. SumFunctionOnSet(v, {1, 2, 3}) = v[1] + (v[2] + (v[3] + 0))
  BY <1>2, <1>5, <1>6, <1>7
<1>9. v[1] \in Nat /\ v[2] \in Nat /\ v[3] \in Nat
  BY <1>1, <1>2
<1> QED
  BY <1>1, <1>2, <1>8, <1>9
-----------------------------------------------------------------------------
(* Portions of the votes.                                                  *)

LEMMA Product ==
  ASSUME NEW a \in Nat, NEW b \in Nat
  PROVE  a * b \in Nat
OBVIOUS

LEMMA Scaled ==
  ASSUME NEW a \in Nat, NEW b \in Nat, NEW c \in Nat, a <= b
  PROVE  a * c <= b * c /\ c * a <= c * b
<1>1. PICK d \in Nat : b = a + d
  <2>1. b - a \in Nat /\ b = a + (b - a)
    OBVIOUS
  <2> QED
    BY <2>1
<1>2. b * c = a * c + d * c /\ c * b = c * a + c * d
  BY <1>1
<1>3. a * c \in Nat /\ d * c \in Nat /\ c * a \in Nat /\ c * d \in Nat
  BY Product
<1> QED
  BY <1>2, <1>3

LEMMA Hundredths ==
  ASSUME NEW x \in Int
  PROVE  x \div 100 \in Int /\ 100 * (x \div 100) <= x /\ x < 100 * (x \div 100) + 100
OBVIOUS

LEMMA InHundredths ==
  ASSUME NEW x \in Int, NEW y \in Int, x <= y
  PROVE  x \div 100 <= y \div 100
BY Hundredths

LEMMA PortionIs ==
  ASSUME NEW least \in Nat, NEW q \in Portions(least)
  PROVE  /\ q.majority \in BOOLEAN /\ q.low \in BOOLEAN /\ q.percent \in Nat /\ q.percent <= 100
         /\ 100 - q.percent \in Nat /\ (q.majority \/ q.percent >= least)
BY DEF Portions

\* The threshold of a portion of some options.
Of(options, percent) == (options * PRECISION_FACTOR * percent) \div 100

LEMMA OfIs ==
  ASSUME NEW o \in Nat, NEW c \in Nat
  PROVE  /\ PRECISION_FACTOR \in Nat /\ PRECISION_FACTOR >= 100
         /\ o * PRECISION_FACTOR \in Nat /\ o * PRECISION_FACTOR * c \in Nat
         /\ Of(o, c) \in Int /\ 100 * Of(o, c) <= o * PRECISION_FACTOR * c
         /\ o * PRECISION_FACTOR * c < 100 * Of(o, c) + 100
<1>1. PRECISION_FACTOR \in Nat /\ PRECISION_FACTOR >= 100
  BY ProposalsAssumption
<1>2. o * PRECISION_FACTOR \in Nat
  BY <1>1, Product
<1>3. o * PRECISION_FACTOR * c \in Nat
  BY <1>2, Product
<1>4. PICK x \in Nat : x = o * PRECISION_FACTOR * c
  BY <1>3
<1>5. x \div 100 \in Int /\ 100 * (x \div 100) <= x /\ x < 100 * (x \div 100) + 100
  BY Hundredths
<1> QED
  BY <1>1, <1>2, <1>3, <1>4, <1>5 DEF Of

LEMMA OfGrows ==
  ASSUME NEW o \in Nat, NEW r \in Nat, r <= o, NEW c \in Nat
  PROVE  r * PRECISION_FACTOR * c <= o * PRECISION_FACTOR * c /\ Of(r, c) <= Of(o, c)
<1>1. PRECISION_FACTOR \in Nat /\ r * PRECISION_FACTOR \in Nat /\ o * PRECISION_FACTOR \in Nat
  BY OfIs
<1>2. r * PRECISION_FACTOR <= o * PRECISION_FACTOR
  BY <1>1, Scaled
<1>3. PICK a \in Nat : a = r * PRECISION_FACTOR
  BY <1>1
<1>4. PICK b \in Nat : b = o * PRECISION_FACTOR
  BY <1>1
<1>5. a * c <= b * c /\ a * c \in Nat /\ b * c \in Nat
  BY <1>2, <1>3, <1>4, Scaled, Product
<1>6. (a * c) \div 100 <= (b * c) \div 100
  BY <1>5, InHundredths
<1> QED
  BY <1>3, <1>4, <1>5, <1>6 DEF Of

LEMMA PassIs ==
  ASSUME NEW y, NEW o, NEW q
  PROVE  doesVoteCountPass(y, o, q) <=>
             o # 0 /\ IF q.majority THEN y * 2 > o ELSE y * PRECISION_FACTOR >= Of(o, q.percent)
BY DEF doesVoteCountPass, compareVoteCount, Of

\* Enough votes stay enough when there are more of them, and no more options.
LEMMA PassKeeps ==
  ASSUME NEW q \in Portions(0), NEW y \in Nat, NEW o \in Nat, doesVoteCountPass(y, o, q),
         NEW z \in Nat, NEW r \in Nat, y <= z, r <= o, r # 0
  PROVE  doesVoteCountPass(z, r, q)
<1>1. q.percent \in Nat
  BY PortionIs
<1>2. CASE q.majority
  BY <1>2, PassIs
<1>3. CASE ~q.majority
  <2>1. PRECISION_FACTOR \in Nat /\ y * PRECISION_FACTOR <= z * PRECISION_FACTOR
    BY OfIs, Scaled
  <2>2. Of(o, q.percent) \in Int /\ Of(r, q.percent) \in Int /\ Of(r, q.percent) <= Of(o, q.percent)
    BY <1>1, OfIs, OfGrows
  <2>3. y * PRECISION_FACTOR \in Nat /\ z * PRECISION_FACTOR \in Nat
    BY <2>1, Product
  <2>4. y * PRECISION_FACTOR >= Of(o, q.percent)
    BY <1>3, PassIs
  <2>5. z * PRECISION_FACTOR >= Of(r, q.percent)
    BY <2>1, <2>2, <2>3, <2>4
  <2> QED
    BY <1>3, <2>5, PassIs
<1> QED
  BY <1>2, <1>3

\* Somebody has to be in favour.
LEMMA PassNeedsVotes ==
  ASSUME NEW q \in Portions(1), NEW y \in Nat, NEW o \in Nat, doesVoteCountPass(y, o, q)
  PROVE  y >= 1 /\ o >= 1
<1>1. q.percent \in Nat /\ (q.majority \/ q.percent >= 1)
  BY PortionIs
<1>2. o >= 1
  BY PassIs
<1>3. CASE q.majority
  BY <1>2, <1>3, PassIs
<1>4. CASE ~q.majority
  <2>1. 1 * PRECISION_FACTOR * 1 <= o * PRECISION_FACTOR * q.percent
    <3>1. 1 * PRECISION_FACTOR * 1 <= o * PRECISION_FACTOR * 1
      BY <1>2, OfGrows
    <3>2. o * PRECISION_FACTOR * 1 <= o * PRECISION_FACTOR * q.percent
      BY <1>1, <1>4, OfIs, Scaled
    <3>3. /\ 1 * PRECISION_FACTOR * 1 \in Nat /\ o * PRECISION_FACTOR * 1 \in Nat
          /\ o * PRECISION_FACTOR * q.percent \in Nat
      BY <1>1, OfIs
    <3> QED
      BY <3>1, <3>2, <3>3
  <2>2. PRECISION_FACTOR \in Nat /\ PRECISION_FACTOR >= 100
    BY OfIs
  <2>3. o * PRECISION_FACTOR * q.percent \in Nat /\ o * PRECISION_FACTOR * q.percent < 100 * Of(o, q.percent) + 100
        /\ Of(o, q.percent) \in Int
    BY <1>1, OfIs
  <2>4. Of(o, q.percent) >= 1
    <3>1. PICK x \in Nat : x = o * PRECISION_FACTOR * q.percent
      BY <2>3
    <3>2. x >= 100 /\ x < 100 * Of(o, q.percent) + 100
      BY <2>1, <2>2, <2>3, <3>1
    <3> QED
      BY <2>3, <3>2
  <2>5. y * PRECISION_FACTOR >= 1
    BY <1>4, <2>2, <2>3, <2>4, PassIs
  <2> QED
    BY <1>2, <2>2, <2>5
<1> QED
  BY <1>3, <1>4

LEMMA FailIs ==
  ASSUME NEW n, NEW o \in Nat, NEW q \in Portions(0), ~q.low
  PROVE  doesVoteCountFail(n, o, q) <=>
             o = 0 \/ IF q.majority THEN n * 2 >= o ELSE n * PRECISION_FACTOR > Of(o, 100 - q.percent)
<1>1. 100 - q.percent \in Nat
  BY PortionIs
<1>2. o * PRECISION_FACTOR * (100 - q.percent) \in Nat
  BY <1>1, OfIs
<1>3. o * PRECISION_FACTOR * (100 - q.percent) - 0 = o * PRECISION_FACTOR * (100 - q.percent)
  BY <1>2
<1>4. failThreshold(o, q) = Of(o, 100 - q.percent)
  BY <1>3 DEF failThreshold, Of
<1> QED
  BY <1>4 DEF doesVoteCountFail

LEMMA FailKeeps ==
  ASSUME NEW q \in Portions(0), ~q.low, NEW n \in Nat, NEW o \in Nat, doesVoteCountFail(n, o, q),
         NEW m \in Nat, NEW r \in Nat, n <= m, r <= o
  PROVE  doesVoteCountFail(m, r, q)
<1>1. 100 - q.percent \in Nat
  BY PortionIs
<1>2. CASE q.majority \/ o = 0
  <2>1. o = 0 \/ n * 2 >= o
    BY <1>2, FailIs
  <2>2. r = 0 \/ m * 2 >= r
    BY <2>1
  <2>3. CASE o = 0
    <3>1. r = 0
      BY <2>3
    <3> QED
      BY <3>1, FailIs
  <2>4. CASE o # 0
    BY <1>2, <2>2, <2>4, FailIs
  <2> QED
    BY <2>3, <2>4
<1>3. CASE ~q.majority /\ o # 0
  <2>1. PRECISION_FACTOR \in Nat /\ n * PRECISION_FACTOR <= m * PRECISION_FACTOR
    BY OfIs, Scaled
  <2>2. /\ Of(o, 100 - q.percent) \in Int /\ Of(r, 100 - q.percent) \in Int
        /\ Of(r, 100 - q.percent) <= Of(o, 100 - q.percent)
    BY <1>1, OfIs, OfGrows
  <2>3. n * PRECISION_FACTOR \in Nat /\ m * PRECISION_FACTOR \in Nat
    BY <2>1, Product
  <2>4. n * PRECISION_FACTOR > Of(o, 100 - q.percent)
    BY <1>3, FailIs
  <2>5. m * PRECISION_FACTOR > Of(r, 100 - q.percent)
    BY <2>1, <2>2, <2>3, <2>4
  <2> QED
    BY <1>3, <2>5, FailIs
<1> QED
  BY <1>2, <1>3

\* With so many against, those in favour cannot be enough.
LEMMA FailForbids ==
  ASSUME NEW q \in Portions(1), ~q.low, NEW n \in Nat, NEW o \in Nat, doesVoteCountFail(n, o, q),
         NEW y \in Nat, NEW r \in Nat, r <= o, y + n <= r
  PROVE  ~doesVoteCountPass(y, r, q)
<1>1. q \in Portions(0)
  BY DEF Portions
<1>2. doesVoteCountFail(n, r, q)
  BY <1>1, FailKeeps
<1> SUFFICES ASSUME doesVoteCountPass(y, r, q) PROVE FALSE
  OBVIOUS
<1>3. r # 0
  BY PassIs
<1>4. CASE q.majority
  BY <1>1, <1>2, <1>3, <1>4, PassIs, FailIs
<1>5. CASE ~q.majority
  <2>1. PICK c \in Nat : c = q.percent /\ c <= 100 /\ 100 - c \in Nat
    BY PortionIs
  <2>2. PICK e \in Nat : e = 100 - c
    BY <2>1
  <2>3. PICK F \in Nat : F = PRECISION_FACTOR /\ F >= 100
    BY OfIs
  <2>4. n * F > Of(r, e) /\ y * F >= Of(r, c)
    BY <1>1, <1>2, <1>3, <1>5, <2>1, <2>2, <2>3, PassIs, FailIs
  <2>5. /\ Of(r, e) \in Int /\ r * F * e < 100 * Of(r, e) + 100
        /\ Of(r, c) \in Int /\ r * F * c < 100 * Of(r, c) + 100
    BY <2>1, <2>2, <2>3, OfIs
  <2>6. n * F \in Nat /\ y * F \in Nat /\ r * F \in Nat /\ r * F * e \in Nat /\ r * F * c \in Nat
    BY <2>1, <2>2, <2>3, Product
  <2>7. r * F * e + r * F * c = 100 * (r * F)
    <3>1. PICK x \in Nat : x = r * F
      BY <2>6
    <3>2. c + e = 100
      BY <2>1, <2>2
    <3>3. x * e + x * c = x * (e + c) /\ x * (e + c) = 100 * x
      BY <3>2
    <3> QED
      BY <3>1, <3>3
  <2>8. r * F * e < 100 * (n * F)
    BY <2>4, <2>5, <2>6
  <2>9. r * F * c < 100 * (y * F) + 100
    BY <2>4, <2>5, <2>6
  <2>10. r * e < 100 * n
    <3>1. r * e \in Nat /\ 100 * n \in Nat
      BY Product
    <3>2. 100 * n <= r * e => (100 * n) * F <= (r * e) * F
      BY <3>1, Scaled
    <3>3. (100 * n) * F = 100 * (n * F) /\ (r * e) * F = r * F * e
      OBVIOUS
    <3> QED
      BY <2>6, <2>8, <3>1, <3>2, <3>3
  <2>11. r * F * e + F <= 100 * (n * F)
    <3>1. r * e \in Nat /\ 100 * n \in Nat /\ r * e + 1 <= 100 * n
      BY <2>10, Product
    <3>2. (r * e + 1) * F <= (100 * n) * F
      BY <3>1, Scaled
    <3>3. (100 * n) * F = 100 * (n * F) /\ (r * e + 1) * F = r * F * e + F
      OBVIOUS
    <3> QED
      BY <3>2, <3>3
  <2>12. y * F + n * F <= r * F
    <3>1. (y + n) * F <= r * F
      BY Scaled
    <3>2. (y + n) * F = y * F + n * F
      OBVIOUS
    <3> QED
      BY <3>1, <3>2
  <2>13. PICK A \in Nat : A = r * F * e
    BY <2>6
  <2>14. PICK B \in Nat : B = r * F * c
    BY <2>6
  <2>15. PICK N \in Nat : N = n * F
    BY <2>6
  <2>16. PICK Y \in Nat : Y = y * F
    BY <2>6
  <2>17. PICK R \in Nat : R = r * F
    BY <2>6
  <2>18. A + B = 100 * R /\ A + F <= 100 * N /\ B < 100 * Y + 100 /\ Y + N <= R
    BY <2>7, <2>9, <2>11, <2>12, <2>13, <2>14, <2>15, <2>16, <2>17
  <2> QED
    BY ONLY <2>3, <2>13, <2>14, <2>15, <2>16, <2>17, <2>18
<1> QED
  BY <1>4, <1>5
-----------------------------------------------------------------------------
(* What votes decide.                                                      *)

OptionsOf(p) == Len(p.individual)

\* What does not change about a proposal.
Terms(p) ==
    /\ p.kind \in {"single", "multiple"} /\ p.threshold \in Thresholds(p.kind) /\ p.total \in Nat
    /\ p.expiration \in Expirations /\ p.min \subseteq Expirations /\ p.veto \subseteq Durations
    /\ p.revoting \in BOOLEAN /\ p.hasIndividual \in BOOLEAN
    /\ \A e \in p.min : e.unit = p.expiration.unit /\ e.at <= p.expiration.at
    /\ OptionsOf(p) \in Nat /\ IF p.kind = "single" THEN OptionsOf(p) = 3 ELSE OptionsOf(p) >= 2

\* Votes v decide a proposal that has expired, or not (x).
SinglePasses(p, v, x) ==
    CASE p.threshold.type = "absolute_percentage" ->
             doesVoteCountPass(v[1], p.total - v[3], p.threshold.percentage)
      [] p.threshold.type = "threshold_quorum" ->
             /\ doesVoteCountPass(totalVotes(v), p.total, p.threshold.quorum)
             /\ doesVoteCountPass(v[1], (IF x THEN totalVotes(v) ELSE p.total) - v[3], p.threshold.percentage)
      [] p.threshold.type = "absolute_count" -> v[1] >= p.threshold.count

SingleFails(p, v, x) ==
    CASE p.threshold.type = "absolute_percentage" -> Fails(v, p.total - v[3], p.threshold.percentage)
      [] p.threshold.type = "threshold_quorum" ->
             IF ~x THEN Fails(v, p.total - v[3], p.threshold.percentage)
             ELSE doesVoteCountPass(totalVotes(v), p.total, p.threshold.quorum)
                      => Fails(v, totalVotes(v) - v[3], p.threshold.percentage)
      [] p.threshold.type = "absolute_count" -> v[1] + p.total - totalVotes(v) < p.threshold.count

MultiplePasses(p, v, x) ==
    /\ doesVoteCountPass(totalVotes(v), p.total, p.threshold.quorum)
    /\ \E i \in DOMAIN v :
           /\ topChoices(v) = {i} /\ ~isNone(v, i)
           /\ x \/ isChoiceUnbeatable(p, v, i)

MultipleFails(p, v, x) ==
    IF Cardinality(topChoices(v)) > 1 THEN x \/ p.total = totalVotes(v)
    ELSE \E i \in topChoices(v) :
             IF x THEN doesVoteCountPass(totalVotes(v), p.total, p.threshold.quorum) => isNone(v, i)
             ELSE isNone(v, i) /\ isChoiceUnbeatable(p, v, i)

Passes(p, v, x) == IF p.kind = "single" THEN SinglePasses(p, v, x) ELSE MultiplePasses(p, v, x)
Falls(p, v, x) == IF p.kind = "single" THEN SingleFails(p, v, x) ELSE MultipleFails(p, v, x)

\* Votes of a proposal that may follow others.
MayCast(p, v, w) == Later(OptionsOf(p), v, w) /\ totalVotes(w) <= p.total

LEMMA SingleIs ==
  ASSUME NEW p, Terms(p), p.kind = "single", NEW v, NEW w, MayCast(p, v, w)
  PROVE  /\ v[1] \in Nat /\ v[2] \in Nat /\ v[3] \in Nat /\ w[1] \in Nat /\ w[2] \in Nat /\ w[3] \in Nat
         /\ v[1] <= w[1] /\ v[2] <= w[2] /\ v[3] <= w[3]
         /\ totalVotes(v) = v[1] + v[2] + v[3] /\ totalVotes(w) = w[1] + w[2] + w[3]
         /\ p.total \in Nat /\ totalVotes(w) <= p.total
<1>1. Later(3, v, w) /\ p.total \in Nat /\ totalVotes(w) <= p.total
  BY DEF Terms, MayCast
<1>2. v \in Votes(3) /\ w \in Votes(3) /\ \A i \in 1 .. 3 : v[i] <= w[i]
  BY <1>1 DEF Later
<1>3. 1 \in 1 .. 3 /\ 2 \in 1 .. 3 /\ 3 \in 1 .. 3
  OBVIOUS
<1> QED
  BY <1>1, <1>2, <1>3, OfThree

\* The kinds of thresholds of single choice proposals.
LEMMA ThresholdIs ==
  ASSUME NEW th \in Thresholds("single")
  PROVE  \/ th.type = "absolute_percentage" /\ th.percentage \in Portions(1) /\ "percentage" \in DOMAIN th
         \/ /\ th.type = "threshold_quorum" /\ th.percentage \in Portions(1) /\ "percentage" \in DOMAIN th
            /\ th.quorum \in Portions(0)
         \/ th.type = "absolute_count" /\ th.count \in Nat
BY DEF Thresholds

LEMMA SinglePassesIs ==
  ASSUME NEW p, NEW v, NEW x \in BOOLEAN
  PROVE  /\ p.threshold.type = "absolute_percentage" =>
                /\ SinglePasses(p, v, x) <=> doesVoteCountPass(v[1], p.total - v[3], p.threshold.percentage)
                /\ SingleFails(p, v, x) <=> Fails(v, p.total - v[3], p.threshold.percentage)
         /\ p.threshold.type = "threshold_quorum" =>
                /\ SinglePasses(p, v, x) <=>
                      /\ doesVoteCountPass(totalVotes(v), p.total, p.threshold.quorum)
                      /\ doesVoteCountPass(v[1], (IF x THEN totalVotes(v) ELSE p.total) - v[3], p.threshold.percentage)
                /\ ~x => (SingleFails(p, v, x) <=> Fails(v, p.total - v[3], p.threshold.percentage))
         /\ p.threshold.type = "absolute_count" =>
                /\ SinglePasses(p, v, x) <=> v[1] >= p.threshold.count
                /\ SingleFails(p, v, x) <=> v[1] + p.total - totalVotes(v) < p.threshold.count
BY DEF SinglePasses, SingleFails

LEMMA SinglePassKeeps ==
  ASSUME NEW p, Terms(p), p.kind = "single", NEW v, NEW w, MayCast(p, v, w), NEW x \in BOOLEAN,
         SinglePasses(p, v, FALSE)
  PROVE  SinglePasses(p, w, x)
<1>1. /\ v[1] \in Nat /\ v[2] \in Nat /\ v[3] \in Nat /\ w[1] \in Nat /\ w[2] \in Nat /\ w[3] \in Nat
      /\ v[1] <= w[1] /\ v[2] <= w[2] /\ v[3] <= w[3]
      /\ totalVotes(v) = v[1] + v[2] + v[3] /\ totalVotes(w) = w[1] + w[2] + w[3]
      /\ p.total \in Nat /\ totalVotes(w) <= p.total
  BY SingleIs
<1>2. p.threshold \in Thresholds("single")
  BY DEF Terms
<1>3. /\ p.total - v[3] \in Nat /\ p.total - w[3] \in Nat /\ totalVotes(w) - w[3] \in Nat
      /\ p.total - w[3] <= p.total - v[3] /\ totalVotes(w) - w[3] <= p.total - v[3]
      /\ w[1] <= p.total - w[3] /\ w[1] <= totalVotes(w) - w[3]
      /\ totalVotes(v) \in Nat /\ totalVotes(w) \in Nat /\ totalVotes(v) <= totalVotes(w)
  BY <1>1
<1>4. ASSUME p.threshold.percentage \in Portions(1), NEW r \in Nat, r <= p.total - v[3], w[1] <= r,
             doesVoteCountPass(v[1], p.total - v[3], p.threshold.percentage)
      PROVE  doesVoteCountPass(w[1], r, p.threshold.percentage)
  <2>1. v[1] >= 1
    BY <1>1, <1>3, <1>4, PassNeedsVotes
  <2>2. r # 0
    BY <1>1, <1>4, <2>1
  <2>3. p.threshold.percentage \in Portions(0)
    BY <1>4 DEF Portions
  <2> QED
    BY <1>1, <1>3, <1>4, <2>2, <2>3, PassKeeps
<1>5. CASE p.threshold.type = "absolute_percentage"
  <2>1. p.threshold.percentage \in Portions(1)
    BY <1>2, <1>5, ThresholdIs
  <2> QED
    BY <1>3, <1>4, <1>5, <2>1, SinglePassesIs
<1>6. CASE p.threshold.type = "threshold_quorum"
  <2>1. p.threshold.percentage \in Portions(1) /\ p.threshold.quorum \in Portions(0)
    BY <1>2, <1>6, ThresholdIs
  <2>2. /\ doesVoteCountPass(totalVotes(v), p.total, p.threshold.quorum)
        /\ doesVoteCountPass(v[1], p.total - v[3], p.threshold.percentage)
    BY <1>6, SinglePassesIs
  <2>3. doesVoteCountPass(totalVotes(w), p.total, p.threshold.quorum)
    <3>1. p.total # 0
      BY <2>2, PassIs
    <3> QED
      BY <1>1, <1>3, <2>1, <2>2, <3>1, PassKeeps
  <2>4. PICK r : r = (IF x THEN totalVotes(w) ELSE p.total) - w[3]
    OBVIOUS
  <2>5. r \in Nat /\ r <= p.total - v[3] /\ w[1] <= r
    BY <1>3, <2>4
  <2>6. doesVoteCountPass(w[1], r, p.threshold.percentage)
    BY <1>4, <2>1, <2>2, <2>5
  <2> QED
    BY <1>6, <2>3, <2>4, <2>6, SinglePassesIs
<1>7. CASE p.threshold.type = "absolute_count"
  <2>1. p.threshold.count \in Nat /\ v[1] >= p.threshold.count
    BY <1>2, <1>7, ThresholdIs, SinglePassesIs
  <2>2. w[1] >= p.threshold.count
    BY <1>1, <2>1
  <2> QED
    BY <1>7, <2>2, SinglePassesIs
<1> QED
  BY <1>2, <1>5, <1>6, <1>7, ThresholdIs

\* Fails, for a portion that is not rounded.
LEMMA FallsForGood ==
  ASSUME NEW q \in Portions(1), ~q.low, NEW v, NEW w, NEW o \in Nat, Fails(v, o, q),
         v[2] \in Nat, w[1] \in Nat, w[2] \in Nat, v[2] <= w[2], NEW r \in Nat, r <= o, w[1] + w[2] <= r
  PROVE  ~doesVoteCountPass(w[1], r, q) /\ Fails(w, r, q)
<1>1. q \in Portions(0)
  BY DEF Portions
<1>2. CASE ~q.majority /\ q.percent = 100
  <2>1. o = 0 \/ v[2] >= 1
    BY <1>2 DEF Fails
  <2>2. Fails(w, r, q)
    <3>1. r = 0 \/ w[2] >= 1
      BY <2>1
    <3> QED
      BY <1>2, <3>1 DEF Fails
  <2>3. ASSUME doesVoteCountPass(w[1], r, q) PROVE FALSE
    <3>1. r # 0 /\ w[1] * PRECISION_FACTOR >= Of(r, 100)
      BY <1>2, <2>3, PassIs
    <3>2. PICK F \in Nat : F = PRECISION_FACTOR /\ F >= 100
      BY OfIs
    <3>3. r * F \in Nat /\ r * F * 100 < 100 * Of(r, 100) + 100 /\ Of(r, 100) \in Int
      BY <3>2, OfIs
    <3>4. Of(r, 100) >= r * F
      BY <3>3
    <3>5. w[1] + 1 <= r
      BY <2>1, <3>1
    <3>6. w[1] * F \in Nat /\ (w[1] + 1) * F <= r * F /\ (w[1] + 1) * F = w[1] * F + F
      BY <3>2, <3>5, Scaled, Product
    <3> QED
      BY <3>1, <3>2, <3>3, <3>4, <3>6
  <2> QED
    BY <2>2, <2>3
<1>3. CASE ~(~q.majority /\ q.percent = 100)
  <2>1. doesVoteCountFail(v[2], o, q)
    BY <1>3 DEF Fails
  <2>2. doesVoteCountFail(w[2], r, q)
    BY <1>1, <2>1, FailKeeps
  <2>3. ~doesVoteCountPass(w[1], r, q)
    BY <2>2, FailForbids
  <2> QED
    BY <1>3, <2>2, <2>3 DEF Fails
<1> QED
  BY <1>2, <1>3

LEMMA SingleFallsForGood ==
  ASSUME NEW p, Terms(p), p.kind = "single", ~Rounded(p), NEW v, NEW w, MayCast(p, v, w),
         SingleFails(p, v, FALSE)
  PROVE  SingleFails(p, w, FALSE) /\ \A x \in BOOLEAN : ~SinglePasses(p, w, x)
<1>1. /\ v[1] \in Nat /\ v[2] \in Nat /\ v[3] \in Nat /\ w[1] \in Nat /\ w[2] \in Nat /\ w[3] \in Nat
      /\ v[1] <= w[1] /\ v[2] <= w[2] /\ v[3] <= w[3]
      /\ totalVotes(v) = v[1] + v[2] + v[3] /\ totalVotes(w) = w[1] + w[2] + w[3]
      /\ p.total \in Nat /\ totalVotes(w) <= p.total
  BY SingleIs
<1>2. p.threshold \in Thresholds("single")
  BY DEF Terms
<1>3. /\ p.total - v[3] \in Nat /\ p.total - w[3] \in Nat /\ totalVotes(w) - w[3] \in Nat
      /\ p.total - w[3] <= p.total - v[3] /\ totalVotes(w) - w[3] <= p.total - v[3]
      /\ w[1] + w[2] <= p.total - w[3] /\ w[1] + w[2] <= totalVotes(w) - w[3]
  BY <1>1
<1>4. ASSUME p.threshold.percentage \in Portions(1), "percentage" \in DOMAIN p.threshold,
             NEW r \in Nat, r <= p.total - v[3], w[1] + w[2] <= r,
             Fails(v, p.total - v[3], p.threshold.percentage)
      PROVE  ~doesVoteCountPass(w[1], r, p.threshold.percentage) /\ Fails(w, r, p.threshold.percentage)
  <2>1. ~p.threshold.percentage.low
    BY <1>4 DEF Rounded
  <2> QED
    BY <1>1, <1>3, <1>4, <2>1, FallsForGood
<1>5. CASE p.threshold.type = "absolute_percentage"
  <2>1. p.threshold.percentage \in Portions(1) /\ "percentage" \in DOMAIN p.threshold
    BY <1>2, <1>5, ThresholdIs
  <2>2. Fails(v, p.total - v[3], p.threshold.percentage)
    BY <1>5, SinglePassesIs
  <2>3. /\ ~doesVoteCountPass(w[1], p.total - w[3], p.threshold.percentage)
        /\ Fails(w, p.total - w[3], p.threshold.percentage)
    BY <1>3, <1>4, <2>1, <2>2
  <2> QED
    BY <1>5, <2>3, SinglePassesIs
<1>6. CASE p.threshold.type = "threshold_quorum"
  <2>1. p.threshold.percentage \in Portions(1) /\ "percentage" \in DOMAIN p.threshold
    BY <1>2, <1>6, ThresholdIs
  <2>2. Fails(v, p.total - v[3], p.threshold.percentage)
    BY <1>6, SinglePassesIs
  <2>3. /\ ~doesVoteCountPass(w[1], p.total - w[3], p.threshold.percentage)
        /\ ~doesVoteCountPass(w[1], totalVotes(w) - w[3], p.threshold.percentage)
        /\ Fails(w, p.total - w[3], p.threshold.percentage)
    BY <1>3, <1>4, <2>1, <2>2
  <2>4. SingleFails(p, w, FALSE)
    BY <1>6, <2>3, SinglePassesIs
  <2>5. ~SinglePasses(p, w, FALSE) /\ ~SinglePasses(p, w, TRUE)
    BY <1>6, <2>3, SinglePassesIs
  <2> QED
    BY <2>4, <2>5
<1>7. CASE p.threshold.type = "absolute_count"
  <2>1. p.threshold.count \in Nat /\ v[1] + p.total - totalVotes(v) < p.threshold.count
    BY <1>2, <1>7, ThresholdIs, SinglePassesIs
  <2>2. w[1] + p.total - totalVotes(w) < p.threshold.count /\ ~(w[1] >= p.threshold.count)
    BY <1>1, <2>1
  <2> QED
    BY <1>7, <2>2, SinglePassesIs
<1> QED
  BY <1>2, <1>5, <1>6, <1>7, ThresholdIs
-----------------------------------------------------------------------------
(* Multiple choice.                                                        *)

LEMMA Choosing ==
  ASSUME NEW n \in Nat, NEW v \in Votes(n)
  PROVE  Len(v) = n /\ DOMAIN v = 1 .. n /\ \A i : isNone(v, i) <=> i = n
<1>1. DOMAIN v = 1 .. n
  BY DEF Votes
<1>2. v \in Seq(Nat)
  BY DEF Votes
<1>3. Len(v) = n
  BY <1>1, <1>2
<1> QED
  BY <1>1, <1>3 DEF isNone

\* A choice nobody can beat with what is left to cast.
Beats(p, n, v, i) ==
    \A j \in (1 .. n) \ {i} :
        IF i = n THEN v[j] + (p.total - totalVotes(v)) <= v[i] ELSE v[j] + (p.total - totalVotes(v)) < v[i]

LEMMA UnbeatableIs ==
  ASSUME NEW p, p.total \in Nat, NEW n \in Nat, n >= 2, NEW v \in Votes(n), NEW i \in 1 .. n
  PROVE  isChoiceUnbeatable(p, v, i) <=> Beats(p, n, v, i)
<1>1. PICK T : T = {v[j] : j \in DOMAIN v \ {i}}
  OBVIOUS
<1>2. /\ DOMAIN v = 1 .. n /\ IsFiniteSet(1 .. n) /\ totalVotes(v) \in Nat
      /\ \A j \in 1 .. n : v[j] \in Nat
  BY Counted
<1>3. T \in SUBSET Nat /\ IsFiniteSet(T) /\ T # {}
  <2>1. IsFiniteSet((1 .. n) \ {i})
    BY <1>2, FS_Subset
  <2>2. T = {v[j] : j \in (1 .. n) \ {i}}
    BY <1>1, <1>2
  <2>3. T \subseteq 0 .. totalVotes(v) /\ IsFiniteSet(0 .. totalVotes(v))
    <3>1. \A j \in 1 .. n : v[j] \in 0 .. totalVotes(v)
      BY <1>2, Counted
    <3> QED
      BY <1>2, <2>2, <3>1, FS_Interval
  <2>5. IsFiniteSet(T)
    BY <2>3, FS_Subset
  <2>4. (IF i = 1 THEN 2 ELSE 1) \in (1 .. n) \ {i}
    OBVIOUS
  <2> QED
    BY <1>2, <2>2, <2>4, <2>5
<1>4. Max(T) \in T /\ \A k \in T : k <= Max(T)
  BY <1>3, MaxOf
<1>5. PICK second \in Nat : second = Max(T)
  BY <1>3, <1>4
<1>6. PICK rem \in Int : rem = p.total - totalVotes(v)
  BY <1>2
<1>7. isChoiceUnbeatable(p, v, i) <=> IF i = n THEN v[i] >= second + rem ELSE v[i] > second + rem
  BY <1>1, <1>5, <1>6, Choosing DEF isChoiceUnbeatable
<1>8. /\ \E j \in (1 .. n) \ {i} : v[j] = second
      /\ \A j \in (1 .. n) \ {i} : v[j] <= second
  BY <1>1, <1>2, <1>4, <1>5
<1>9. Beats(p, n, v, i) <=>
          \A j \in (1 .. n) \ {i} : IF i = n THEN v[j] + rem <= v[i] ELSE v[j] + rem < v[i]
  BY <1>6 DEF Beats
<1>10. v[i] \in Nat
  BY <1>2
<1>11. PICK k \in (1 .. n) \ {i} : v[k] = second
  BY <1>8
<1>12. ASSUME IF i = n THEN v[i] >= second + rem ELSE v[i] > second + rem,
              NEW j \in (1 .. n) \ {i}
       PROVE  IF i = n THEN v[j] + rem <= v[i] ELSE v[j] + rem < v[i]
  <2>1. v[j] \in Nat /\ v[j] <= second
    BY <1>2, <1>8
  <2> QED
    BY <1>10, <1>12, <2>1
<1>13. ASSUME \A j \in (1 .. n) \ {i} : IF i = n THEN v[j] + rem <= v[i] ELSE v[j] + rem < v[i]
       PROVE  IF i = n THEN v[i] >= second + rem ELSE v[i] > second + rem
  <2>1. IF i = n THEN v[k] + rem <= v[i] ELSE v[k] + rem < v[i]
    BY <1>13
  <2> QED
    BY <1>10, <1>11, <2>1
<1> QED
  BY <1>7, <1>9, <1>12, <1>13

LEMMA TopIs ==
  ASSUME NEW n \in Nat, n >= 1, NEW v \in Votes(n)
  PROVE  /\ topChoices(v) = {i \in 1 .. n : \A j \in 1 .. n : v[j] <= v[i]}
         /\ topChoices(v) # {}
         /\ ~(Cardinality(topChoices(v)) > 1) => \A i \in topChoices(v) : topChoices(v) = {i}
         /\ Cardinality(topChoices(v)) > 1 => \A i : topChoices(v) # {i}
         /\ Cardinality(topChoices(v)) > 1 => \A i \in topChoices(v) : \E j \in topChoices(v) : j # i
<1>1. /\ DOMAIN v = 1 .. n /\ IsFiniteSet(1 .. n) /\ \A j \in 1 .. n : v[j] \in Nat
  BY Counted
<1>2. topChoices(v) = {i \in 1 .. n : \A j \in 1 .. n : v[j] <= v[i]}
  BY <1>1 DEF topChoices
<1>3. topChoices(v) # {}
  <2>1. PICK T : T = {v[j] : j \in 1 .. n}
    OBVIOUS
  <2>2. T \in SUBSET Nat /\ IsFiniteSet(T) /\ v[1] \in T
    <3>1. IsFiniteSet(T)
      <4>1. totalVotes(v) \in Nat /\ \A j \in 1 .. n : v[j] \in 0 .. totalVotes(v)
        BY <1>1, Counted
      <4>2. PICK k \in Nat : k = totalVotes(v)
        BY <4>1
      <4>3. T \subseteq 0 .. k
        BY <2>1, <4>1, <4>2
      <4>4. IsFiniteSet(0 .. k)
        BY <4>2, FS_Interval
      <4> QED
        BY <4>3, <4>4, FS_Subset
    <3>2. 1 \in 1 .. n
      OBVIOUS
    <3> QED
      BY <1>1, <2>1, <3>1, <3>2
  <2>3. Max(T) \in T /\ \A k \in T : k <= Max(T)
    BY <2>2, MaxOf
  <2>4. PICK i \in 1 .. n : v[i] = Max(T)
    BY <2>1, <2>3
  <2>5. \A j \in 1 .. n : v[j] <= v[i]
    BY <2>1, <2>3, <2>4
  <2> QED
    BY <1>2, <2>5
<1>4. PICK T : T = topChoices(v)
  OBVIOUS
<1>5. IsFiniteSet(T) /\ Cardinality(T) \in Nat
  <2>1. T \subseteq 1 .. n
    BY <1>2, <1>4
  <2> QED
    BY <1>1, <2>1, FS_Subset, FS_CardinalityType
<1>6. \A i \in T : Cardinality(T \ {i}) = Cardinality(T) - 1 /\ IsFiniteSet(T \ {i})
                   /\ Cardinality(T \ {i}) \in Nat
  BY <1>5, SmallerSubset, FS_Subset
<1>7. \A i \in T : Cardinality(T \ {i}) = 0 <=> T \ {i} = {}
  BY <1>6, FS_EmptySet
<1>8. ASSUME NEW i \in T, ~(Cardinality(T) > 1) PROVE T = {i}
  <2>1. Cardinality(T \ {i}) = Cardinality(T) - 1 /\ Cardinality(T \ {i}) \in Nat
    BY <1>6
  <2>2. Cardinality(T \ {i}) = 0
    BY <1>5, <1>8, <2>1
  <2> QED
    BY <1>7, <2>2
<1>9. ASSUME NEW i \in T, Cardinality(T) > 1 PROVE \E j \in T : j # i
  <2>1. Cardinality(T \ {i}) = Cardinality(T) - 1
    BY <1>6
  <2>2. Cardinality(T \ {i}) # 0
    BY <1>5, <1>9, <2>1
  <2> QED
    BY <1>7, <2>2
<1>10. ASSUME Cardinality(T) > 1, NEW i, T = {i} PROVE FALSE
  <2>1. \E j \in T : j # i
    BY <1>9, <1>10
  <2> QED
    BY <1>10, <2>1
<1>11. Cardinality(T) > 1 => \A i : T # {i}
  BY <1>10
<1> QED
  BY <1>2, <1>3, <1>4, <1>8, <1>9, <1>11

LEMMA MultipleIs ==
  ASSUME NEW p, Terms(p), p.kind = "multiple", NEW v, NEW w, MayCast(p, v, w)
  PROVE  /\ OptionsOf(p) \in Nat /\ OptionsOf(p) >= 2 /\ p.total \in Nat
         /\ v \in Votes(OptionsOf(p)) /\ w \in Votes(OptionsOf(p))
         /\ totalVotes(v) \in Nat /\ totalVotes(w) \in Nat
         /\ totalVotes(v) <= totalVotes(w) /\ totalVotes(w) <= p.total
         /\ \A i \in 1 .. OptionsOf(p) : v[i] \in Nat /\ w[i] \in Nat /\ v[i] <= w[i]
         /\ \A i \in 1 .. OptionsOf(p) : w[i] - v[i] <= totalVotes(w) - totalVotes(v)
         /\ \A i, j \in 1 .. OptionsOf(p) : i # j =>
                (w[i] - v[i]) + (w[j] - v[j]) <= totalVotes(w) - totalVotes(v)
         /\ p.threshold.quorum \in Portions(0)
<1>1. OptionsOf(p) \in Nat /\ OptionsOf(p) >= 2 /\ p.total \in Nat
  BY DEF Terms
<1>2. Later(OptionsOf(p), v, w) /\ totalVotes(w) <= p.total
  BY DEF MayCast
<1>3. v \in Votes(OptionsOf(p)) /\ w \in Votes(OptionsOf(p)) /\ \A i \in 1 .. OptionsOf(p) : v[i] <= w[i]
  BY <1>2 DEF Later
<1>4. p.threshold.quorum \in Portions(0)
  BY DEF Terms, Thresholds
<1> QED
  BY <1>1, <1>2, <1>3, <1>4, Counted, Growing

\* A choice that cannot be beaten is not.
LEMMA BeatsForGood ==
  ASSUME NEW p, Terms(p), p.kind = "multiple", NEW v, NEW w, MayCast(p, v, w),
         NEW i \in 1 .. OptionsOf(p), Beats(p, OptionsOf(p), v, i)
  PROVE  Beats(p, OptionsOf(p), w, i)
<1>1. PICK n \in Nat : n = OptionsOf(p)
  BY MultipleIs
<1>2. /\ totalVotes(v) \in Nat /\ totalVotes(w) \in Nat /\ p.total \in Nat
      /\ \A j \in 1 .. n : v[j] \in Nat /\ w[j] \in Nat /\ v[j] <= w[j]
      /\ \A j \in (1 .. n) \ {i} : (w[i] - v[i]) + (w[j] - v[j]) <= totalVotes(w) - totalVotes(v)
  BY <1>1, MultipleIs
<1>3. PICK a \in Nat : a = totalVotes(v)
  BY <1>2
<1>4. PICK b \in Nat : b = totalVotes(w)
  BY <1>2
<1> SUFFICES ASSUME NEW j \in (1 .. n) \ {i}
             PROVE  IF i = n THEN w[j] + (p.total - totalVotes(w)) <= w[i] ELSE w[j] + (p.total - totalVotes(w)) < w[i]
  BY <1>1 DEF Beats
<1>5. IF i = n THEN v[j] + (p.total - a) <= v[i] ELSE v[j] + (p.total - a) < v[i]
  BY <1>1, <1>3 DEF Beats
<1>6. (w[i] - v[i]) + (w[j] - v[j]) <= b - a /\ v[i] \in Nat /\ w[i] \in Nat /\ v[j] \in Nat /\ w[j] \in Nat /\ v[i] <= w[i]
  BY <1>1, <1>2, <1>3, <1>4
<1> QED
  BY <1>2, <1>4, <1>5, <1>6

LEMMA MultiplePassKeeps ==
  ASSUME NEW p, Terms(p), p.kind = "multiple", NEW v, NEW w, MayCast(p, v, w), NEW x \in BOOLEAN,
         MultiplePasses(p, v, FALSE)
  PROVE  MultiplePasses(p, w, x)
<1>1. PICK n \in Nat : n = OptionsOf(p) /\ n >= 2
  BY MultipleIs
<1>2. /\ totalVotes(v) \in Nat /\ totalVotes(w) \in Nat /\ p.total \in Nat
      /\ totalVotes(v) <= totalVotes(w) /\ totalVotes(w) <= p.total
      /\ v \in Votes(n) /\ w \in Votes(n)
      /\ \A j \in 1 .. n : v[j] \in Nat /\ w[j] \in Nat /\ v[j] <= w[j]
      /\ p.threshold.quorum \in Portions(0)
  BY <1>1, MultipleIs
<1>3. DOMAIN v = 1 .. n /\ DOMAIN w = 1 .. n /\ (\A k : isNone(v, k) <=> k = n) /\ (\A k : isNone(w, k) <=> k = n)
  BY <1>2, Choosing
<1>4. PICK i \in 1 .. n : topChoices(v) = {i} /\ i # n /\ isChoiceUnbeatable(p, v, i)
  BY <1>3 DEF MultiplePasses
<1>5. Beats(p, n, v, i)
  BY <1>1, <1>2, <1>4, UnbeatableIs
<1>6. Beats(p, n, w, i)
  BY <1>1, <1>5, BeatsForGood
<1>7. isChoiceUnbeatable(p, w, i)
  BY <1>1, <1>2, <1>6, UnbeatableIs
<1>8. \A j \in (1 .. n) \ {i} : w[j] < w[i]
  <2> SUFFICES ASSUME NEW j \in (1 .. n) \ {i} PROVE w[j] < w[i]
    OBVIOUS
  <2>1. w[j] + (p.total - totalVotes(w)) < w[i]
    BY <1>4, <1>6 DEF Beats
  <2>2. w[j] \in Nat /\ w[i] \in Nat
    BY <1>2
  <2>3. PICK rem \in Nat : rem = p.total - totalVotes(w)
    BY <1>2
  <2> QED
    BY <2>1, <2>2, <2>3
<1>9. topChoices(w) = {i}
  <2>1. topChoices(w) = {k \in 1 .. n : \A j \in 1 .. n : w[j] <= w[k]}
    BY <1>1, <1>2, TopIs
  <2>2. \A j \in 1 .. n : w[j] <= w[i]
    BY <1>2, <1>8
  <2>3. \A k \in (1 .. n) \ {i} : ~(w[i] <= w[k])
    BY <1>2, <1>8
  <2> QED
    BY <2>1, <2>2, <2>3
<1>10. doesVoteCountPass(totalVotes(w), p.total, p.threshold.quorum)
  <2>1. doesVoteCountPass(totalVotes(v), p.total, p.threshold.quorum)
    BY DEF MultiplePasses
  <2>2. p.total # 0 /\ p.total <= p.total
    BY <1>2, <2>1, PassIs
  <2> QED
    BY <1>2, <2>1, <2>2, PassKeeps
<1> QED
  BY <1>3, <1>4, <1>7, <1>9, <1>10 DEF MultiplePasses

LEMMA MultipleFallsForGood ==
  ASSUME NEW p, Terms(p), p.kind = "multiple", NEW v, NEW w, MayCast(p, v, w), MultipleFails(p, v, FALSE)
  PROVE  MultipleFails(p, w, FALSE) /\ \A x \in BOOLEAN : ~MultiplePasses(p, w, x)
<1>1. PICK n \in Nat : n = OptionsOf(p) /\ n >= 2
  BY MultipleIs
<1>2. /\ totalVotes(v) \in Nat /\ totalVotes(w) \in Nat /\ p.total \in Nat
      /\ totalVotes(v) <= totalVotes(w) /\ totalVotes(w) <= p.total
      /\ v \in Votes(n) /\ w \in Votes(n)
      /\ \A j \in 1 .. n : v[j] \in Nat /\ w[j] \in Nat /\ v[j] <= w[j] /\ w[j] - v[j] <= totalVotes(w) - totalVotes(v)
  BY <1>1, MultipleIs
<1>3. DOMAIN v = 1 .. n /\ DOMAIN w = 1 .. n /\ (\A k : isNone(v, k) <=> k = n) /\ (\A k : isNone(w, k) <=> k = n)
  BY <1>2, Choosing
<1>4. topChoices(w) = {i \in 1 .. n : \A j \in 1 .. n : w[j] <= w[i]}
  BY <1>1, <1>2, TopIs
<1>5. CASE Cardinality(topChoices(v)) > 1
  <2>1. p.total = totalVotes(v)
    BY <1>5 DEF MultipleFails
  <2>2. \A j \in 1 .. n : w[j] = v[j]
    BY <1>2, <2>1
  <2>3. w = v
    BY <1>2, <2>2 DEF Votes
  <2>4. \A i : topChoices(v) # {i}
    BY <1>1, <1>2, <1>5, TopIs
  <2>5. \A x \in BOOLEAN : ~MultiplePasses(p, v, x)
    BY <2>4 DEF MultiplePasses
  <2> QED
    BY <2>3, <2>5
<1>6. CASE ~(Cardinality(topChoices(v)) > 1)
  <2>1. n \in 1 .. n /\ isChoiceUnbeatable(p, v, n)
    BY <1>1, <1>3, <1>6 DEF MultipleFails
  <2>2. Beats(p, n, v, n)
    BY <1>1, <1>2, <2>1, UnbeatableIs
  <2>3. Beats(p, n, w, n)
    BY <1>1, <2>1, <2>2, BeatsForGood
  <2>4. isChoiceUnbeatable(p, w, n)
    BY <1>1, <1>2, <2>1, <2>3, UnbeatableIs
  <2>5. \A j \in (1 .. n) \ {n} : w[j] + (p.total - totalVotes(w)) <= w[n]
    BY <2>3 DEF Beats
  <2>6. PICK rem \in Nat : rem = p.total - totalVotes(w)
    BY <1>2
  <2>7. \A j \in 1 .. n : w[j] <= w[n]
    <3> SUFFICES ASSUME NEW j \in 1 .. n PROVE w[j] <= w[n]
      OBVIOUS
    <3>1. w[j] \in Nat /\ w[n] \in Nat
      BY <1>2, <2>1
    <3>2. j # n => w[j] + rem <= w[n]
      BY <2>5, <2>6
    <3> QED
      BY <3>1, <3>2
  <2>8. n \in topChoices(w)
    BY <1>4, <2>1, <2>7
  <2>9. \A x \in BOOLEAN : ~MultiplePasses(p, w, x)
    BY <1>3, <2>8 DEF MultiplePasses
  <2>10. CASE Cardinality(topChoices(w)) > 1
    <3>1. PICK j \in topChoices(w) : j # n
      BY <1>1, <1>2, <2>8, <2>10, TopIs
    <3>2. j \in (1 .. n) \ {n} /\ w[n] <= w[j] /\ w[n] \in Nat /\ w[j] \in Nat
      BY <1>2, <1>4, <2>1, <3>1
    <3>3. w[j] + rem <= w[n]
      BY <2>5, <2>6, <3>2
    <3>4. rem = 0
      BY <3>2, <3>3
    <3>5. p.total = totalVotes(w)
      BY <1>2, <2>6, <3>4
    <3> QED
      BY <2>9, <2>10, <3>5 DEF MultipleFails
  <2>11. CASE ~(Cardinality(topChoices(w)) > 1)
    BY <1>3, <2>4, <2>8, <2>9, <2>11 DEF MultipleFails
  <2> QED
    BY <2>10, <2>11
<1> QED
  BY <1>5, <1>6
-----------------------------------------------------------------------------
(* What is reported, as votes are cast and time passes.                    *)

LEMMA PassKeepsAll ==
  ASSUME NEW p, Terms(p), NEW v, NEW w, MayCast(p, v, w), NEW x \in BOOLEAN, Passes(p, v, FALSE)
  PROVE  Passes(p, w, x)
<1>1. CASE p.kind = "single"
  <2>1. SinglePasses(p, w, x)
    BY <1>1, SinglePassKeeps DEF Passes
  <2> QED
    BY <1>1, <2>1 DEF Passes
<1>2. CASE p.kind # "single"
  <2>1. p.kind = "multiple"
    BY <1>2 DEF Terms
  <2>2. MultiplePasses(p, w, x)
    BY <2>1, MultiplePassKeeps DEF Passes
  <2> QED
    BY <1>2, <2>2 DEF Passes
<1> QED
  BY <1>1, <1>2

LEMMA FallKeepsAll ==
  ASSUME NEW p, Terms(p), ~Rounded(p), NEW v, NEW w, MayCast(p, v, w), Falls(p, v, FALSE)
  PROVE  Falls(p, w, FALSE) /\ \A x \in BOOLEAN : ~Passes(p, w, x)
<1>1. CASE p.kind = "single"
  <2>1. SingleFails(p, w, FALSE) /\ \A x \in BOOLEAN : ~SinglePasses(p, w, x)
    BY <1>1, SingleFallsForGood DEF Falls
  <2> QED
    BY <1>1, <2>1 DEF Passes, Falls
<1>2. CASE p.kind # "single"
  <2>1. p.kind = "multiple"
    BY <1>2 DEF Terms
  <2>2. MultipleFails(p, w, FALSE) /\ \A x \in BOOLEAN : ~MultiplePasses(p, w, x)
    BY <2>1, MultipleFallsForGood DEF Falls
  <2> QED
    BY <1>2, <2>2 DEF Passes, Falls
<1> QED
  BY <1>1, <1>2

LEMMA PassedIs ==
  ASSUME NEW p, NEW t
  PROVE  isPassed(p, t) <=>
             /\ ~Revotable(p, t) /\ ~TooEarly(p, t)
             /\ Passes(p, votesToConsider(p, t), isExpirationExpired(p.expiration, t))
<1>1. PICK v : v = votesToConsider(p, t)
  OBVIOUS
<1>2. PICK x : x = isExpirationExpired(p.expiration, t)
  OBVIOUS
<1>3. isPassedSingle(p, t) <=> ~Revotable(p, t) /\ ~TooEarly(p, t) /\ SinglePasses(p, v, x)
  BY <1>1, <1>2 DEF isPassedSingle, SinglePasses
<1>4. isPassedMultiple(p, t) <=> ~Revotable(p, t) /\ ~TooEarly(p, t) /\ MultiplePasses(p, v, x)
  BY <1>1, <1>2 DEF isPassedMultiple, MultiplePasses
<1> QED
  BY <1>1, <1>2, <1>3, <1>4 DEF isPassed, Passes

LEMMA RejectedIs ==
  ASSUME NEW p, NEW t
  PROVE  isRejected(p, t) <=>
             /\ ~Revotable(p, t)
             /\ Falls(p, votesToConsider(p, t), isExpirationExpired(p.expiration, t))
<1>1. PICK v : v = votesToConsider(p, t)
  OBVIOUS
<1>2. PICK x : x = isExpirationExpired(p.expiration, t)
  OBVIOUS
<1>3. isRejectedSingle(p, t) <=> ~Revotable(p, t) /\ SingleFails(p, v, x)
  BY <1>1, <1>2 DEF isRejectedSingle, SingleFails
<1>4. isRejectedMultiple(p, t) <=> ~Revotable(p, t) /\ MultipleFails(p, v, x)
  BY <1>1, <1>2 DEF isRejectedMultiple, MultipleFails
<1> QED
  BY <1>1, <1>2, <1>3, <1>4 DEF isRejected, Falls

\* The votes of a proposal fit its terms.
VotesFit(p) ==
    /\ Terms(p)
    /\ p.individual \in Votes(OptionsOf(p)) /\ p.delegated \in Votes(OptionsOf(p))
    /\ totalVotes(p.individual) + totalVotes(p.delegated) <= p.total
    /\ ~p.hasIndividual => totalVotes(p.delegated) = 0

Times == [height : Nat, time : Nat]
NotAfter(t, u) == t \in Times /\ u \in Times /\ t.height <= u.height /\ t.time <= u.time

SameTerms(p, q) ==
    /\ p.kind = q.kind /\ p.threshold = q.threshold /\ p.total = q.total /\ p.expiration = q.expiration
    /\ p.min = q.min /\ p.revoting = q.revoting /\ p.veto = q.veto /\ p.hasIndividual = q.hasIndividual
    /\ OptionsOf(p) = OptionsOf(q)

\* Proposal p at t may be q at u: votes are cast before it expires, and taken back
\* only where they may be.
MayBecome(p, t, q, u) ==
    /\ VotesFit(p) /\ VotesFit(q) /\ SameTerms(p, q) /\ NotAfter(t, u)
    /\ \/ /\ t = u /\ ~isExpirationExpired(p.expiration, t)
          /\ p.revoting \/ Later(OptionsOf(p), p.individual, q.individual)
       \/ p.individual = q.individual /\ p.delegated = q.delegated

LEMMA ExpiredStays ==
  ASSUME NEW e \in Expirations, NEW t, NEW u, NotAfter(t, u), isExpirationExpired(e, t)
  PROVE  isExpirationExpired(e, u)
<1>1. /\ t.height \in Nat /\ t.time \in Nat /\ u.height \in Nat /\ u.time \in Nat /\ e.at \in Nat
      /\ t.height <= u.height /\ t.time <= u.time /\ e.unit \in {"never", "height", "time"}
  BY DEF NotAfter, Times, Expirations
<1>2. e.unit # "never" /\ t[e.unit] >= e.at
  BY DEF isExpirationExpired
<1>3. CASE e.unit = "height"
  <2>1. u.height >= e.at
    BY <1>1, <1>2, <1>3
  <2> QED
    BY <1>3, <2>1 DEF isExpirationExpired
<1>4. CASE e.unit = "time"
  <2>1. u.time >= e.at
    BY <1>1, <1>2, <1>4
  <2> QED
    BY <1>4, <2>1 DEF isExpirationExpired
<1> QED
  BY <1>1, <1>2, <1>3, <1>4

LEMMA VotesAre ==
  ASSUME NEW p, VotesFit(p), NEW t
  PROVE  /\ isExpirationExpired(p.expiration, t) => votesToConsider(p, t) = Plus(p.individual, p.delegated)
         /\ ~isExpirationExpired(p.expiration, t) => votesToConsider(p, t) = p.individual
         /\ votesToConsider(p, t) \in Votes(OptionsOf(p))
         /\ Later(OptionsOf(p), p.individual, votesToConsider(p, t))
         /\ totalVotes(votesToConsider(p, t)) <= p.total
<1>1. /\ OptionsOf(p) \in Nat /\ p.individual \in Votes(OptionsOf(p)) /\ p.delegated \in Votes(OptionsOf(p))
      /\ totalVotes(p.individual) + totalVotes(p.delegated) <= p.total
      /\ ~p.hasIndividual => totalVotes(p.delegated) = 0
  BY DEF VotesFit, Terms
<1>2. PICK n \in Nat : n = OptionsOf(p)
  BY <1>1
<1>3. PICK v \in Votes(n) : v = p.individual
  BY <1>1, <1>2
<1>4. PICK d \in Votes(n) : d = p.delegated
  BY <1>1, <1>2
<1>5. totalVotes(v) \in Nat /\ totalVotes(d) \in Nat /\ totalVotes(v) + totalVotes(d) <= p.total /\ p.total \in Nat
  BY <1>1, <1>3, <1>4, Counted DEF VotesFit, Terms
<1>6. /\ Plus(v, d) \in Votes(n) /\ Later(n, v, Plus(v, d))
      /\ totalVotes(Plus(v, d)) = totalVotes(v) + totalVotes(d)
      /\ totalVotes(d) = 0 => Plus(v, d) = v
  BY Together
<1>7. Later(n, v, v)
  <2>1. \A i \in 1 .. n : v[i] <= v[i]
    BY DEF Votes
  <2> QED
    BY <2>1 DEF Later
<1>8. votesToConsider(p, t) = IF ~isExpirationExpired(p.expiration, t) /\ p.hasIndividual THEN v ELSE Plus(v, d)
  BY <1>3, <1>4 DEF votesToConsider
<1>9. ~p.hasIndividual => Plus(v, d) = v
  BY <1>1, <1>4, <1>6
<1>10. totalVotes(v) <= p.total /\ totalVotes(Plus(v, d)) <= p.total
  BY <1>5, <1>6
<1> QED
  BY <1>2, <1>3, <1>4, <1>6, <1>7, <1>8, <1>9, <1>10

LEMMA LaterStill ==
  ASSUME NEW n \in Nat, NEW u, NEW v, NEW w, Later(n, u, v), Later(n, v, w)
  PROVE  Later(n, u, w)
<1>1. u \in Votes(n) /\ w \in Votes(n)
  BY DEF Later
<1>2. ASSUME NEW i \in 1 .. n PROVE u[i] <= w[i]
  <2>1. u[i] \in Nat /\ v[i] \in Nat /\ w[i] \in Nat /\ u[i] <= v[i] /\ v[i] <= w[i]
    BY DEF Later, Votes
  <2> QED
    BY <2>1
<1> QED
  BY <1>1, <1>2 DEF Later

\* Before it expires, and when it may no longer be changed, only later votes count.
LEMMA VotesGrow ==
  ASSUME NEW p, NEW t, NEW q, NEW u, MayBecome(p, t, q, u),
         ~isExpirationExpired(p.expiration, t), ~p.revoting
  PROVE  MayCast(p, votesToConsider(p, t), votesToConsider(q, u))
<1>1. VotesFit(p) /\ VotesFit(q) /\ OptionsOf(p) = OptionsOf(q) /\ p.total = q.total /\ OptionsOf(p) \in Nat
  BY DEF MayBecome, SameTerms, VotesFit, Terms
<1>2. votesToConsider(p, t) = p.individual
  BY <1>1, VotesAre
<1>3. Later(OptionsOf(p), q.individual, votesToConsider(q, u)) /\ totalVotes(votesToConsider(q, u)) <= p.total
  BY <1>1, VotesAre
<1>4. Later(OptionsOf(p), p.individual, q.individual)
  <2>1. CASE p.individual = q.individual
    <3>1. q.individual \in Votes(OptionsOf(p))
      BY <1>1 DEF VotesFit
    <3>2. ASSUME NEW i \in 1 .. OptionsOf(p) PROVE q.individual[i] <= q.individual[i]
      <4>1. q.individual[i] \in Nat
        BY <3>1 DEF Votes
      <4> QED
        BY <4>1
    <3> QED
      BY <2>1, <3>1, <3>2 DEF Later
  <2>2. CASE p.individual # q.individual
    BY <2>2 DEF MayBecome
  <2> QED
    BY <2>1, <2>2
<1> QED
  BY <1>1, <1>2, <1>3, <1>4, LaterStill DEF MayCast

LEMMA SameRules ==
  ASSUME NEW p, NEW q, SameTerms(p, q), NEW v, NEW x
  PROVE  (Passes(p, v, x) <=> Passes(q, v, x)) /\ (Falls(p, v, x) <=> Falls(q, v, x))
<1>1. p.kind = q.kind /\ p.threshold = q.threshold /\ p.total = q.total
  BY DEF SameTerms
<1>2. (SinglePasses(p, v, x) <=> SinglePasses(q, v, x)) /\ (SingleFails(p, v, x) <=> SingleFails(q, v, x))
  BY <1>1 DEF SinglePasses, SingleFails
<1>3. \A i : isChoiceUnbeatable(p, v, i) <=> isChoiceUnbeatable(q, v, i)
  BY <1>1 DEF isChoiceUnbeatable
<1>4. (MultiplePasses(p, v, x) <=> MultiplePasses(q, v, x)) /\ (MultipleFails(p, v, x) <=> MultipleFails(q, v, x))
  BY <1>1, <1>3 DEF MultiplePasses, MultipleFails
<1> QED
  BY <1>1, <1>2, <1>4 DEF Passes, Falls

\* Once it has expired nothing but time changes.
LEMMA SettledVotes ==
  ASSUME NEW p, NEW t, NEW q, NEW u, MayBecome(p, t, q, u), isExpirationExpired(p.expiration, t)
  PROVE  /\ isExpirationExpired(q.expiration, u) /\ votesToConsider(q, u) = votesToConsider(p, t)
         /\ ~Revotable(p, t) /\ ~TooEarly(p, t) /\ ~Revotable(q, u) /\ ~TooEarly(q, u)
<1>1. /\ VotesFit(p) /\ VotesFit(q) /\ NotAfter(t, u) /\ p.individual = q.individual /\ p.delegated = q.delegated
      /\ p.expiration = q.expiration /\ p.min = q.min
  BY DEF MayBecome, SameTerms
<1>2. /\ p.expiration \in Expirations /\ p.min \subseteq Expirations
      /\ \A e \in p.min : e.unit = p.expiration.unit /\ e.at <= p.expiration.at
  BY <1>1 DEF VotesFit, Terms
<1>3. isExpirationExpired(p.expiration, u)
  BY <1>1, <1>2, ExpiredStays
<1>4. votesToConsider(q, u) = votesToConsider(p, t)
  BY <1>1, <1>3, VotesAre
<1>5. ASSUME NEW e \in p.min, NEW s \in Times, isExpirationExpired(p.expiration, s) PROVE isExpirationExpired(e, s)
  <2>1. /\ e.unit = p.expiration.unit /\ e.at <= p.expiration.at /\ e.at \in Nat /\ p.expiration.at \in Nat
        /\ p.expiration.unit # "never" /\ s[p.expiration.unit] >= p.expiration.at
        /\ p.expiration.unit \in {"never", "height", "time"}
    BY <1>2, <1>5 DEF isExpirationExpired, Expirations
  <2>2. s[p.expiration.unit] \in Nat
    BY <2>1 DEF Times
  <2>3. s[e.unit] >= e.at /\ e.unit # "never"
    BY <2>1, <2>2
  <2> QED
    BY <2>3 DEF isExpirationExpired
<1>6. t \in Times /\ u \in Times
  BY <1>1 DEF NotAfter
<1>7. ~TooEarly(p, t) /\ ~TooEarly(q, u)
  BY <1>1, <1>3, <1>5, <1>6 DEF TooEarly
<1> QED
  BY <1>1, <1>3, <1>4, <1>7 DEF Revotable

LEMMA ExpiredIs ==
  ASSUME NEW e, NEW t
  PROVE  isExpirationExpired(e, t) \in BOOLEAN
BY DEF isExpirationExpired

LEMMA PassedStays ==
  ASSUME NEW p, NEW t, NEW q, NEW u, MayBecome(p, t, q, u), isPassed(p, t)
  PROVE  isPassed(q, u)
<1>1. /\ Terms(p) /\ SameTerms(p, q) /\ NotAfter(t, u) /\ p.min = q.min /\ p.revoting = q.revoting
      /\ p.min \subseteq Expirations
  BY DEF MayBecome, VotesFit, SameTerms, Terms
<1>2. ~Revotable(p, t) /\ ~TooEarly(p, t) /\ Passes(p, votesToConsider(p, t), isExpirationExpired(p.expiration, t))
  BY PassedIs
<1>3. CASE isExpirationExpired(p.expiration, t)
  <2>1. /\ isExpirationExpired(q.expiration, u) /\ votesToConsider(q, u) = votesToConsider(p, t)
        /\ ~Revotable(q, u) /\ ~TooEarly(q, u)
    BY <1>3, SettledVotes
  <2>2. Passes(p, votesToConsider(p, t), TRUE)
    <3>1. isExpirationExpired(p.expiration, t) = TRUE
      BY <1>3, ExpiredIs
    <3> QED
      BY <1>2, <3>1
  <2>3. Passes(q, votesToConsider(q, u), TRUE)
    BY <1>1, <2>1, <2>2, SameRules
  <2>4. isExpirationExpired(q.expiration, u) = TRUE
    BY <2>1, ExpiredIs
  <2> QED
    BY <2>1, <2>3, <2>4, PassedIs
<1>4. CASE ~isExpirationExpired(p.expiration, t)
  <2>1. ~p.revoting
    BY <1>2, <1>4 DEF Revotable
  <2>2. MayCast(p, votesToConsider(p, t), votesToConsider(q, u))
    BY <1>4, <2>1, VotesGrow
  <2>3. Passes(p, votesToConsider(p, t), FALSE)
    <3>1. isExpirationExpired(p.expiration, t) = FALSE
      BY <1>4, ExpiredIs
    <3> QED
      BY <1>2, <3>1
  <2>4. Passes(p, votesToConsider(q, u), isExpirationExpired(q.expiration, u))
    BY <1>1, <2>2, <2>3, PassKeepsAll, ExpiredIs
  <2>5. Passes(q, votesToConsider(q, u), isExpirationExpired(q.expiration, u))
    BY <1>1, <2>4, SameRules
  <2>6. ~Revotable(q, u)
    BY <1>1, <2>1 DEF Revotable
  <2>7. ~TooEarly(q, u)
    <3>1. \A e \in p.min : e \in Expirations /\ isExpirationExpired(e, t)
      BY <1>1, <1>2 DEF TooEarly
    <3>2. \A e \in p.min : isExpirationExpired(e, u)
      BY <1>1, <3>1, ExpiredStays
    <3> QED
      BY <1>1, <3>2 DEF TooEarly
  <2> QED
    BY <2>5, <2>6, <2>7, PassedIs
<1> QED
  BY <1>3, <1>4

LEMMA RejectedStays ==
  ASSUME NEW p, NEW t, NEW q, NEW u, MayBecome(p, t, q, u), ~Rounded(p), ~isPassed(p, t),
         isExpirationExpired(p.expiration, t) \/ isRejected(p, t)
  PROVE  ~isPassed(q, u) /\ (isExpirationExpired(q.expiration, u) \/ isRejected(q, u))
<1>1. Terms(p) /\ SameTerms(p, q) /\ p.revoting = q.revoting
  BY DEF MayBecome, VotesFit, SameTerms
<1>2. CASE isExpirationExpired(p.expiration, t)
  <2>1. /\ isExpirationExpired(q.expiration, u) /\ votesToConsider(q, u) = votesToConsider(p, t)
        /\ ~Revotable(p, t) /\ ~TooEarly(p, t)
    BY <1>2, SettledVotes
  <2>2. isExpirationExpired(p.expiration, t) = TRUE /\ isExpirationExpired(q.expiration, u) = TRUE
    BY <1>2, <2>1, ExpiredIs
  <2>3. ~Passes(p, votesToConsider(p, t), TRUE)
    BY <2>1, <2>2, PassedIs
  <2>4. ~Passes(q, votesToConsider(q, u), TRUE)
    BY <1>1, <2>1, <2>3, SameRules
  <2>5. ~isPassed(q, u)
    BY <2>2, <2>4, PassedIs
  <2> QED
    BY <2>1, <2>5
<1>3. CASE ~isExpirationExpired(p.expiration, t)
  <2>1. isExpirationExpired(p.expiration, t) = FALSE
    BY <1>3, ExpiredIs
  <2>2. ~Revotable(p, t) /\ Falls(p, votesToConsider(p, t), FALSE)
    BY <1>3, <2>1, RejectedIs
  <2>3. ~p.revoting
    BY <1>3, <2>2 DEF Revotable
  <2>4. MayCast(p, votesToConsider(p, t), votesToConsider(q, u))
    BY <1>3, <2>3, VotesGrow
  <2>5. Falls(p, votesToConsider(q, u), FALSE) /\ \A x \in BOOLEAN : ~Passes(p, votesToConsider(q, u), x)
    BY <1>1, <2>2, <2>4, FallKeepsAll
  <2>6. ~Passes(q, votesToConsider(q, u), isExpirationExpired(q.expiration, u))
    BY <1>1, <2>5, SameRules, ExpiredIs
  <2>7. ~isPassed(q, u)
    BY <2>6, PassedIs
  <2>8. ASSUME ~isExpirationExpired(q.expiration, u) PROVE isRejected(q, u)
    <3>1. isExpirationExpired(q.expiration, u) = FALSE
      BY <2>8, ExpiredIs
    <3>2. Falls(q, votesToConsider(q, u), FALSE)
      BY <1>1, <2>5, SameRules
    <3>3. ~Revotable(q, u)
      BY <1>1, <2>3 DEF Revotable
    <3> QED
      BY <3>1, <3>2, <3>3, RejectedIs
  <2> QED
    BY <2>7, <2>8
<1> QED
  BY <1>2, <1>3
-----------------------------------------------------------------------------
(* Statuses.                                                               *)

StoredStatuses ==
    {"open", "passed", "rejected", "executed", "execution_failed", "closed", "vetoed", "veto_timelock"}

StatusFits(p) ==
    /\ p.status \in [s : StoredStatuses, until : Expirations]
    /\ p.status.s # "veto_timelock" => p.status = St(p.status.s)

\* The status of an open proposal that passed.
PassedStatus(p, t) ==
    IF p.veto = {} THEN St("passed")
    ELSE IF ~UnitsMatch(p.expiration, CHOOSE x \in p.veto : TRUE) THEN St("error")
    ELSE IF isExpirationExpired(expirationPlusDuration(p.expiration, CHOOSE x \in p.veto : TRUE), t)
         THEN St("passed")
    ELSE [s |-> "veto_timelock", until |-> expirationPlusDuration(p.expiration, CHOOSE x \in p.veto : TRUE)]

LEMMA StatusIs ==
  ASSUME NEW p, NEW t
  PROVE  /\ p.status.s = "open" =>
                /\ isPassed(p, t) => statusOf(p, t) = PassedStatus(p, t)
                /\ ~isPassed(p, t) /\ (isExpirationExpired(p.expiration, t) \/ isRejected(p, t)) =>
                       statusOf(p, t) = St("rejected")
                /\ ~isPassed(p, t) /\ ~isExpirationExpired(p.expiration, t) /\ ~isRejected(p, t) =>
                       statusOf(p, t) = p.status
         /\ p.status.s = "veto_timelock" =>
                statusOf(p, t) = IF isExpirationExpired(p.status.until, t) THEN St("passed") ELSE p.status
         /\ p.status.s \notin {"open", "veto_timelock"} => statusOf(p, t) = p.status
BY DEF statusOf, PassedStatus

LEMMA LockIs ==
  ASSUME NEW p, Terms(p), p.veto # {}, NEW e, e = expirationPlusDuration(p.expiration, CHOOSE x \in p.veto : TRUE)
  PROVE  e \in Expirations
<1>1. PICK d \in Durations : d = (CHOOSE x \in p.veto : TRUE)
  BY DEF Terms
<1>2. p.expiration \in Expirations /\ e = [p.expiration EXCEPT !.at = @ + d.len]
  BY <1>1 DEF Terms, expirationPlusDuration
<1>3. d.len \in Nat /\ p.expiration.at \in Nat
  BY <1>1, <1>2 DEF Durations, Expirations
<1>4. p.expiration.at + d.len \in Nat
  BY <1>3
<1> QED
  BY <1>2, <1>4 DEF Expirations

\* The status that passed proposals have, by its cases.
LEMMA PassedStatusIs ==
  ASSUME NEW p, Terms(p), NEW t
  PROVE  \/ PassedStatus(p, t) = St("passed")
         \/ PassedStatus(p, t) = St("error")
         \/ /\ PassedStatus(p, t).s = "veto_timelock" /\ PassedStatus(p, t).until \in Expirations
            /\ PassedStatus(p, t) = [s |-> "veto_timelock", until |-> PassedStatus(p, t).until]
            /\ ~isExpirationExpired(PassedStatus(p, t).until, t)
<1>1. CASE p.veto = {}
  BY <1>1 DEF PassedStatus
<1>2. CASE p.veto # {}
  <2>1. PICK e : e = expirationPlusDuration(p.expiration, CHOOSE x \in p.veto : TRUE)
    OBVIOUS
  <2>2. e \in Expirations
    BY <1>2, <2>1, LockIs
  <2>3. PassedStatus(p, t) = IF ~UnitsMatch(p.expiration, CHOOSE x \in p.veto : TRUE) THEN St("error")
                             ELSE IF isExpirationExpired(e, t) THEN St("passed")
                             ELSE [s |-> "veto_timelock", until |-> e]
    BY <1>2, <2>1 DEF PassedStatus
  <2> QED
    BY <2>2, <2>3
<1> QED
  BY <1>1, <1>2

\* What may be reported after what was.
Keeps(p, a, b) ==
    /\ MayFollow(a.s, b.s) \/ (Rounded(p) /\ a.s = "rejected")
    /\ a.s = "veto_timelock" /\ b.s = "veto_timelock" => b.until = a.until

LEMMA PassedStatusKeeps ==
  ASSUME NEW p, NEW t, NEW q, NEW u, MayBecome(p, t, q, u)
  PROVE  Keeps(p, PassedStatus(p, t), PassedStatus(q, u))
<1>1. Terms(p) /\ NotAfter(t, u) /\ p.veto = q.veto /\ p.expiration = q.expiration
  BY DEF MayBecome, VotesFit, SameTerms
<1>2. CASE p.veto = {}
  <2>1. PassedStatus(p, t) = St("passed") /\ PassedStatus(q, u) = St("passed")
    BY <1>1, <1>2 DEF PassedStatus
  <2> QED
    BY <2>1 DEF Keeps, MayFollow, St
<1>3. CASE p.veto # {}
  <2>1. PICK e : e = expirationPlusDuration(p.expiration, CHOOSE x \in p.veto : TRUE)
    OBVIOUS
  <2>2. e \in Expirations
    BY <1>1, <1>3, <2>1, LockIs
  <2>3. isExpirationExpired(e, t) => isExpirationExpired(e, u)
    BY <1>1, <2>2, ExpiredStays
  <2>4. PassedStatus(p, t) = IF ~UnitsMatch(p.expiration, CHOOSE x \in p.veto : TRUE) THEN St("error")
                             ELSE IF isExpirationExpired(e, t) THEN St("passed")
                             ELSE [s |-> "veto_timelock", until |-> e]
    BY <1>3, <2>1 DEF PassedStatus
  <2>5. PassedStatus(q, u) = IF ~UnitsMatch(p.expiration, CHOOSE x \in p.veto : TRUE) THEN St("error")
                             ELSE IF isExpirationExpired(e, u) THEN St("passed")
                             ELSE [s |-> "veto_timelock", until |-> e]
    BY <1>1, <1>3, <2>1 DEF PassedStatus
  <2>6. CASE ~UnitsMatch(p.expiration, CHOOSE x \in p.veto : TRUE)
    BY <2>4, <2>5, <2>6 DEF Keeps, MayFollow, St
  <2>7. CASE UnitsMatch(p.expiration, CHOOSE x \in p.veto : TRUE) /\ isExpirationExpired(e, t)
    BY <2>3, <2>4, <2>5, <2>7 DEF Keeps, MayFollow, St
  <2>8. CASE UnitsMatch(p.expiration, CHOOSE x \in p.veto : TRUE) /\ ~isExpirationExpired(e, t)
    BY <2>4, <2>5, <2>8 DEF Keeps, MayFollow, St
  <2> QED
    BY <2>6, <2>7, <2>8
<1> QED
  BY <1>2, <1>3

\* Until another status is stored.
LEMMA StatusKeeps ==
  ASSUME NEW p, NEW t, NEW q, NEW u, MayBecome(p, t, q, u), StatusFits(p), q.status = p.status
  PROVE  Keeps(p, statusOf(p, t), statusOf(q, u))
<1>1. CASE p.status.s = "open"
  <2>1. CASE isPassed(p, t)
    <3>1. isPassed(q, u)
      BY <2>1, PassedStays
    <3>2. statusOf(p, t) = PassedStatus(p, t) /\ statusOf(q, u) = PassedStatus(q, u)
      BY <1>1, <2>1, <3>1, StatusIs
    <3> QED
      BY <3>2, PassedStatusKeeps
  <2>2. CASE ~isPassed(p, t) /\ (isExpirationExpired(p.expiration, t) \/ isRejected(p, t))
    <3>1. statusOf(p, t) = St("rejected")
      BY <1>1, <2>2, StatusIs
    <3>2. CASE Rounded(p)
      BY <3>1, <3>2 DEF Keeps, St
    <3>3. CASE ~Rounded(p)
      <4>1. ~isPassed(q, u) /\ (isExpirationExpired(q.expiration, u) \/ isRejected(q, u))
        BY <2>2, <3>3, RejectedStays
      <4>2. statusOf(q, u) = St("rejected")
        BY <1>1, <4>1, StatusIs
      <4> QED
        BY <3>1, <4>2 DEF Keeps, MayFollow, St
    <3> QED
      BY <3>2, <3>3
  <2>3. CASE ~isPassed(p, t) /\ ~isExpirationExpired(p.expiration, t) /\ ~isRejected(p, t)
    <3>1. statusOf(p, t).s = "open"
      BY <1>1, <2>3, StatusIs
    <3> QED
      BY <3>1 DEF Keeps, MayFollow
  <2> QED
    BY <2>1, <2>2, <2>3
<1>2. CASE p.status.s = "veto_timelock"
  <2>1. p.status.until \in Expirations /\ NotAfter(t, u)
    BY DEF StatusFits, MayBecome
  <2>2. isExpirationExpired(p.status.until, t) => isExpirationExpired(p.status.until, u)
    BY <2>1, ExpiredStays
  <2>3. statusOf(p, t) = IF isExpirationExpired(p.status.until, t) THEN St("passed") ELSE p.status
    BY <1>2, StatusIs
  <2>4. statusOf(q, u) = IF isExpirationExpired(p.status.until, u) THEN St("passed") ELSE p.status
    BY <1>2, StatusIs
  <2> QED
    BY <1>2, <2>2, <2>3, <2>4 DEF Keeps, MayFollow, St
<1>3. CASE p.status.s \notin {"open", "veto_timelock"}
  <2>1. statusOf(p, t) = p.status /\ statusOf(q, u) = p.status
    BY <1>3, StatusIs
  <2> QED
    BY <1>3, <2>1 DEF Keeps, MayFollow
<1> QED
  BY <1>1, <1>2, <1>3
-----------------------------------------------------------------------------
(* What the contract stores.                                               *)

ProposalRecords ==
    [kind : {"single", "multiple"}, threshold : Thresholds("single") \cup Thresholds("multiple"),
     total : Nat, expiration : Expirations, min : SUBSET Expirations, revoting : BOOLEAN,
     veto : SUBSET Durations, hasIndividual : BOOLEAN, individual : Seq(Nat), delegated : Seq(Nat),
     status : [s : StoredStatuses, until : Expirations]]

Fits(p) == p \in ProposalRecords /\ VotesFit(p) /\ StatusFits(p)

\* The threshold without its rounding is the same but for what fails.
LEMMA ExactThreshold ==
  ASSUME NEW th \in Thresholds("single"), "percentage" \in DOMAIN th,
         NEW eh, eh = [th EXCEPT !.percentage.low = FALSE]
  PROVE  /\ eh.type = th.type
         /\ eh.percentage.majority = th.percentage.majority /\ eh.percentage.percent = th.percentage.percent
         /\ th.type = "threshold_quorum" => eh.quorum = th.quorum
         /\ th.type \in {"absolute_percentage", "threshold_quorum"}
<1>1. CASE th \in [type : {"absolute_percentage"}, percentage : Portions(1)]
  <2>1. th.percentage \in [majority : BOOLEAN, percent : 0 .. 100, low : BOOLEAN] /\ th.type = "absolute_percentage"
    BY <1>1 DEF Portions
  <2>2. eh = [th EXCEPT !.percentage = [th.percentage EXCEPT !.low = FALSE]]
    BY <1>1
  <2>3. eh.percentage = [th.percentage EXCEPT !.low = FALSE] /\ eh.type = th.type
    BY <1>1, <2>2
  <2> QED
    BY <2>1, <2>3
<1>2. CASE th \in [type : {"threshold_quorum"}, percentage : Portions(1), quorum : Portions(0)]
  <2>1. th.percentage \in [majority : BOOLEAN, percent : 0 .. 100, low : BOOLEAN] /\ th.type = "threshold_quorum"
    BY <1>2 DEF Portions
  <2>2. eh = [th EXCEPT !.percentage = [th.percentage EXCEPT !.low = FALSE]]
    BY <1>2
  <2>3. eh.percentage = [th.percentage EXCEPT !.low = FALSE] /\ eh.type = th.type /\ eh.quorum = th.quorum
    BY <1>2, <2>2
  <2> QED
    BY <2>1, <2>3
<1>3. CASE th \in [type : {"absolute_count"}, count : Nat]
  BY <1>3
<1> QED
  BY <1>1, <1>2, <1>3 DEF Thresholds

LEMMA ExactIs ==
  ASSUME NEW p, Fits(p), Rounded(p), NEW q, q = Exact(p)
  PROVE  /\ p.kind = "single" /\ q.kind = p.kind /\ q.total = p.total /\ q.expiration = p.expiration
         /\ q.min = p.min /\ q.revoting = p.revoting /\ q.veto = p.veto /\ q.hasIndividual = p.hasIndividual
         /\ q.individual = p.individual /\ q.delegated = p.delegated /\ q.status = p.status
         /\ q.threshold = [p.threshold EXCEPT !.percentage.low = FALSE]
<1>1. p \in ProposalRecords /\ Terms(p)
  BY DEF Fits, VotesFit
<1>2. q = [p EXCEPT !.threshold.percentage.low = FALSE]
  BY DEF Exact, Rounded
<1>3. PICK eh : eh = [p.threshold EXCEPT !.percentage.low = FALSE]
  OBVIOUS
<1>4. q = [p EXCEPT !.threshold = eh]
  BY <1>2, <1>3
<1>5. p.kind = "single"
  <2>1. p.kind # "single" => p.threshold \in [type : {"quorum"}, quorum : Portions(0)]
    BY <1>1 DEF Terms, Thresholds
  <2>2. p.kind # "single" => "percentage" \notin DOMAIN p.threshold
    BY <2>1
  <2> QED
    BY <2>2 DEF Rounded
<1> QED
  BY <1>1, <1>3, <1>4, <1>5 DEF ProposalRecords

LEMMA ExactPasses ==
  ASSUME NEW p, Fits(p), NEW t
  PROVE  isPassed(Exact(p), t) <=> isPassed(p, t)
<1>1. CASE ~Rounded(p)
  BY <1>1 DEF Exact, Rounded
<1>2. CASE Rounded(p)
  <2>1. PICK q : q = Exact(p)
    OBVIOUS
  <2>2. /\ p.kind = "single" /\ q.kind = p.kind /\ q.total = p.total /\ q.expiration = p.expiration
        /\ q.min = p.min /\ q.revoting = p.revoting /\ q.hasIndividual = p.hasIndividual
        /\ q.individual = p.individual /\ q.delegated = p.delegated
        /\ q.threshold = [p.threshold EXCEPT !.percentage.low = FALSE]
    BY <1>2, <2>1, ExactIs
  <2>3. PICK v : v = votesToConsider(p, t)
    OBVIOUS
  <2>4. PICK x \in BOOLEAN : x = isExpirationExpired(p.expiration, t)
    BY ExpiredIs
  <2>5. /\ votesToConsider(q, t) = v /\ (Revotable(q, t) <=> Revotable(p, t)) /\ (TooEarly(q, t) <=> TooEarly(p, t))
        /\ isExpirationExpired(q.expiration, t) = x
    BY <2>2, <2>3, <2>4 DEF votesToConsider, Revotable, TooEarly
  <2>6. p.threshold \in Thresholds("single") /\ "percentage" \in DOMAIN p.threshold
    BY <1>2, <2>2 DEF Fits, VotesFit, Terms, Rounded
  <2>7. /\ q.threshold.type = p.threshold.type
        /\ q.threshold.percentage.majority = p.threshold.percentage.majority
        /\ q.threshold.percentage.percent = p.threshold.percentage.percent
        /\ p.threshold.type = "threshold_quorum" => q.threshold.quorum = p.threshold.quorum
        /\ p.threshold.type \in {"absolute_percentage", "threshold_quorum"}
    BY <2>2, <2>6, ExactThreshold
  <2>8. \A y, o : doesVoteCountPass(y, o, q.threshold.percentage) <=> doesVoteCountPass(y, o, p.threshold.percentage)
    BY <2>7 DEF doesVoteCountPass, compareVoteCount
  <2>9. SinglePasses(q, v, x) <=> SinglePasses(p, v, x)
    <3>1. CASE p.threshold.type = "absolute_percentage"
      BY <2>2, <2>7, <2>8, <3>1, SinglePassesIs
    <3>2. CASE p.threshold.type = "threshold_quorum"
      <4>1. PICK o : o = (IF x THEN totalVotes(v) ELSE p.total) - v[3]
        OBVIOUS
      <4>2. SinglePasses(p, v, x) <=>
                /\ doesVoteCountPass(totalVotes(v), p.total, p.threshold.quorum)
                /\ doesVoteCountPass(v[1], o, p.threshold.percentage)
        BY <3>2, <4>1, SinglePassesIs
      <4>3. SinglePasses(q, v, x) <=>
                /\ doesVoteCountPass(totalVotes(v), p.total, p.threshold.quorum)
                /\ doesVoteCountPass(v[1], o, q.threshold.percentage)
        BY <2>2, <2>7, <3>2, <4>1, SinglePassesIs
      <4> QED
        BY <2>8, <4>2, <4>3
    <3> QED
      BY <2>7, <3>1, <3>2
  <2>10. Passes(q, v, x) <=> Passes(p, v, x)
    BY <2>2, <2>9 DEF Passes
  <2>11. isPassed(p, t) <=> ~Revotable(p, t) /\ ~TooEarly(p, t) /\ Passes(p, v, x)
    BY <2>3, <2>4, PassedIs
  <2>12. isPassed(q, t) <=> ~Revotable(q, t) /\ ~TooEarly(q, t) /\ Passes(q, v, x)
    BY <2>5, PassedIs
  <2> QED
    BY <2>1, <2>5, <2>10, <2>11, <2>12
<1> QED
  BY <1>1, <1>2

\* Only a rejection may come with the rounding.
LEMMA ExactStatus ==
  ASSUME NEW p, Fits(p), NEW t
  PROVE  \/ statusOf(Exact(p), t) = statusOf(p, t)
         \/ /\ Rounded(p) /\ p.status = St("open")
            /\ statusOf(p, t) \in {St("open"), St("rejected")}
            /\ statusOf(Exact(p), t) \in {St("open"), St("rejected")}
<1>1. CASE ~Rounded(p)
  BY <1>1 DEF Exact, Rounded
<1>2. CASE Rounded(p)
  <2>1. PICK q : q = Exact(p)
    OBVIOUS
  <2>2. q.expiration = p.expiration /\ q.veto = p.veto /\ q.status = p.status
    BY <1>2, <2>1, ExactIs
  <2>3. isPassed(q, t) <=> isPassed(p, t)
    BY <2>1, ExactPasses
  <2>4. CASE p.status.s # "open"
    BY <2>1, <2>2, <2>4, StatusIs
  <2>5. CASE p.status.s = "open" /\ isPassed(p, t)
    <3>1. PassedStatus(q, t) = PassedStatus(p, t)
      BY <2>2 DEF PassedStatus
    <3> QED
      BY <2>1, <2>2, <2>3, <2>5, <3>1, StatusIs
  <2>6. CASE p.status.s = "open" /\ ~isPassed(p, t)
    <3>1. p.status = St("open")
      BY <2>6 DEF Fits, StatusFits
    <3>2. statusOf(p, t) \in {St("open"), St("rejected")}
      BY <2>6, <3>1, StatusIs
    <3>3. statusOf(q, t) \in {St("open"), St("rejected")}
      BY <2>2, <2>3, <2>6, <3>1, StatusIs
    <3> QED
      BY <1>2, <2>1, <3>1, <3>2, <3>3
  <2> QED
    BY <2>4, <2>5, <2>6
<1> QED
  BY <1>1, <1>2

\* What is reported for a proposal is reported again when it was stored.
LEMMA StatusAgain ==
  ASSUME NEW p, Fits(p), NEW t, NEW s, s = statusOf(Exact(p), t), s.s # "error", s # p.status,
         NEW q, q = [p EXCEPT !.status = s]
  PROVE  statusOf(q, t) = s /\ StatusFits(q)
<1>1. p \in ProposalRecords /\ Terms(p)
  BY DEF Fits, VotesFit
<1>2. q.status = s
  BY <1>1 DEF ProposalRecords
<1>3. PICK r : r = Exact(p)
  OBVIOUS
<1>4. r.status = p.status /\ Terms(r)
  <2>1. CASE ~Rounded(p)
    BY <1>1, <1>3, <2>1 DEF Exact, Rounded
  <2>2. CASE Rounded(p)
    <3>1. /\ p.kind = "single" /\ r.kind = p.kind /\ r.total = p.total /\ r.expiration = p.expiration
          /\ r.min = p.min /\ r.revoting = p.revoting /\ r.veto = p.veto /\ r.hasIndividual = p.hasIndividual
          /\ r.individual = p.individual /\ r.status = p.status
          /\ r.threshold = [p.threshold EXCEPT !.percentage.low = FALSE]
      BY <1>3, <2>2, ExactIs
    <3>2. p.threshold \in Thresholds("single") /\ "percentage" \in DOMAIN p.threshold
      BY <1>1, <2>2, <3>1 DEF Terms, Rounded
    <3>3. r.threshold \in Thresholds("single")
      <4>1. CASE p.threshold \in [type : {"absolute_percentage"}, percentage : Portions(1)]
        <5>1. p.threshold.percentage \in Portions(1)
          BY <4>1
        <5>2. [p.threshold.percentage EXCEPT !.low = FALSE] \in Portions(1)
          BY <5>1 DEF Portions
        <5>3. r.threshold = [p.threshold EXCEPT !.percentage = [p.threshold.percentage EXCEPT !.low = FALSE]]
          BY <3>1, <4>1
        <5>4. r.threshold \in [type : {"absolute_percentage"}, percentage : Portions(1)]
          BY <4>1, <5>2, <5>3
        <5> QED
          BY <5>4 DEF Thresholds
      <4>2. CASE p.threshold \in [type : {"threshold_quorum"}, percentage : Portions(1), quorum : Portions(0)]
        <5>1. p.threshold.percentage \in Portions(1)
          BY <4>2
        <5>2. [p.threshold.percentage EXCEPT !.low = FALSE] \in Portions(1)
          BY <5>1 DEF Portions
        <5>3. r.threshold = [p.threshold EXCEPT !.percentage = [p.threshold.percentage EXCEPT !.low = FALSE]]
          BY <3>1, <4>2
        <5>4. r.threshold \in [type : {"threshold_quorum"}, percentage : Portions(1), quorum : Portions(0)]
          BY <4>2, <5>2, <5>3
        <5> QED
          BY <5>4 DEF Thresholds
      <4>3. CASE p.threshold \in [type : {"absolute_count"}, count : Nat]
        BY <3>2, <4>3
      <4> QED
        BY <3>2, <4>1, <4>2, <4>3 DEF Thresholds
    <3> QED
      BY <1>1, <3>1, <3>3 DEF Terms, OptionsOf
  <2> QED
    BY <2>1, <2>2
<1>5. Never \in Expirations
  BY DEF Never, Expirations
<1>6. CASE p.status.s = "open"
  <2>1. p.status = St("open")
    BY <1>6 DEF Fits, StatusFits
  <2>2. CASE isPassed(r, t)
    <3>1. s = PassedStatus(r, t)
      BY <1>3, <1>4, <1>6, <2>2, StatusIs
    <3>2. \/ s = St("passed")
          \/ /\ s.s = "veto_timelock" /\ s.until \in Expirations /\ s = [s |-> "veto_timelock", until |-> s.until]
             /\ ~isExpirationExpired(s.until, t)
      <4>1. s # St("error")
        BY DEF St
      <4> QED
        BY <1>4, <3>1, <4>1, PassedStatusIs
    <3>3. CASE s = St("passed")
      <4>1. statusOf(q, t) = s
        <5>1. q.status.s = "passed"
          BY <1>2, <3>3 DEF St
        <5> QED
          BY <1>2, <5>1, StatusIs
      <4>2. StatusFits(q)
        BY <1>2, <1>5, <3>3 DEF StatusFits, St, StoredStatuses
      <4> QED
        BY <4>1, <4>2
    <3>4. CASE /\ s.s = "veto_timelock" /\ s.until \in Expirations /\ s = [s |-> "veto_timelock", until |-> s.until]
               /\ ~isExpirationExpired(s.until, t)
      <4>1. statusOf(q, t) = s
        BY <1>2, <3>4, StatusIs
      <4>2. s \in [s : StoredStatuses, until : Expirations]
        BY <3>4 DEF StoredStatuses
      <4>3. StatusFits(q)
        BY <1>2, <3>4, <4>2 DEF StatusFits
      <4> QED
        BY <4>1, <4>3
    <3> QED
      BY <3>2, <3>3, <3>4
  <2>3. CASE ~isPassed(r, t)
    <3>1. s = St("rejected")
      BY <1>3, <1>4, <1>6, <2>3, StatusIs
    <3>2. statusOf(q, t) = s
      <4>1. q.status.s = "rejected"
        BY <1>2, <3>1 DEF St
      <4> QED
        BY <1>2, <4>1, StatusIs
    <3>3. StatusFits(q)
      BY <1>2, <1>5, <3>1 DEF StatusFits, St, StoredStatuses
    <3> QED
      BY <3>2, <3>3
  <2> QED
    BY <2>2, <2>3
<1>7. CASE p.status.s = "veto_timelock"
  <2>1. s = St("passed")
    BY <1>3, <1>4, <1>7, StatusIs
  <2>2. statusOf(q, t) = s
    <3>1. q.status.s = "passed"
      BY <1>2, <2>1 DEF St
    <3> QED
      BY <1>2, <3>1, StatusIs
  <2>3. StatusFits(q)
    BY <1>2, <1>5, <2>1 DEF StatusFits, St, StoredStatuses
  <2> QED
    BY <2>2, <2>3
<1>8. CASE p.status.s \notin {"open", "veto_timelock"}
  BY <1>3, <1>4, <1>8, StatusIs
<1> QED
  BY <1>6, <1>7, <1>8
-----------------------------------------------------------------------------
(* Steps of Proposals.                                                     *)

\* The statuses that were written: the present one is among them.
LogFits ==
    /\ log \in Seq([s : StoredStatuses, height : Nat])
    /\ \A i \in DOMAIN log : 1 <= log[i].height /\ log[i].height <= now.height
    /\ \E i \in DOMAIN log : log[i].s = prop.status.s

ProposalsInv == Fits(prop) /\ now \in Times /\ now.height >= 1 /\ LogFits

LEMMA NoChange ==
  ASSUME NEW p, VotesFit(p), NEW t, NEW u, NotAfter(t, u)
  PROVE  MayBecome(p, t, p, u)
BY DEF MayBecome, SameTerms

LEMMA AtOnce ==
  ASSUME NEW t \in Times
  PROVE  NotAfter(t, t)
BY DEF NotAfter, Times

\* Votes that are written.
WithVotes(p, v, d) == [p EXCEPT !.individual = v, !.delegated = d]
MayWrite(p, v, d) ==
    /\ v \in Votes(OptionsOf(p)) /\ d \in Votes(OptionsOf(p))
    /\ totalVotes(v) + totalVotes(d) <= p.total /\ (~p.hasIndividual => totalVotes(d) = 0)

LEMMA VotesWritten ==
  ASSUME NEW p, Fits(p), NEW v, NEW d, MayWrite(p, v, d), NEW q, q = WithVotes(p, v, d)
  PROVE  /\ Fits(q) /\ SameTerms(p, q) /\ q.status = p.status
         /\ q.individual = v /\ q.delegated = d
<1>1. p \in ProposalRecords /\ VotesFit(p) /\ StatusFits(p) /\ Terms(p)
  BY DEF Fits, VotesFit
<1> USE DEF MayWrite
<1>2. PICK n \in Nat : n = OptionsOf(p)
  BY <1>1 DEF Terms
<1>3. Len(v) = n /\ v \in Seq(Nat) /\ d \in Seq(Nat)
  <2>1. v \in Votes(n) /\ d \in Votes(n)
    BY <1>2
  <2>2. Len(v) = n
    BY <2>1, Choosing
  <2>3. v \in [1 .. n -> Nat] /\ d \in [1 .. n -> Nat]
    BY <2>1 DEF Votes
  <2>4. v \in Seq(Nat) /\ d \in Seq(Nat)
    BY <2>3
  <2> QED
    BY <2>2, <2>4
<1>4. /\ q.kind = p.kind /\ q.threshold = p.threshold /\ q.total = p.total /\ q.expiration = p.expiration
      /\ q.min = p.min /\ q.revoting = p.revoting /\ q.veto = p.veto /\ q.hasIndividual = p.hasIndividual
      /\ q.individual = v /\ q.delegated = d /\ q.status = p.status
  BY <1>1 DEF ProposalRecords, WithVotes
<1>5. q \in ProposalRecords
  BY <1>1, <1>3 DEF ProposalRecords, WithVotes
<1>6. OptionsOf(q) = OptionsOf(p)
  BY <1>2, <1>3, <1>4 DEF OptionsOf
<1>7. SameTerms(p, q)
  BY <1>4, <1>6 DEF SameTerms
<1>8. VotesFit(q)
  <2>1. Terms(q)
    BY <1>1, <1>4, <1>6 DEF Terms
  <2> QED
    BY <1>4, <1>6, <2>1 DEF VotesFit
<1>9. StatusFits(q)
  BY <1>1, <1>4 DEF StatusFits
<1> QED
  BY <1>4, <1>5, <1>7, <1>8, <1>9 DEF Fits

\* A status that is written.
LEMMA StatusWritten ==
  ASSUME NEW p, Fits(p), NEW s, NEW q, q = [p EXCEPT !.status = s]
  PROVE  /\ VotesFit(q) /\ SameTerms(p, q) /\ q.status = s
         /\ q.individual = p.individual /\ q.delegated = p.delegated
         /\ StatusFits(q) => Fits(q)
<1>1. p \in ProposalRecords /\ VotesFit(p) /\ Terms(p)
  BY DEF Fits, VotesFit
<1>2. /\ q.kind = p.kind /\ q.threshold = p.threshold /\ q.total = p.total /\ q.expiration = p.expiration
      /\ q.min = p.min /\ q.revoting = p.revoting /\ q.veto = p.veto /\ q.hasIndividual = p.hasIndividual
      /\ q.individual = p.individual /\ q.delegated = p.delegated /\ q.status = s
  BY <1>1 DEF ProposalRecords
<1>3. OptionsOf(q) = OptionsOf(p)
  BY <1>2 DEF OptionsOf
<1>4. SameTerms(p, q)
  BY <1>2, <1>3 DEF SameTerms
<1>5. Terms(q)
  BY <1>1, <1>2, <1>3 DEF Terms
<1>6. VotesFit(q)
  BY <1>1, <1>2, <1>3, <1>5 DEF VotesFit
<1>7. StatusFits(q) => q \in ProposalRecords
  BY <1>1, <1>2 DEF ProposalRecords, StatusFits
<1> QED
  BY <1>2, <1>4, <1>6, <1>7 DEF Fits

\* What is written to the log.
LEMMA Logged ==
  ASSUME ProposalsInv, NEW s \in StoredStatuses, now' = now, prop'.status.s = s,
         log' = Append(log, [s |-> s, height |-> now.height])
  PROVE  LogFits'
<1>1. /\ log \in Seq([s : StoredStatuses, height : Nat]) /\ now.height \in Nat /\ 1 <= now.height
      /\ \A i \in DOMAIN log : 1 <= log[i].height /\ log[i].height <= now.height
  BY DEF ProposalsInv, LogFits, Times
<1>2. [s |-> s, height |-> now.height] \in [s : StoredStatuses, height : Nat]
  BY <1>1
<1>3. PICK e \in [s : StoredStatuses, height : Nat] : e = [s |-> s, height |-> now.height]
  BY <1>2
<1>4. /\ log' \in Seq([s : StoredStatuses, height : Nat]) /\ DOMAIN log' = 1 .. Len(log) + 1
      /\ log'[Len(log) + 1] = e /\ \A i \in 1 .. Len(log) : log'[i] = log[i]
  BY <1>1, <1>3
<1>5. DOMAIN log = 1 .. Len(log) /\ Len(log) \in Nat
  BY <1>1
<1>6. \A i \in DOMAIN log' : 1 <= log'[i].height /\ log'[i].height <= now.height
  <2> SUFFICES ASSUME NEW i \in DOMAIN log' PROVE 1 <= log'[i].height /\ log'[i].height <= now.height
    OBVIOUS
  <2>1. CASE i = Len(log) + 1
    BY <1>1, <1>3, <1>4, <2>1
  <2>2. CASE i # Len(log) + 1
    <3>1. i \in DOMAIN log /\ log'[i] = log[i]
      BY <1>4, <1>5, <2>2
    <3> QED
      BY <1>1, <3>1
  <2> QED
    BY <2>1, <2>2
<1>7. Len(log) + 1 \in DOMAIN log' /\ log'[Len(log) + 1].s = prop'.status.s
  BY <1>3, <1>4, <1>5
<1> QED
  BY <1>4, <1>6, <1>7 DEF LogFits

LEMMA StoreKeeps ==
  ASSUME ProposalsInv, NEW p, Fits(p), MayBecome(prop, now, p, now), p.status = prop.status, Store(p)
  PROVE  /\ ProposalsInv'
         /\ Keeps(prop, statusOf(prop, now), statusOf(prop, now)')
<1>1. PICK s : /\ s \in {p.status, statusOf(Exact(p), now)} /\ s.s # "error"
               /\ prop' = [p EXCEPT !.status = s]
               /\ log' = IF s = p.status THEN log ELSE Append(log, [s |-> s.s, height |-> now.height])
               /\ now' = now
  BY DEF Store
<1>2. PICK q : q = [p EXCEPT !.status = s]
  OBVIOUS
<1>3. prop' = q /\ now' = now /\ statusOf(prop, now)' = statusOf(q, now)
  BY <1>1, <1>2
<1>4. Fits(prop) /\ StatusFits(prop) /\ now \in Times /\ now.height >= 1
  BY DEF ProposalsInv, Fits
<1>5. Keeps(prop, statusOf(prop, now), statusOf(p, now))
  BY <1>4, StatusKeeps
<1>6. CASE s = p.status
  <2>1. q = p
    BY <1>2, <1>6 DEF Fits, ProposalRecords
  <2>2. LogFits'
    BY <1>1, <1>3, <1>6, <2>1 DEF ProposalsInv, LogFits
  <2>3. Fits(prop)' /\ (now \in Times /\ now.height >= 1)'
    BY <1>3, <1>4, <2>1
  <2> QED
    BY <1>3, <1>5, <2>1, <2>2, <2>3 DEF ProposalsInv
<1>7. CASE s # p.status
  <2>1. s = statusOf(Exact(p), now)
    BY <1>1, <1>7
  <2>2. statusOf(q, now) = s /\ StatusFits(q)
    BY <1>1, <1>2, <1>7, <2>1, StatusAgain
  <2>3. Fits(q) /\ q.status = s
    BY <1>2, <2>2, StatusWritten
  <2>4. s.s \in StoredStatuses
    BY <2>2, <2>3 DEF StatusFits
  <2>5. LogFits'
    <3>1. log' = Append(log, [s |-> s.s, height |-> now.height]) /\ prop'.status.s = s.s
      BY <1>1, <1>3, <1>7, <2>3
    <3> QED
      BY <1>3, <2>4, <3>1, Logged
  <2>6. Fits(prop)' /\ (now \in Times /\ now.height >= 1)'
    BY <1>3, <1>4, <2>3
  <2>7. Keeps(prop, statusOf(prop, now), s)
    <3>1. CASE s = statusOf(p, now)
      BY <1>5, <3>1
    <3>2. CASE s # statusOf(p, now)
      <4>1. Rounded(p) /\ statusOf(p, now) \in {St("open"), St("rejected")} /\ s \in {St("open"), St("rejected")}
            /\ p.status = St("open")
        BY <2>1, <3>2, ExactStatus
      <4>2. s.s = "rejected" /\ statusOf(p, now).s \in {"open", "rejected"}
        BY <1>7, <4>1 DEF St
      <4>3. prop.status.s = "open" /\ prop.status = St("open")
        BY <4>1 DEF St
      <4>4. PICK a : a = statusOf(prop, now)
        OBVIOUS
      <4>5. a.s \in {"open", "rejected", "passed", "veto_timelock", "error"}
        <5>1. Terms(prop)
          BY <1>4 DEF Fits, VotesFit
        <5>2. isPassed(prop, now) => a = PassedStatus(prop, now)
          BY <4>3, <4>4, StatusIs
        <5>3. ~isPassed(prop, now) => a \in {St("open"), St("rejected")}
          BY <4>3, <4>4, StatusIs
        <5>4. CASE isPassed(prop, now)
          BY <5>1, <5>2, <5>4, PassedStatusIs DEF St
        <5>5. CASE ~isPassed(prop, now)
          BY <5>3, <5>5 DEF St
        <5> QED
          BY <5>4, <5>5
      <4>6. Keeps(prop, a, statusOf(p, now))
        BY <1>5, <4>4
      <4>7. a.s \in {"open", "rejected"}
        BY <4>2, <4>5, <4>6 DEF Keeps, MayFollow
      <4>8. Keeps(prop, a, s)
        BY <4>2, <4>7 DEF Keeps, MayFollow
      <4> QED
        BY <4>4, <4>8
    <3> QED
      BY <3>1, <3>2
  <2> QED
    BY <1>3, <2>2, <2>5, <2>6, <2>7 DEF ProposalsInv
<1> QED
  BY <1>6, <1>7
\* The proposal of the invariant, for a step that casts votes.
LEMMA PropIs ==
  ASSUME ProposalsInv
  PROVE  /\ prop \in ProposalRecords /\ Fits(prop) /\ VotesFit(prop) /\ OptionsOf(prop) \in Nat
         /\ prop.individual \in Votes(OptionsOf(prop)) /\ prop.delegated \in Votes(OptionsOf(prop))
         /\ DOMAIN prop.individual = 1 .. OptionsOf(prop)
         /\ totalVotes(prop.individual) \in Nat /\ totalVotes(prop.delegated) \in Nat /\ prop.total \in Nat
         /\ totalVotes(prop.individual) + totalVotes(prop.delegated) <= prop.total
         /\ ~prop.hasIndividual => totalVotes(prop.delegated) = 0
         /\ NotAfter(now, now)
<1>1. /\ prop \in ProposalRecords /\ Fits(prop) /\ VotesFit(prop) /\ OptionsOf(prop) \in Nat /\ prop.total \in Nat
      /\ prop.individual \in Votes(OptionsOf(prop)) /\ prop.delegated \in Votes(OptionsOf(prop))
      /\ totalVotes(prop.individual) + totalVotes(prop.delegated) <= prop.total
      /\ ~prop.hasIndividual => totalVotes(prop.delegated) = 0
      /\ now \in Times
  BY DEF ProposalsInv, Fits, VotesFit, Terms
<1>2. NotAfter(now, now)
  BY <1>1, AtOnce
<1> QED
  BY <1>1, <1>2, Counted

\* Votes v and d are cast, and what that makes of the proposal is stored.
LEMMA Casting ==
  ASSUME ProposalsInv, ~isExpirationExpired(prop.expiration, now),
         NEW v \in Votes(OptionsOf(prop)), NEW d \in Votes(OptionsOf(prop)),
         totalVotes(v) + totalVotes(d) <= prop.total, ~prop.hasIndividual => totalVotes(d) = 0,
         prop.revoting \/ Later(OptionsOf(prop), prop.individual, v),
         NEW q, q = [prop EXCEPT !.individual = v, !.delegated = d], Store(q)
  PROVE  ProposalsInv' /\ Keeps(prop, statusOf(prop, now), statusOf(prop, now)')
<1>1. Fits(prop) /\ VotesFit(prop) /\ NotAfter(now, now)
  BY PropIs
<1>2. Fits(q) /\ VotesFit(q) /\ SameTerms(prop, q) /\ q.status = prop.status /\ q.individual = v
  <2>1. Fits(q) /\ SameTerms(prop, q) /\ q.status = prop.status /\ q.individual = v
    <3>1. MayWrite(prop, v, d)
      BY DEF MayWrite
    <3>2. q = WithVotes(prop, v, d)
      BY DEF WithVotes
    <3> QED
      BY <1>1, <3>1, <3>2, VotesWritten
  <2> QED
    BY <2>1 DEF Fits
<1>3. MayBecome(prop, now, q, now)
  BY <1>1, <1>2 DEF MayBecome
<1> QED
  BY <1>2, <1>3, StoreKeeps

LEMMA NotBefore ==
  ASSUME NEW n \in Nat, NEW v \in Votes(n)
  PROVE  Later(n, v, v)
<1>1. ASSUME NEW i \in 1 .. n PROVE v[i] <= v[i]
  <2>1. v[i] \in Nat
    BY DEF Votes
  <2> QED
    BY <2>1
<1> QED
  BY <1>1 DEF Later

LEMMA CastVoteKeeps ==
  ASSUME ProposalsInv, NEW i \in DOMAIN prop.individual, CastVote(i)
  PROVE  ProposalsInv' /\ Keeps(prop, statusOf(prop, now), statusOf(prop, now)')
<1>1. PICK n \in Nat : n = OptionsOf(prop)
  BY PropIs
<1>2. PICK v : v = [prop.individual EXCEPT ![i] = @ + 1]
  OBVIOUS
<1>3. /\ i \in 1 .. n /\ prop.individual \in Votes(n) /\ prop.delegated \in Votes(n)
      /\ totalVotes(prop.individual) \in Nat /\ totalVotes(prop.delegated) \in Nat /\ prop.total \in Nat
      /\ ~prop.hasIndividual => totalVotes(prop.delegated) = 0
  BY <1>1, PropIs
<1>4. prop.individual[i] + 1 \in Nat
  BY <1>3 DEF Votes
<1>5. v \in Votes(n) /\ totalVotes(v) = totalVotes(prop.individual) + 1 /\ Later(n, prop.individual, v)
  <2>1. MayAdd(n, prop.individual, i, 1)
    BY <1>3, <1>4 DEF MayAdd
  <2>2. v = Adding(prop.individual, i, 1)
    BY <1>2 DEF Adding
  <2> QED
    BY <2>1, <2>2, OneMore
<1>6. totalVotes(v) + totalVotes(prop.delegated) <= prop.total
  BY <1>3, <1>5 DEF CastVote, Uncast
<1>7. PICK q : q = [prop EXCEPT !.individual[i] = @ + 1]
  OBVIOUS
<1>8. q = [prop EXCEPT !.individual = v, !.delegated = prop.delegated]
  BY <1>2, <1>7, PropIs DEF ProposalRecords
<1>9. Store(q) /\ ~isExpirationExpired(prop.expiration, now)
  BY <1>7 DEF CastVote
<1> QED
  BY <1>1, <1>3, <1>5, <1>6, <1>8, <1>9, Casting

LEMMA DelegateVotesKeeps ==
  ASSUME ProposalsInv, NEW i \in DOMAIN prop.individual, DelegateVotes(i)
  PROVE  ProposalsInv' /\ Keeps(prop, statusOf(prop, now), statusOf(prop, now)')
<1>1. PICK n \in Nat : n = OptionsOf(prop)
  BY PropIs
<1>2. PICK d : d = [prop.delegated EXCEPT ![i] = @ + 1]
  OBVIOUS
<1>3. /\ i \in 1 .. n /\ prop.individual \in Votes(n) /\ prop.delegated \in Votes(n)
      /\ totalVotes(prop.individual) \in Nat /\ totalVotes(prop.delegated) \in Nat /\ prop.total \in Nat
  BY <1>1, PropIs
<1>4. prop.delegated[i] + 1 \in Nat
  BY <1>3 DEF Votes
<1>5. d \in Votes(n) /\ totalVotes(d) = totalVotes(prop.delegated) + 1
  <2>1. MayAdd(n, prop.delegated, i, 1)
    BY <1>3, <1>4 DEF MayAdd
  <2>2. d = Adding(prop.delegated, i, 1)
    BY <1>2 DEF Adding
  <2> QED
    BY <2>1, <2>2, OneMore
<1>6. totalVotes(prop.individual) + totalVotes(d) <= prop.total
  BY <1>3, <1>5 DEF DelegateVotes, Uncast
<1>7. PICK q : q = [prop EXCEPT !.delegated[i] = @ + 1]
  OBVIOUS
<1>8. q = [prop EXCEPT !.individual = prop.individual, !.delegated = d]
  BY <1>2, <1>7, PropIs DEF ProposalRecords
<1>9. Store(q) /\ ~isExpirationExpired(prop.expiration, now) /\ prop.hasIndividual
  BY <1>7 DEF DelegateVotes
<1>10. Later(n, prop.individual, prop.individual)
  BY <1>3, NotBefore
<1> QED
  BY <1>1, <1>3, <1>5, <1>6, <1>8, <1>9, <1>10, Casting

LEMMA OverrideKeeps ==
  ASSUME ProposalsInv, NEW i \in DOMAIN prop.individual, NEW j \in DOMAIN prop.individual, OverrideDelegate(i, j)
  PROVE  ProposalsInv' /\ Keeps(prop, statusOf(prop, now), statusOf(prop, now)')
<1>1. PICK n \in Nat : n = OptionsOf(prop)
  BY PropIs
<1>2. PICK v, d : v = [prop.individual EXCEPT ![j] = @ + 1] /\ d = [prop.delegated EXCEPT ![i] = @ + -1]
  OBVIOUS
<1>3. /\ i \in 1 .. n /\ j \in 1 .. n /\ prop.individual \in Votes(n) /\ prop.delegated \in Votes(n)
      /\ totalVotes(prop.individual) \in Nat /\ totalVotes(prop.delegated) \in Nat /\ prop.total \in Nat
      /\ totalVotes(prop.individual) + totalVotes(prop.delegated) <= prop.total
      /\ ~prop.hasIndividual => totalVotes(prop.delegated) = 0
  BY <1>1, PropIs
<1>4. prop.individual[j] \in Nat /\ prop.individual[j] + 1 \in Nat /\ prop.delegated[i] \in Nat
  <2>1. \A w \in Votes(n) : \A x \in 1 .. n : w[x] \in Nat
    BY DEF Votes
  <2>2. prop.individual[j] \in Nat /\ prop.delegated[i] \in Nat
    BY <1>3, <2>1
  <2> QED
    BY <2>2
<1>5. prop.delegated[i] > 0 /\ prop.delegated[i] + -1 \in Nat
  BY <1>4 DEF OverrideDelegate
<1>6. v \in Votes(n) /\ totalVotes(v) = totalVotes(prop.individual) + 1 /\ Later(n, prop.individual, v)
  <2>1. MayAdd(n, prop.individual, j, 1)
    BY <1>3, <1>4 DEF MayAdd
  <2>2. v = Adding(prop.individual, j, 1)
    BY <1>2 DEF Adding
  <2> QED
    BY <2>1, <2>2, OneMore
<1>7. d \in Votes(n) /\ totalVotes(d) = totalVotes(prop.delegated) + -1 /\ totalVotes(d) \in Nat
  <2>1. d \in Votes(n) /\ totalVotes(d) = totalVotes(prop.delegated) + -1
    <3>1. MayAdd(n, prop.delegated, i, -1)
      BY <1>3, <1>5 DEF MayAdd
    <3>2. d = Adding(prop.delegated, i, -1)
      BY <1>2 DEF Adding
    <3> QED
      BY <3>1, <3>2, OneMore
  <2> QED
    BY <2>1, Counted
<1>8. totalVotes(v) + totalVotes(d) <= prop.total
  BY <1>3, <1>6, <1>7
<1>9. prop.hasIndividual
  BY <1>3, <1>7
<1>10. PICK q : q = [prop EXCEPT !.delegated[i] = @ - 1, !.individual[j] = @ + 1]
  OBVIOUS
<1>11. q = [prop EXCEPT !.individual = v, !.delegated = d]
  <2>1. prop.delegated[i] - 1 = prop.delegated[i] + -1
    BY <1>4
  <2>2. d = [prop.delegated EXCEPT ![i] = @ - 1]
    BY <1>2, <2>1
  <2> QED
    BY <1>2, <1>10, <2>2, PropIs DEF ProposalRecords
<1>12. Store(q) /\ ~isExpirationExpired(prop.expiration, now)
  BY <1>10 DEF OverrideDelegate
<1> QED
  BY <1>1, <1>6, <1>7, <1>8, <1>9, <1>11, <1>12, Casting

LEMMA RevoteKeeps ==
  ASSUME ProposalsInv, NEW i \in DOMAIN prop.individual, NEW j \in DOMAIN prop.individual, Revote(i, j)
  PROVE  ProposalsInv' /\ Keeps(prop, statusOf(prop, now), statusOf(prop, now)')
<1>1. PICK n \in Nat : n = OptionsOf(prop)
  BY PropIs
<1>2. PICK u : u = [prop.individual EXCEPT ![i] = @ + -1]
  OBVIOUS
<1>3. PICK v : v = [u EXCEPT ![j] = @ + 1]
  OBVIOUS
<1>4. /\ i \in 1 .. n /\ j \in 1 .. n /\ prop.individual \in Votes(n) /\ prop.delegated \in Votes(n)
      /\ totalVotes(prop.individual) \in Nat /\ totalVotes(prop.delegated) \in Nat /\ prop.total \in Nat
      /\ totalVotes(prop.individual) + totalVotes(prop.delegated) <= prop.total
      /\ ~prop.hasIndividual => totalVotes(prop.delegated) = 0
  BY <1>1, PropIs
<1>5. prop.individual[i] \in Nat
  BY <1>4 DEF Votes
<1>6. prop.individual[i] > 0 /\ prop.individual[i] + -1 \in Nat
  BY <1>5 DEF Revote
<1>7. u \in Votes(n) /\ totalVotes(u) = totalVotes(prop.individual) + -1
  <2>1. MayAdd(n, prop.individual, i, -1)
    BY <1>4, <1>6 DEF MayAdd
  <2>2. u = Adding(prop.individual, i, -1)
    BY <1>2 DEF Adding
  <2> QED
    BY <2>1, <2>2, OneMore
<1>8. MayAdd(n, u, j, 1)
  <2>1. u[j] \in Nat
    BY <1>4, <1>7 DEF Votes
  <2> QED
    BY <1>4, <1>7, <2>1 DEF MayAdd
<1>9. v \in Votes(n) /\ totalVotes(v) = totalVotes(u) + 1
  <2>1. v = Adding(u, j, 1)
    BY <1>3 DEF Adding
  <2> QED
    BY <1>8, <2>1, OneMore
<1>10. totalVotes(v) + totalVotes(prop.delegated) <= prop.total
  BY <1>4, <1>7, <1>9
<1>11. PICK q : q = [prop EXCEPT !.individual[i] = @ - 1, !.individual[j] = @ + 1]
  OBVIOUS
<1>12. q = [prop EXCEPT !.individual = v, !.delegated = prop.delegated]
  <2>1. prop.individual[i] - 1 = prop.individual[i] + -1
    BY <1>5
  <2>2. u = [prop.individual EXCEPT ![i] = @ - 1]
    BY <1>2, <2>1
  <2>3. PICK r : r = [prop EXCEPT !.individual[i] = @ - 1]
    OBVIOUS
  <2>4. prop \in ProposalRecords
    BY PropIs
  <2>5. r = [prop EXCEPT !.individual = u]
    BY <2>2, <2>3
  <2>6. r.individual = u
    BY <2>4, <2>5 DEF ProposalRecords
  <2>7. q = [r EXCEPT !.individual[j] = @ + 1]
    <3>1. i # j /\ prop.individual \in [1 .. n -> Nat]
      BY <1>4 DEF Revote, Votes
    <3>2. r.individual[j] = prop.individual[j]
      BY <2>2, <2>6, <3>1
    <3> QED
      BY <1>11, <2>3, <3>2
  <2>8. q = [r EXCEPT !.individual = v]
    BY <1>3, <2>6, <2>7
  <2>9. q = [prop EXCEPT !.individual = v]
    BY <2>4, <2>5, <2>8 DEF ProposalRecords
  <2> QED
    BY <2>4, <2>9 DEF ProposalRecords
<1>13. Store(q) /\ ~isExpirationExpired(prop.expiration, now) /\ prop.revoting
  BY <1>11 DEF Revote
<1> QED
  BY <1>1, <1>4, <1>9, <1>10, <1>12, <1>13, Casting
\* Executing, closing and vetoing.
LEMMA FinishKeeps ==
  ASSUME ProposalsInv, Finish
  PROVE  ProposalsInv' /\ Keeps(prop, statusOf(prop, now), statusOf(prop, now)')
<1>1. PICK s : s = statusOf(Exact(prop), now)
  OBVIOUS
<1>2. PICK end : /\ end \in CASE s.s = "passed" -> {"executed", "execution_failed"}
                              [] s.s = "rejected" -> {"closed"}
                              [] s.s = "veto_timelock" -> {"vetoed", "executed"}
                              [] OTHER -> {}
                 /\ prop' = [prop EXCEPT !.status = St(end)]
                 /\ log' = Append(log, [s |-> end, height |-> now.height])
                 /\ now' = now
  BY <1>1 DEF Finish
<1>3. \/ s.s = "passed" /\ end \in {"executed", "execution_failed"}
      \/ s.s = "rejected" /\ end = "closed"
      \/ s.s = "veto_timelock" /\ end \in {"vetoed", "executed"}
  BY <1>2
<1>4. PICK q : q = [prop EXCEPT !.status = St(end)]
  OBVIOUS
<1>5. Fits(prop) /\ now \in Times /\ now.height >= 1
  BY DEF ProposalsInv
<1>6. q.status = St(end) /\ (StatusFits(q) => Fits(q))
  BY <1>4, <1>5, StatusWritten
<1>7. q.status.s = end /\ end \in StoredStatuses /\ end \notin {"open", "veto_timelock"}
  BY <1>3, <1>6 DEF St, StoredStatuses
<1>8. Fits(q)
  <2>1. Never \in Expirations
    BY DEF Never, Expirations
  <2>2. St(end) \in [s : StoredStatuses, until : Expirations]
    BY <1>7, <2>1 DEF St
  <2> QED
    BY <1>6, <1>7, <2>2 DEF StatusFits
<1>9. statusOf(q, now).s = end
  BY <1>7, StatusIs
<1>10. LogFits'
  BY <1>2, <1>4, <1>7, Logged
<1>11. ProposalsInv'
  BY <1>2, <1>4, <1>5, <1>8, <1>10 DEF ProposalsInv
<1>12. Keeps(prop, statusOf(prop, now), statusOf(q, now))
  <2>1. PICK a : a = statusOf(prop, now)
    OBVIOUS
  <2>2. a = s \/ (a \in {St("open"), St("rejected")} /\ s \in {St("open"), St("rejected")})
    BY <1>1, <1>5, <2>1, ExactStatus
  <2>3. \/ a.s = "open" \/ a.s = s.s
    <3>1. CASE a = s
      BY <3>1
    <3>2. CASE a \in {St("open"), St("rejected")} /\ s \in {St("open"), St("rejected")}
      <4>1. s.s = "rejected"
        BY <1>3, <3>2 DEF St
      <4> QED
        BY <3>2, <4>1 DEF St
    <3> QED
      BY <2>2, <3>1, <3>2
  <2>4. MayFollow(a.s, end)
    BY <1>3, <2>3 DEF MayFollow
  <2> QED
    BY <1>7, <1>9, <2>1, <2>4 DEF Keeps
<1> QED
  BY <1>2, <1>4, <1>11, <1>12

LEMMA TickKeeps ==
  ASSUME ProposalsInv, Tick
  PROVE  ProposalsInv' /\ Keeps(prop, statusOf(prop, now), statusOf(prop, now)')
<1>1. PICK h \in {0, 1} : now' = [height |-> now.height + h, time |-> now.time + 1]
  BY DEF Tick
<1>2. prop' = prop /\ log' = log
  BY DEF Tick
<1>3. Fits(prop) /\ now \in Times /\ now.height >= 1 /\ LogFits /\ VotesFit(prop) /\ StatusFits(prop)
  BY DEF ProposalsInv, Fits
<1>4. now.height \in Nat /\ now.time \in Nat
  BY <1>3 DEF Times
<1>5. now'.height = now.height + h /\ now'.time = now.time + 1
  BY <1>1
<1>6. now' \in Times /\ now'.height >= 1 /\ now.height <= now'.height /\ now.time <= now'.time
  BY <1>1, <1>3, <1>4, <1>5 DEF Times
<1>7. NotAfter(now, now')
  BY <1>3, <1>6 DEF NotAfter
<1>8. LogFits'
  <2>1. /\ log \in Seq([s : StoredStatuses, height : Nat])
        /\ \A i \in DOMAIN log : 1 <= log[i].height /\ log[i].height <= now.height
        /\ \E i \in DOMAIN log : log[i].s = prop.status.s
    BY <1>3 DEF LogFits
  <2>2. \A i \in DOMAIN log : log[i].height \in Nat
    <3>1. PICK R : R = [s : StoredStatuses, height : Nat]
      OBVIOUS
    <3>2. PICK l \in Seq(R) : l = log
      BY <2>1, <3>1
    <3>3. DOMAIN l = 1 .. Len(l) /\ \A i \in 1 .. Len(l) : l[i] \in R
      BY ElementOfSeq
    <3>4. \A e \in R : e.height \in Nat
      BY <3>1
    <3> QED
      BY <3>2, <3>3, <3>4
  <2>3. \A i \in DOMAIN log : log[i].height <= now'.height
    BY <1>4, <1>6, <2>1, <2>2, <1>5
  <2> QED
    BY <1>2, <2>1, <2>3 DEF LogFits
<1>9. ProposalsInv'
  BY <1>2, <1>3, <1>6, <1>8 DEF ProposalsInv
<1>10. PICK u : u = now'
  OBVIOUS
<1>11. MayBecome(prop, now, prop, u)
  BY <1>3, <1>7, <1>10, NoChange
<1>12. Keeps(prop, statusOf(prop, now), statusOf(prop, u))
  BY <1>3, <1>11, StatusKeeps
<1>13. statusOf(prop, now)' = statusOf(prop, u)
  BY <1>2, <1>10
<1> QED
  BY <1>9, <1>12, <1>13

LEMMA ProposalsBegin ==
  ASSUME ProposalsInit
  PROVE  ProposalsInv
<1>1. /\ prop \in NewProposals /\ now = [height |-> 1, time |-> 1] /\ log = <<[s |-> "open", height |-> 1]>>
      /\ IsNew(prop)
  BY ProposalsAssumption DEF ProposalsInit
<1>2. /\ prop.kind \in {"single", "multiple"} /\ prop.threshold \in Thresholds(prop.kind)
      /\ prop.total \in Nat /\ prop.expiration \in Expirations /\ prop.min \in SUBSET Expirations
      /\ prop.revoting \in BOOLEAN /\ prop.veto \in SUBSET Durations /\ prop.hasIndividual \in BOOLEAN
      /\ prop.individual \in Seq({0}) /\ prop.delegated \in Seq({0}) /\ prop.status = St("open")
      /\ Len(prop.individual) = Len(prop.delegated)
      /\ IF prop.kind = "single" THEN Len(prop.individual) = 3 ELSE Len(prop.individual) >= 2
      /\ \A e \in prop.min : e.unit = prop.expiration.unit /\ e.at <= prop.expiration.at
  BY <1>1 DEF IsNew
<1>3. PICK n \in Nat : n = Len(prop.individual)
  BY <1>2
<1>4. /\ prop.individual \in Votes(n) /\ prop.delegated \in Votes(n)
      /\ \A i \in 1 .. n : prop.individual[i] = 0 /\ prop.delegated[i] = 0
      /\ prop.individual \in Seq(Nat) /\ prop.delegated \in Seq(Nat)
  <2>1. PICK v \in Seq({0}) : v = prop.individual
    BY <1>2
  <2>2. PICK d \in Seq({0}) : d = prop.delegated
    BY <1>2
  <2>3. Len(v) = n /\ Len(d) = n
    BY <1>2, <1>3, <2>1, <2>2
  <2>4. v \in [1 .. n -> {0}] /\ d \in [1 .. n -> {0}]
    BY <2>3
  <2>5. v \in [1 .. n -> Nat] /\ d \in [1 .. n -> Nat] /\ \A i \in 1 .. n : v[i] = 0 /\ d[i] = 0
    BY <2>4
  <2>6. v \in Seq(Nat) /\ d \in Seq(Nat)
    BY <2>5
  <2> QED
    BY <2>1, <2>2, <2>5, <2>6 DEF Votes
<1>5. ASSUME NEW v \in Votes(n), \A i \in 1 .. n : v[i] = 0 PROVE totalVotes(v) = 0
  <2>1. IsFiniteSet(1 .. n) /\ totalVotes(v) = SumFunctionOnSet(v, 1 .. n)
    BY Counted
  <2>2. \A i \in 1 .. n : v[i] \in Int
    BY <1>5
  <2>3. {} \in SUBSET (1 .. n) /\ \A i \in (1 .. n) \ {} : v[i] = 0
    BY <1>5
  <2>4. SumFunctionOnSet(v, 1 .. n) = SumFunctionOnSet(v, {})
    BY <2>1, <2>2, <2>3, SumSkips
  <2>5. SumFunctionOnSet(v, {}) = 0
    BY <2>1, <2>2, SumTakes
  <2> QED
    BY <2>1, <2>4, <2>5
<1>6. totalVotes(prop.individual) = 0 /\ totalVotes(prop.delegated) = 0
  BY <1>4, <1>5
<1>7. Terms(prop)
  BY <1>2, <1>3 DEF Terms, OptionsOf
<1>8. VotesFit(prop)
  BY <1>2, <1>3, <1>4, <1>6, <1>7 DEF VotesFit, OptionsOf
<1>9. prop.status.s = "open" /\ prop.status \in [s : StoredStatuses, until : Expirations]
  BY <1>2 DEF St, StoredStatuses, Never, Expirations
<1>10. StatusFits(prop)
  BY <1>2, <1>9 DEF StatusFits
<1>11. prop \in ProposalRecords
  <2>1. prop \in [kind : {"single", "multiple"}, threshold : Thresholds("single") \cup Thresholds("multiple"),
              total : Nat, expiration : Expirations, min : SUBSET Expirations, revoting : BOOLEAN,
              veto : SUBSET Durations, hasIndividual : BOOLEAN, individual : Seq({0}),
              delegated : Seq({0}), status : {St("open")}]
    BY <1>1 DEF IsNew
  <2> QED
    BY <1>4, <1>9, <2>1 DEF ProposalRecords
<1>12. now \in Times /\ now.height >= 1 /\ now.height = 1
  BY <1>1 DEF Times
<1>13. LogFits
  <2>1. PICK e \in [s : StoredStatuses, height : Nat] : e = [s |-> "open", height |-> 1]
    BY DEF StoredStatuses
  <2>2. log = <<e>>
    BY <1>1, <2>1
  <2>3. log \in Seq([s : StoredStatuses, height : Nat]) /\ DOMAIN log = {1} /\ log[1] = e
    BY <2>2
  <2>4. e.s = "open" /\ e.height = 1
    BY <2>1
  <2> QED
    BY <1>9, <1>12, <2>3, <2>4 DEF LogFits
<1> QED
  BY <1>8, <1>10, <1>11, <1>12, <1>13 DEF ProposalsInv, Fits

LEMMA ProposalsStep ==
  ASSUME ProposalsInv, ProposalsNext
  PROVE  ProposalsInv' /\ Keeps(prop, statusOf(prop, now), statusOf(prop, now)')
<1>1. ASSUME NEW i \in DOMAIN prop.individual, CastVote(i)
      PROVE  ProposalsInv' /\ Keeps(prop, statusOf(prop, now), statusOf(prop, now)')
  BY <1>1, CastVoteKeeps
<1>2. ASSUME NEW i \in DOMAIN prop.individual, DelegateVotes(i)
      PROVE  ProposalsInv' /\ Keeps(prop, statusOf(prop, now), statusOf(prop, now)')
  BY <1>2, DelegateVotesKeeps
<1>3. ASSUME NEW i \in DOMAIN prop.individual, NEW j \in DOMAIN prop.individual, OverrideDelegate(i, j)
      PROVE  ProposalsInv' /\ Keeps(prop, statusOf(prop, now), statusOf(prop, now)')
  BY <1>3, OverrideKeeps
<1>4. ASSUME NEW i \in DOMAIN prop.individual, NEW j \in DOMAIN prop.individual, Revote(i, j)
      PROVE  ProposalsInv' /\ Keeps(prop, statusOf(prop, now), statusOf(prop, now)')
  BY <1>4, RevoteKeeps
<1> QED
  BY <1>1, <1>2, <1>3, <1>4, FinishKeeps, TickKeeps DEF ProposalsNext
-----------------------------------------------------------------------------
(* Dates.                                                                  *)

\* The height of the first of some statuses, when one was written.
LEMMA FirstIs ==
  ASSUME LogFits, now.height \in Nat, NEW statuses
  PROVE  /\ (\E i \in DOMAIN log : log[i].s \in statuses) => firstWritten(statuses) # {}
         /\ \A h \in firstWritten(statuses) : 1 <= h /\ h <= now.height
         /\ \A h, k \in firstWritten(statuses) : h = k
<1>1. log \in Seq([s : StoredStatuses, height : Nat])
  BY DEF LogFits
<1>2. PICK at : at = {i \in DOMAIN log : log[i].s \in statuses}
  OBVIOUS
<1>3. at \in SUBSET Nat
  BY <1>1, <1>2
<1>4. firstWritten(statuses) = IF at = {} THEN {} ELSE {log[Min(at)].height}
  BY <1>2 DEF firstWritten
<1>5. at # {} => Min(at) \in DOMAIN log
  BY <1>2, <1>3, MinIs
<1>6. at # {} => 1 <= log[Min(at)].height /\ log[Min(at)].height <= now.height
  BY <1>5 DEF LogFits
<1> QED
  BY <1>2, <1>4, <1>6

LEMMA DatesAreRight ==
  ASSUME ProposalsInv
  PROVE  CompletedIsDated
<1>1. LogFits /\ now.height \in Nat /\ Fits(prop) /\ StatusFits(prop) /\ Terms(prop)
  BY DEF ProposalsInv, Times, Fits, VotesFit
<1>2. PICK r : r = statusOf(prop, now)
  OBVIOUS
<1>3. r.s \in {"executed", "execution_failed", "closed"} => prop.status.s = r.s
  <2>1. CASE prop.status.s = "open"
    <3>1. CASE isPassed(prop, now)
      <4>1. r = PassedStatus(prop, now)
        BY <1>2, <2>1, <3>1, StatusIs
      <4> QED
        BY <1>1, <4>1, PassedStatusIs DEF St
    <3>2. CASE ~isPassed(prop, now)
      <4>1. r = prop.status \/ r = St("rejected")
        BY <1>2, <2>1, <3>2, StatusIs
      <4> QED
        BY <4>1 DEF St
    <3> QED
      BY <3>1, <3>2
  <2>2. CASE prop.status.s = "veto_timelock"
    <3>1. r = prop.status \/ r = St("passed")
      BY <1>2, <2>2, StatusIs
    <3> QED
      BY <3>1 DEF St
  <2>3. CASE prop.status.s \notin {"open", "veto_timelock"}
    BY <1>2, <2>3, StatusIs
  <2> QED
    BY <2>1, <2>2, <2>3
<1>4. prop.status.s \in {"passed", "rejected"} => r.s = prop.status.s
  BY <1>2, StatusIs
<1>5. PICK i \in DOMAIN log : log[i].s = prop.status.s
  BY <1>1 DEF LogFits
<1>6. \A statuses : prop.status.s \in statuses => firstWritten(statuses) # {}
  BY <1>1, <1>5, FirstIs
<1>7. /\ executedAt = IF r.s \in {"executed", "execution_failed"}
                      THEN firstWritten({"executed", "execution_failed"}) ELSE {}
      /\ closedAt = IF r.s = "closed" THEN firstWritten({"closed"}) ELSE {}
  BY <1>2 DEF executedAt, closedAt
<1>8. completedAt = IF r.s = "open" THEN {} ELSE IF executedAt # {} THEN executedAt
                    ELSE IF closedAt # {} THEN closedAt ELSE firstWritten({"passed", "rejected"})
  BY <1>2 DEF completedAt
<1>9. r.s \in {"executed", "execution_failed", "closed"} => completedAt # {}
  <2>1. CASE r.s \in {"executed", "execution_failed"}
    <3>1. executedAt # {}
      BY <1>3, <1>6, <1>7, <2>1
    <3> QED
      BY <1>8, <2>1, <3>1
  <2>2. CASE r.s = "closed"
    <3>1. closedAt # {}
      BY <1>3, <1>6, <1>7, <2>2
    <3> QED
      BY <1>8, <2>2, <3>1
  <2> QED
    BY <2>1, <2>2
<1>10. prop.status.s \in {"passed", "rejected"} => completedAt # {}
  BY <1>4, <1>6, <1>7, <1>8
<1>11. \A h \in completedAt : 1 <= h /\ h <= now.height
  <2>1. \A h \in firstWritten({"executed", "execution_failed"}) : 1 <= h /\ h <= now.height
    BY <1>1, FirstIs
  <2>2. \A h \in firstWritten({"closed"}) : 1 <= h /\ h <= now.height
    BY <1>1, FirstIs
  <2>3. \A h \in firstWritten({"passed", "rejected"}) : 1 <= h /\ h <= now.height
    BY <1>1, FirstIs
  <2> QED
    BY <1>7, <1>8, <2>1, <2>2, <2>3
<1>12. \A h \in completedAt : \A e \in executedAt \cup closedAt : h = e
  <2>1. \A h, e \in firstWritten({"executed", "execution_failed"}) : h = e
    BY <1>1, FirstIs
  <2>2. \A h, e \in firstWritten({"closed"}) : h = e
    BY <1>1, FirstIs
  <2>3. executedAt = {} \/ closedAt = {}
    BY <1>7
  <2> QED
    BY <1>7, <1>8, <2>1, <2>2, <2>3
<1> QED
  BY <1>2, <1>9, <1>10, <1>11, <1>12 DEF CompletedIsDated

\* What is reported of a proposal stays true, for every proposal, number of
\* options, vote and time: its outcome, the end of its timelock and the date it was
\* completed at (isPassed, isRejected, intoResponse and completedAt of the
\* proposal formulas).
THEOREM ProposalsKeep == ProposalsSpec => StatusIsKept
<1>1. ProposalsInit => ProposalsInv
  BY ProposalsBegin
<1>2. ProposalsInv /\ [ProposalsNext]_proposalVars => ProposalsInv'
  <2> SUFFICES ASSUME ProposalsInv, [ProposalsNext]_proposalVars PROVE ProposalsInv'
    OBVIOUS
  <2>1. CASE ProposalsNext
    BY <2>1, ProposalsStep
  <2>2. CASE UNCHANGED proposalVars
    BY <2>2 DEF proposalVars, ProposalsInv, LogFits
  <2> QED
    BY <2>1, <2>2
<1>3. ProposalsInv /\ [ProposalsNext]_proposalVars =>
          [\/ MayFollow(statusOf(prop, now).s, statusOf(prop, now)'.s)
           \/ Rounded(prop) /\ statusOf(prop, now).s = "rejected"]_proposalVars
  BY ProposalsStep DEF Keeps
<1>4. ProposalsInv /\ [ProposalsNext]_proposalVars =>
          [statusOf(prop, now).s = "veto_timelock" /\ statusOf(prop, now)'.s = "veto_timelock"
               => statusOf(prop, now)'.until = statusOf(prop, now).until]_proposalVars
  BY ProposalsStep DEF Keeps
<1>5. ProposalsInv => CompletedIsDated
  BY DatesAreRight
<1> QED
  BY <1>1, <1>2, <1>3, <1>4, <1>5, PTL DEF ProposalsSpec, StatusIsKept, OutcomeIsFinal, TimelockIsKept

=============================================================================
