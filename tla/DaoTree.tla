------------------------------ MODULE DaoTree ------------------------------
(***************************************************************************)
(* The walk through the SubDAOs of a DAO (getUniqueSubDaosInTree), which   *)
(* may list each other and themselves, and the prefixes generated for the  *)
(* proposal modules of a V1 DAO (indexToProposalModulePrefix).             *)
(***************************************************************************)
EXTENDS Integers, FiniteSets, Sequences

CONSTANTS
    Daos,         \* DAOs
    Root,         \* the one the walk starts from
    Letters,      \* letters of a prefix (26)
    PrefixBound   \* proposal modules are numbered from 0 to this

ASSUME DaoTreeAssumption ==
    /\ Root \in Daos /\ IsFiniteSet(Daos)
    /\ Letters \in Nat \ {0, 1} /\ PrefixBound \in Nat

VARIABLES
    tree,        \* the SubDAOs of each DAO
    walk,        \* the walk: DAOs pending and seen
    module       \* the index whose prefix is asked for

daoTreeVars == <<tree, walk, module>>

DaoTreeInit ==
    /\ tree \in [Daos -> SUBSET Daos]
    /\ walk = [pending |-> {Root}, seen |-> {Root}]
    /\ module = 0

-----------------------------------------------------------------------------
\* Mutant: a SubDAO that is found is not looked into.
Unseen_Leaf(subDaos, d) == IF d = Root THEN subDaos \ walk.seen ELSE {}

Unseen(subDaos, d) == subDaos \ walk.seen

\* An iteration of getUniqueSubDaosInTree.
getUniqueSubDaosInTree ==
    /\ \E d \in walk.pending :
           walk' = [pending |-> (walk.pending \ {d}) \cup Unseen(tree[d], d),
                    seen |-> walk.seen \cup Unseen(tree[d], d)]
    /\ UNCHANGED <<tree, module>>

\* Mutant: the index is divided without its letter.
NextIndex_Whole(i) == i \div Letters

NextIndex(i) == (i - ((i - 1) % Letters)) \div Letters

\* The letters put before those there are, from the last to the first; 0 is A.
Prefix[i \in 0..(PrefixBound + 1)] ==
    IF i = 0 THEN <<>> ELSE Append(Prefix[NextIndex(i)], (i - 1) % Letters)

indexToProposalModulePrefix(index) == Prefix[index + 1]

\* Another module is asked for.
NextModule ==
    /\ module < PrefixBound
    /\ module' = module + 1
    /\ UNCHANGED <<tree, walk>>

DaoTreeNext == getUniqueSubDaosInTree \/ NextModule

DaoTreeSpec == DaoTreeInit /\ [][DaoTreeNext]_daoTreeVars

-----------------------------------------------------------------------------
\* The DAOs that the root reaches in n steps.
WithSubDaos(S) == S \cup UNION {tree[d] : d \in S}
Reach[n \in Nat] == IF n = 0 THEN {Root} ELSE WithSubDaos(Reach[n - 1])

\* The walk has seen, when it ends, the root and exactly the DAOs that the root
\* reaches through SubDAOs, whatever cycles there are (getUniqueSubDaosInTree).
WalkFindsTree ==
    walk.pending = {} => walk.seen = Reach[Cardinality(Daos)]

\* A prefix is longer than another, or as long and alphabetically after it.
Follows(p, q) ==
    \/ Len(p) > Len(q)
    \/ /\ Len(p) = Len(q)
       /\ \E i \in DOMAIN p : p[i] > q[i] /\ \A j \in 1..(i - 1) : p[j] = q[j]

\* The prefix of a module differs from those before it and follows them
\* (indexToProposalModulePrefix).
PrefixesFollow ==
    module > 0 => Follows(indexToProposalModulePrefix(module), indexToProposalModulePrefix(module - 1))

\* The tree of a DAO is walked to its end, and its modules are named one after the
\* other.
TreeIsNamed ==
    /\ WalkFindsTree
    /\ PrefixesFollow
=============================================================================
