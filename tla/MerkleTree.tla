------------------------------ MODULE MerkleTree ------------------------------
(***************************************************************************)
(* merkle_root: the loop that folds the payload hashes of a day's events   *)
(* into one root, one level of the tree per iteration.  A leaf is an atom  *)
(* and the hash of two nodes is their pair: SHA-256 is taken to be         *)
(* injective, and no leaf to be the hash of two nodes.                     *)
(***************************************************************************)
EXTENDS Naturals, Sequences

CONSTANTS
    Leaves,     \* payload hashes
    MaxLeaves   \* bound on the events of a day

VARIABLES
    leaves,     \* the argument leaf_hashes
    level,      \* the loop's variable
    root        \* the result, as a sequence of at most one node

vars == <<leaves, level, root>>

hash_pair(left, right) == <<left, right>>

\* The constant root of a day without events: a node like no other.
EMPTY_DAY_ROOT == <<>>

\* Mutant: an odd last node is hashed with the first one.
WrapAround(nodes) == Append(nodes, nodes[1])

\* Mutant: an odd last node is dropped.
DropLast(nodes) == SubSeq(nodes, 1, Len(nodes) - 1)

\* level.append(level[-1])
DuplicateLast(nodes) == Append(nodes, nodes[Len(nodes)])

Evened(nodes) == IF Len(nodes) % 2 = 1 THEN DuplicateLast(nodes) ELSE nodes

NextLevel(nodes) ==
    [i \in 1..(Len(nodes) \div 2) |-> hash_pair(nodes[2 * i - 1], nodes[2 * i])]

Init ==
    /\ leaves \in UNION {[1..n -> Leaves] : n \in 0..MaxLeaves}
    /\ level = leaves
    /\ root = <<>>

EmptyDay ==
    /\ root = <<>> /\ leaves = <<>>
    /\ root' = <<EMPTY_DAY_ROOT>>
    /\ UNCHANGED <<leaves, level>>

Fold ==
    /\ Len(level) > 1
    /\ level' = NextLevel(Evened(level))
    /\ UNCHANGED <<leaves, root>>

Return ==
    /\ root = <<>> /\ Len(level) = 1
    /\ root' = level
    /\ UNCHANGED <<leaves, level>>

Next == EmptyDay \/ Fold \/ Return

Spec == Init /\ [][Next]_vars

-----------------------------------------------------------------------------
(* The reference: a tree over endlessly many places, of which the first    *)
(* hold the leaves. A node over an empty right half hashes its left half   *)
(* with itself; over two empty halves there is none. The root is the node  *)
(* that is over all the leaves.                                            *)

NoNode == EMPTY_DAY_ROOT

Places(s) == [i \in Nat \ {0} |-> IF i <= Len(s) THEN s[i] ELSE NoNode]

Node(left, right) ==
    IF left = NoNode THEN NoNode ELSE hash_pair(left, IF right = NoNode THEN left ELSE right)

Joined(nodes) == [i \in Nat \ {0} |-> Node(nodes[2 * i - 1], nodes[2 * i])]

\* The nodes at each height, from the place of the leftmost.
Tree(s) ==
    LET nodes[h \in Nat] == IF h = 0 THEN Places(s) ELSE Joined(nodes[h - 1])
    IN  nodes

\* The least height at which one node is over all the leaves.
Height(s) == CHOOSE h \in 0..Len(s) :
                /\ Tree(s)[h][2] = NoNode
                /\ \A k \in 0..(h - 1) : Tree(s)[k][2] # NoNode

MerkleRoot(s) == Tree(s)[Height(s)][1]

Distinct(s) == \A i, j \in 1..Len(s) : s[i] = s[j] => i = j

\* The loop computes the tree of the textbook, for every number of leaves. And
\* two days whose events differ, in the events or in their order only, have
\* different roots: no event repeats, so the duplicated last node is harmless.
\* (A day's events are distinct: each hash covers a random event_id.)
RootBinds ==
    root # <<>> =>
        /\ root[1] = MerkleRoot(leaves)
        /\ Distinct(leaves) =>
              \A s \in UNION {[1..n -> Leaves] : n \in 0..MaxLeaves} :
                  Distinct(s) /\ s # leaves => MerkleRoot(s) # root[1]
=============================================================================
