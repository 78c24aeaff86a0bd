---------------------------- MODULE MerkleProofs ----------------------------
(***************************************************************************)
(* Proof that merkle_root computes the tree it is meant to compute, and    *)
(* that its root binds the day's events and their order, for days of any   *)
(* length. It is by induction over heights, on sets of numbers: that 0 is  *)
(* in a set and n + 1 whenever n is (Inductive).                           *)
(***************************************************************************)
EXTENDS MerkleTree, WellFoundedInduction, TLAPS

\* What holds at 0 and goes on holding holds everywhere.
LEMMA Inductive ==
    ASSUME NEW S \in SUBSET Nat, 0 \in S, \A n \in S : n + 1 \in S
    PROVE  S = Nat
  <1> SUFFICES ASSUME Nat \ S # {} PROVE FALSE
    OBVIOUS
  <1>1. PICK n \in Nat \ S : \A m \in Nat \ S : <<m, n>> \notin OpToRel(<, Nat)
    BY NatLessThanWellFounded, WFMin
  <1>2. \A m \in Nat \ S : ~(m < n)
    BY <1>1 DEF OpToRel
  <1>3. n # 0 /\ n - 1 \in Nat /\ n - 1 < n
    OBVIOUS
  <1>4. n - 1 \in S
    BY <1>2, <1>3
  <1>5. (n - 1) + 1 \in S
    BY <1>4
  <1> QED BY <1>5

-----------------------------------------------------------------------------
(* The reference is defined: its equations have a solution. One up to each  *)
(* height there is, any two agree where both are, and they join into one.   *)

At(s, nodes, h) == IF h = 0 THEN Places(s) ELSE Joined(nodes[h - 1])
UpTo(s, nodes, n) == nodes = [h \in 0..n |-> At(s, nodes, h)]

LEMMA Once ==
    ASSUME NEW s, NEW f, NEW g, NEW m \in Nat, NEW n \in Nat, UpTo(s, f, m), UpTo(s, g, n)
    PROVE  \A h \in Nat : h <= m /\ h <= n => f[h] = g[h]
  <1> DEFINE S == {h \in Nat : h <= m /\ h <= n => f[h] = g[h]}
  <1>1. \A h \in 0..m : f[h] = At(s, f, h)
    BY DEF UpTo
  <1>2. \A h \in 0..n : g[h] = At(s, g, h)
    BY DEF UpTo
  <1>3. 0 \in S
    BY <1>1, <1>2 DEF At
  <1>4. ASSUME NEW h \in S PROVE h + 1 \in S
    <2> SUFFICES ASSUME h + 1 <= m, h + 1 <= n PROVE f[h + 1] = g[h + 1]
      OBVIOUS
    <2>1. f[h] = g[h] /\ h + 1 \in 0..m /\ h + 1 \in 0..n /\ (h + 1) - 1 = h /\ h + 1 # 0
      OBVIOUS
    <2> QED BY <1>1, <1>2, <2>1 DEF At
  <1> HIDE DEF S
  <1>5. S = Nat
    BY <1>3, <1>4, Inductive DEF S
  <1> QED BY <1>5 DEF S

LEMMA EachHeight ==
    ASSUME NEW s
    PROVE  \A n \in Nat : \E f : UpTo(s, f, n)
  <1> DEFINE S == {n \in Nat : \E f : UpTo(s, f, n)}
  <1>1. 0 \in S
    <2> DEFINE f == [h \in 0..0 |-> Places(s)]
    <2>1. UpTo(s, f, 0)
      BY DEF UpTo, At
    <2> QED BY <2>1
  <1>2. ASSUME NEW n \in S PROVE n + 1 \in S
    <2>1. PICK f : UpTo(s, f, n)
      OBVIOUS
    <2> DEFINE g == [h \in 0..(n + 1) |-> IF h <= n THEN f[h] ELSE Joined(f[n])]
    <2>2. \A h \in 0..n : f[h] = At(s, f, h)
      BY <2>1 DEF UpTo
    <2>3. ASSUME NEW h \in 0..(n + 1) PROVE g[h] = At(s, g, h)
      <3>1. CASE h = 0
        BY <2>2, <3>1 DEF At
      <3>2. CASE h # 0 /\ h <= n
        <4>1. g[h] = f[h] /\ g[h - 1] = f[h - 1]
          BY <3>2
        <4> QED BY <2>2, <3>2, <4>1 DEF At
      <3>3. CASE h = n + 1
        <4>1. g[h] = Joined(f[n]) /\ g[h - 1] = f[n]
          BY <3>3
        <4> QED BY <3>3, <4>1 DEF At
      <3> QED BY <3>1, <3>2, <3>3
    <2>4. UpTo(s, g, n + 1)
      <3> DEFINE r == [h \in 0..(n + 1) |-> At(s, g, h)]
      <3>1. \A h \in 0..(n + 1) : g[h] = r[h]
        BY <2>3
      <3>2. g = r
        BY <3>1
      <3> QED BY <3>2 DEF UpTo
    <2> QED BY <2>4
  <1> HIDE DEF S
  <1>3. S = Nat
    BY <1>1, <1>2, Inductive DEF S
  <1> QED BY <1>3 DEF S

\* What the definition of Tree says, it satisfies.
LEMMA TreeDefined ==
    ASSUME NEW s
    PROVE  /\ Tree(s)[0] = Places(s)
           /\ \A h \in Nat : Tree(s)[h + 1] = Joined(Tree(s)[h])
  <1> DEFINE upTo == [n \in Nat |-> CHOOSE f : UpTo(s, f, n)]
             all  == [n \in Nat |-> upTo[n][n]]
  <1>1. \A n \in Nat : UpTo(s, upTo[n], n)
    BY EachHeight
  <1> HIDE DEF upTo
  <1>2. ASSUME NEW n \in Nat PROVE all[n] = At(s, all, n)
    <2>1. upTo[n][n] = At(s, upTo[n], n)
      <3>1. n \in 0..n /\ UpTo(s, upTo[n], n)
        BY <1>1
      <3> QED BY <3>1 DEF UpTo
    <2>2. CASE n = 0
      BY <2>1, <2>2 DEF At
    <2>3. CASE n # 0
      <3>1. n - 1 \in Nat /\ n - 1 <= n
        BY <2>3
      <3>2. upTo[n][n - 1] = upTo[n - 1][n - 1]
        BY <1>1, <3>1, Once
      <3> QED BY <2>1, <2>3, <3>1, <3>2 DEF At
    <2> QED BY <2>2, <2>3
  <1>3. all = [h \in Nat |-> IF h = 0 THEN Places(s) ELSE Joined(all[h - 1])]
    <2> DEFINE r == [h \in Nat |-> IF h = 0 THEN Places(s) ELSE Joined(all[h - 1])]
    <2>1. \A n \in Nat : all[n] = r[n]
      BY <1>2 DEF At
    <2>2. all = r
      BY <2>1
    <2> QED BY <2>2
  <1> HIDE DEF all
  <1>4. Tree(s) = [h \in Nat |-> IF h = 0 THEN Places(s) ELSE Joined(Tree(s)[h - 1])]
    BY <1>3 DEF Tree
  <1> HIDE DEF all
  <1>5. Tree(s)[0] = Places(s)
    BY <1>4
  <1>6. ASSUME NEW h \in Nat PROVE Tree(s)[h + 1] = Joined(Tree(s)[h])
    <2>1. h + 1 \in Nat /\ h + 1 # 0 /\ (h + 1) - 1 = h
      OBVIOUS
    <2> QED BY <1>4, <2>1
  <1> QED BY <1>5, <1>6

-----------------------------------------------------------------------------
(* Two days, one root. A height of the tree, of nodes that are all          *)
(* different, can be read back from the one above: so from one root both    *)
(* trees are the same, down to the leaves of the lower one; and those are   *)
(* no hashes of two nodes, so that neither tree is higher.                  *)

\* No leaf is the hash of two nodes, or the constant of the empty day.
LeavesAreAtoms ==
    \A leaf \in Leaves : leaf # EMPTY_DAY_ROOT /\ \A x, y : leaf # hash_pair(x, y)

Index == Nat \ {0}

\* The nodes of one height fill the first places, and none is there twice.
Regular(nodes) ==
    /\ \A i \in Index : nodes[i] = NoNode => nodes[i + 1] = NoNode
    /\ \A i, j \in Index : nodes[i] = nodes[j] /\ nodes[i] # NoNode => i = j

LEMMA PairIsNode == \A x, y : hash_pair(x, y) # NoNode
  BY DEF hash_pair, NoNode, EMPTY_DAY_ROOT

LEMMA PairsEqual ==
    \A x, y, u, v : hash_pair(x, y) = hash_pair(u, v) => x = u /\ y = v
  BY DEF hash_pair

LEMMA JoinedAt ==
    ASSUME NEW nodes, NEW i \in Index
    PROVE  /\ 2 * i - 1 \in Index /\ 2 * i \in Index /\ (2 * i - 1) + 1 = 2 * i
           /\ 2 * i + 1 = 2 * (i + 1) - 1
           /\ Joined(nodes)[i] = Node(nodes[2 * i - 1], nodes[2 * i])
           /\ Joined(nodes)[i] = NoNode <=> nodes[2 * i - 1] = NoNode
  <1>1. /\ 2 * i - 1 \in Index /\ 2 * i \in Index /\ (2 * i - 1) + 1 = 2 * i
        /\ 2 * i + 1 = 2 * (i + 1) - 1
    BY DEF Index
  <1>2. Joined(nodes)[i] = Node(nodes[2 * i - 1], nodes[2 * i])
    BY DEF Joined, Index
  <1> QED BY <1>1, <1>2, PairIsNode DEF Node

\* Going up keeps nodes different and in the first places.
LEMMA JoinedRegular ==
    ASSUME NEW nodes, Regular(nodes)
    PROVE  Regular(Joined(nodes))
  <1>1. ASSUME NEW i \in Index, Joined(nodes)[i] = NoNode
        PROVE  Joined(nodes)[i + 1] = NoNode
    <2>1. nodes[2 * i - 1] = NoNode
      BY <1>1, JoinedAt
    <2>2. nodes[2 * i] = NoNode
      BY <2>1, JoinedAt DEF Regular
    <2>3. nodes[2 * i + 1] = NoNode
      BY <2>2, JoinedAt DEF Regular
    <2>4. i + 1 \in Index
      BY DEF Index
    <2>5. nodes[2 * (i + 1) - 1] = NoNode
      BY <2>3, JoinedAt
    <2> QED BY <2>4, <2>5, JoinedAt
  <1>2. ASSUME NEW i \in Index, NEW j \in Index,
               Joined(nodes)[i] = Joined(nodes)[j], Joined(nodes)[i] # NoNode
        PROVE  i = j
    <2>1. nodes[2 * i - 1] # NoNode /\ nodes[2 * j - 1] # NoNode
      BY <1>2, JoinedAt
    <2>2. nodes[2 * i - 1] = nodes[2 * j - 1]
      BY <1>2, <2>1, JoinedAt, PairsEqual DEF Node
    <2>3. 2 * i - 1 = 2 * j - 1
      BY <2>1, <2>2, JoinedAt DEF Regular
    <2> QED BY <2>3 DEF Index
  <1> QED BY <1>1, <1>2 DEF Regular

\* A height determines the one below it: only the repeated node could be
\* mistaken for another, and a node that is there once is not.
LEMMA JoinedBinds ==
    ASSUME NEW T, NEW U, Regular(T), Regular(U), Joined(T) = Joined(U)
    PROVE  \A i \in Index : T[i] = U[i]
  <1>1. ASSUME NEW i \in Index
        PROVE  T[2 * i - 1] = U[2 * i - 1] /\ T[2 * i] = U[2 * i]
    <2>0. /\ 2 * i - 1 \in Index /\ 2 * i \in Index /\ 2 * i # 2 * i - 1
          /\ (2 * i - 1) + 1 = 2 * i
      BY JoinedAt DEF Index
    <2>1. Node(T[2 * i - 1], T[2 * i]) = Node(U[2 * i - 1], U[2 * i])
      BY JoinedAt
    <2>2. CASE T[2 * i - 1] = NoNode
      <3>1. U[2 * i - 1] = NoNode
        BY <2>1, <2>2, PairIsNode DEF Node
      <3>2. T[2 * i] = NoNode /\ U[2 * i] = NoNode
        BY <2>0, <2>2, <3>1 DEF Regular
      <3> QED BY <2>2, <3>1, <3>2
    <2>3. CASE T[2 * i - 1] # NoNode
      <3>1. U[2 * i - 1] # NoNode
        BY <2>1, <2>3, PairIsNode DEF Node
      <3>2. /\ T[2 * i - 1] = U[2 * i - 1]
            /\ (IF T[2 * i] = NoNode THEN T[2 * i - 1] ELSE T[2 * i])
                  = (IF U[2 * i] = NoNode THEN U[2 * i - 1] ELSE U[2 * i])
        BY <2>1, <2>3, <3>1, PairsEqual DEF Node
      <3>3. T[2 * i] # T[2 * i - 1] /\ U[2 * i] # U[2 * i - 1]
        BY <2>0, <2>3, <3>1 DEF Regular
      <3> QED BY <3>2, <3>3
    <2> QED BY <2>2, <2>3
  <1>2. ASSUME NEW j \in Index
        PROVE  \E i \in Index : j = 2 * i - 1 \/ j = 2 * i
    <2>1. CASE j % 2 = 1
      <3>1. (j + 1) \div 2 \in Index /\ j = 2 * ((j + 1) \div 2) - 1
        BY <2>1 DEF Index
      <3> QED BY <3>1
    <2>2. CASE j % 2 # 1
      <3>1. j \div 2 \in Index /\ j = 2 * (j \div 2)
        BY <2>2 DEF Index
      <3> QED BY <3>1
    <2> QED BY <2>1, <2>2
  <1> QED BY <1>1, <1>2

\* The argument: different leaves.
Day(s) ==
    /\ s \in Seq(Leaves) /\ Distinct(s)

\* At each height the nodes of different leaves are different; at height 0 they
\* are the leaves.
LEMMA TreeRegular ==
    ASSUME LeavesAreAtoms, NEW s, Day(s)
    PROVE  /\ \A h \in Nat : Regular(Tree(s)[h])
           /\ \A i \in Index : Tree(s)[0][i] = IF i <= Len(s) THEN s[i] ELSE NoNode
           /\ \A i \in Index : Tree(s)[0][i] = NoNode <=> i > Len(s)
  <1> DEFINE S == {h \in Nat : Regular(Tree(s)[h])}
  <1>1. \A i \in Index : Tree(s)[0][i] = IF i <= Len(s) THEN s[i] ELSE NoNode
    <2>1. Tree(s)[0] = Places(s)
      BY TreeDefined
    <2> QED BY <2>1 DEF Places, Index
  <1>2. Len(s) \in Nat /\ \A i \in Index : i <= Len(s) => i \in 1..Len(s) /\ s[i] \in Leaves
    BY DEF Day, Index
  <1>3. \A i \in Index : Tree(s)[0][i] = NoNode <=> i > Len(s)
    BY <1>1, <1>2 DEF LeavesAreAtoms, NoNode, Index
  <1>4. 0 \in S
    <2>1. ASSUME NEW i \in Index, Tree(s)[0][i] = NoNode PROVE Tree(s)[0][i + 1] = NoNode
      <3>1. i + 1 \in Index /\ i + 1 > Len(s)
        BY <1>2, <1>3, <2>1 DEF Index
      <3> QED BY <1>3, <3>1
    <2>2. ASSUME NEW i \in Index, NEW j \in Index,
                 Tree(s)[0][i] = Tree(s)[0][j], Tree(s)[0][i] # NoNode
          PROVE  i = j
      <3>1. i <= Len(s) /\ j <= Len(s)
        BY <1>2, <1>3, <2>2 DEF Index
      <3> QED BY <1>1, <1>2, <2>2, <3>1 DEF Day, Distinct
    <2> QED BY <2>1, <2>2 DEF Regular
  <1>5. ASSUME NEW h \in S PROVE h + 1 \in S
    BY TreeDefined, JoinedRegular
  <1> HIDE DEF S
  <1>6. S = Nat
    BY <1>4, <1>5, Inductive DEF S
  <1> QED BY <1>1, <1>3, <1>6 DEF S

\* The tree of s has at height a the nodes that the tree of t has at height b.
Agreeing(s, a, t, b) == \A i \in Index : Tree(s)[a][i] = Tree(t)[b][i]

\* Two trees that agree at a height agree below it, counted from it down.
LEMMA TreesBind ==
    ASSUME LeavesAreAtoms, NEW s, NEW t, Day(s), Day(t), NEW d \in Nat,
           NEW k \in Nat, Agreeing(s, d + k, t, k)
    PROVE  Agreeing(s, d, t, 0)
  <1> USE DEF Agreeing
  <1> DEFINE Agree(n) == \A i \in Index : Tree(s)[d + n][i] = Tree(t)[n][i]
             S == {n \in Nat : Agree(n) => Agree(0)}
  <1>1. 0 \in S
    OBVIOUS
  <1>2. ASSUME NEW n \in S PROVE n + 1 \in S
    <2> SUFFICES ASSUME Agree(n + 1) PROVE Agree(n)
      OBVIOUS
    <2>0. d + n \in Nat /\ d + (n + 1) = (d + n) + 1 /\ n \in Nat
      OBVIOUS
    <2>1. Tree(s)[d + (n + 1)] = Joined(Tree(s)[d + n]) /\ Tree(t)[n + 1] = Joined(Tree(t)[n])
      BY <2>0, TreeDefined
    <2>2. \A i \in Index : Joined(Tree(s)[d + n])[i] = Joined(Tree(t)[n])[i]
      BY <2>1
    <2>3. Joined(Tree(s)[d + n]) = Joined(Tree(t)[n])
      BY <2>2 DEF Joined, Index
    <2>4. Regular(Tree(s)[d + n]) /\ Regular(Tree(t)[n])
      BY <2>0, TreeRegular
    <2> QED BY <2>3, <2>4, JoinedBinds
  <1> HIDE DEF S
  <1>3. S = Nat
    BY <1>1, <1>2, Inductive DEF S
  <1>4. Agree(0)
    BY <1>3 DEF S
  <1>5. d + 0 = d
    OBVIOUS
  <1> QED BY <1>4, <1>5

\* The least height of one node exists, and the root is that node.
OneNode(s, h) == Tree(s)[h][2] = NoNode /\ \A k \in 0..(h - 1) : Tree(s)[k][2] # NoNode

\* There is one such height at most ...
LEMMA HeightIs ==
    ASSUME NEW s, NEW h \in 0..Len(s), Len(s) \in Nat, OneNode(s, h)
    PROVE  Height(s) = h
  <1> DEFINE g == Height(s)
  <1>1. g \in 0..Len(s) /\ OneNode(s, g)
    BY DEF Height, OneNode
  <1> HIDE DEF g
  <1>2. ~(g < h) /\ ~(h < g)
    BY <1>1 DEF OneNode
  <1> QED BY <1>1, <1>2 DEF g

\* ... and one no higher than the number of leaves, as each height halves them.
LEMMA HeightThere ==
    ASSUME LeavesAreAtoms, NEW s, Day(s)
    PROVE  Height(s) \in 0..Len(s) /\ OneNode(s, Height(s))
  <1> DEFINE n == Len(s)
             Narrow(h) == \A i \in Index : i > 1 /\ i > n - h => Tree(s)[h][i] = NoNode
             S == {h \in Nat : Narrow(h)}
             U == {h \in Nat : \A k \in 0..h : k <= n => Tree(s)[k][2] # NoNode}
  <1>0. n \in Nat
    BY DEF Day
  <1> HIDE DEF n
  <1>1. 0 \in S
    BY <1>0, TreeRegular DEF Index, n
  <1>2. ASSUME NEW h \in S PROVE h + 1 \in S
    <2> SUFFICES ASSUME NEW i \in Index, i > 1, i > n - (h + 1)
                 PROVE  Tree(s)[h + 1][i] = NoNode
      OBVIOUS
    <2>1. 2 * i - 1 \in Index /\ 2 * i - 1 > 1 /\ 2 * i - 1 > n - h
      BY <1>0 DEF Index
    <2>2. Tree(s)[h][2 * i - 1] = NoNode
      BY <2>1
    <2> QED BY <2>2, TreeDefined, JoinedAt
  <1> HIDE DEF S
  <1>3. Narrow(n)
    BY <1>0, <1>1, <1>2, Inductive DEF S
  <1>4. Tree(s)[n][2] = NoNode
    BY <1>0, <1>3 DEF Index
  <1>5. \E h \in 0..n : OneNode(s, h)
    <2> SUFFICES ASSUME \A h \in 0..n : ~OneNode(s, h) PROVE FALSE
      OBVIOUS
    <2>1. 0 \in U
      BY <1>0 DEF OneNode
    <2>2. ASSUME NEW h \in U PROVE h + 1 \in U
      <3> SUFFICES ASSUME h + 1 <= n PROVE Tree(s)[h + 1][2] # NoNode
        OBVIOUS
      <3>1. h + 1 \in 0..n /\ \A k \in 0..((h + 1) - 1) : k <= n => k \in 0..h
        BY <1>0
      <3>2. \A k \in 0..((h + 1) - 1) : Tree(s)[k][2] # NoNode
        BY <1>0, <3>1
      <3> QED BY <3>1, <3>2 DEF OneNode
    <2> HIDE DEF U
    <2>3. U = Nat
      BY <2>1, <2>2, Inductive DEF U
    <2> QED BY <1>0, <1>4, <2>3 DEF U
  <1> QED BY <1>0, <1>5, HeightIs DEF n

\* Where there is no second node there are no more.
LEMMA EmptyBeyond ==
    ASSUME NEW nodes, Regular(nodes), nodes[2] = NoNode
    PROVE  \A i \in Index : i # 1 => nodes[i] = NoNode
  <1> DEFINE S == {n \in Nat : nodes[n + 2] = NoNode}
  <1>1. 0 \in S
    OBVIOUS
  <1>2. ASSUME NEW n \in S PROVE n + 1 \in S
    <2>1. n + 2 \in Index /\ (n + 2) + 1 = (n + 1) + 2
      BY DEF Index
    <2> QED BY <2>1 DEF Regular
  <1> HIDE DEF S
  <1>3. S = Nat
    BY <1>1, <1>2, Inductive DEF S
  <1>4. ASSUME NEW i \in Index, i # 1 PROVE nodes[i] = NoNode
    <2>1. i - 2 \in Nat /\ (i - 2) + 2 = i
      BY <1>4 DEF Index
    <2> QED BY <1>3, <2>1 DEF S
  <1> QED BY <1>4

LEMMA SamePlaces ==
    ASSUME LeavesAreAtoms, NEW s, NEW t, Day(s), Day(t),
           \A i \in Index : Tree(s)[0][i] = Tree(t)[0][i]
    PROVE  s = t
  <1>1. Len(s) \in Nat /\ Len(t) \in Nat
    BY DEF Day
  <1>2. Len(s) = Len(t)
    <2>1. \A i \in Index : i > Len(s) <=> i > Len(t)
      BY TreeRegular
    <2>2. Len(s) + 1 \in Index /\ Len(t) + 1 \in Index
      BY <1>1 DEF Index
    <2> QED BY <1>1, <2>1, <2>2
  <1>3. \A i \in 1..Len(s) : s[i] = t[i]
    <2> SUFFICES ASSUME NEW i \in 1..Len(s) PROVE s[i] = t[i]
      OBVIOUS
    <2>1. i \in Index /\ i <= Len(s) /\ i <= Len(t)
      BY <1>1, <1>2 DEF Index
    <2> QED BY <2>1, TreeRegular
  <1> QED BY <1>2, <1>3 DEF Day

\* A higher tree has no root of a lower one.
LEMMA RootBindsHigher ==
    ASSUME LeavesAreAtoms, NEW s, NEW t, Day(s), Day(t), MerkleRoot(s) = MerkleRoot(t),
           Height(t) <= Height(s)
    PROVE  s = t
  <1> DEFINE k == Height(t)
             d == Height(s) - k
  <1>1. /\ k \in Nat /\ d \in Nat /\ d + k = Height(s) /\ Height(s) \in Nat
        /\ OneNode(s, d + k) /\ OneNode(t, k)
    BY HeightThere DEF Day
  <1>2. Tree(s)[d + k][1] = Tree(t)[k][1]
    BY <1>1 DEF MerkleRoot
  <1> HIDE DEF k, d
  <1>3. \A i \in Index : Tree(s)[d + k][i] = Tree(t)[k][i]
    <2>1. Regular(Tree(s)[d + k]) /\ Regular(Tree(t)[k])
      BY <1>1, TreeRegular
    <2>2. \A i \in Index : i # 1 => Tree(s)[d + k][i] = NoNode /\ Tree(t)[k][i] = NoNode
      BY <1>1, <2>1, EmptyBeyond DEF OneNode
    <2> QED BY <1>2, <2>2
  <1>4. \A i \in Index : Tree(s)[d][i] = Tree(t)[0][i]
    <2>1. d \in Nat /\ k \in Nat
      BY <1>1
    <2>2. Agreeing(s, d + k, t, k)
      BY <1>3 DEF Agreeing
    <2>3. Agreeing(s, d, t, 0)
      BY <2>1, <2>2, TreesBind
    <2> QED BY <2>3 DEF Agreeing
  <1>5. CASE d = 0
    BY <1>4, <1>5, SamePlaces
  <1>6. CASE d # 0
    <2>1. d - 1 \in Nat /\ (d - 1) + 1 = d /\ d - 1 \in 0..((d + k) - 1) /\ 1 \in Index /\ 2 * 1 - 1 = 1
      BY <1>1, <1>6 DEF Index
    <2>2. Tree(s)[d - 1][2] # NoNode
      BY <1>1, <2>1 DEF OneNode
    <2>3. Regular(Tree(s)[d - 1])
      BY <2>1, TreeRegular
    <2>4. Tree(s)[d - 1][1] # NoNode
      BY <2>1, <2>2, <2>3 DEF Regular
    <2>5. Tree(s)[d] = Joined(Tree(s)[d - 1])
      BY <2>1, TreeDefined
    <2>6. Tree(s)[d][1] = Node(Tree(s)[d - 1][1], Tree(s)[d - 1][2])
      BY <2>1, <2>5, JoinedAt
    <2>7. Tree(t)[0][1] = Node(Tree(s)[d - 1][1], Tree(s)[d - 1][2])
      BY <1>4, <2>1, <2>6
    <2>8. \E x, y : Tree(t)[0][1] = hash_pair(x, y)
      BY <2>4, <2>7 DEF Node
    <2>9. Tree(t)[0][1] = NoNode \/ Tree(t)[0][1] \in Leaves
      BY <2>1, TreeRegular DEF Day
    <2> QED BY <2>8, <2>9, PairIsNode DEF LeavesAreAtoms
  <1> QED BY <1>5, <1>6

\* Two days with one root have the same events in the same order.
LEMMA SameRootSameDay ==
    ASSUME LeavesAreAtoms, NEW s, NEW t, Day(s), Day(t), MerkleRoot(s) = MerkleRoot(t)
    PROVE  s = t
  <1>1. Height(s) \in Nat /\ Height(t) \in Nat
    BY HeightThere DEF Day
  <1>2. Height(t) <= Height(s) \/ Height(s) <= Height(t)
    BY <1>1
  <1> QED BY <1>2, RootBindsHigher

-----------------------------------------------------------------------------
(* The loop.                                                                *)

Level(q) ==
    /\ Len(q) \in Nat /\ q = [i \in 1..Len(q) |-> q[i]]
    /\ \A i \in 1..Len(q) : q[i] # NoNode

\* An iteration of the loop, with the last node appended when they are odd, goes
\* one height up in the tree.
LEMMA FoldJoins ==
    ASSUME NEW q, Level(q), Len(q) > 1
    PROVE  /\ Level(NextLevel(Evened(q)))
           /\ Len(NextLevel(Evened(q))) < Len(q) /\ Len(NextLevel(Evened(q))) > 0
           /\ Places(NextLevel(Evened(q))) = Joined(Places(q))
  <1> DEFINE n == Len(q)
             e == Evened(q)
             r == NextLevel(e)
             m == (n + 1) \div 2
  <1>1. n \in Nat /\ n > 1 /\ m \in Nat /\ m > 0 /\ m < n
    BY DEF Level
  <1>2. q \in Seq({q[i] : i \in 1..n})
    BY DEF Level
  <1>3. /\ Len(e) = 2 * m
        /\ \A j \in 1..(2 * m) : e[j] = IF j <= n THEN q[j] ELSE q[n]
    <2>1. CASE n % 2 = 1
      <3>1. 2 * m = n + 1
        BY <1>1, <2>1
      <3>2. e = Append(q, q[n])
        BY <2>1 DEF Evened, DuplicateLast
      <3>3. Len(e) = n + 1 /\ e[n + 1] = q[n] /\ \A j \in 1..n : e[j] = q[j]
        BY <1>1, <1>2, <3>2
      <3>4. \A j \in 1..(n + 1) : j \in 1..n \/ (j = n + 1 /\ ~(j <= n))
        BY <1>1
      <3> HIDE DEF n, e, m
      <3> QED BY <3>1, <3>3, <3>4
    <2>2. CASE n % 2 # 1
      <3>1. 2 * m = n
        BY <1>1, <2>2
      <3>2. e = q
        BY <2>2 DEF Evened
      <3> QED BY <1>1, <3>1, <3>2
    <2> QED BY <2>1, <2>2
  <1>4. r = [i \in 1..m |-> hash_pair(e[2 * i - 1], e[2 * i])]
    <2>1. (2 * m) \div 2 = m
      BY <1>1
    <2> QED BY <1>3, <2>1 DEF NextLevel
  <1>5. Len(r) = m /\ \A i \in 1..m : r[i] = hash_pair(e[2 * i - 1], e[2 * i])
    BY <1>1, <1>4
  <1>6. Level(r)
    BY <1>1, <1>4, <1>5, PairIsNode DEF Level
  <1> HIDE DEF r, e
  <1>7. ASSUME NEW i \in Index PROVE Places(r)[i] = Joined(Places(q))[i]
    <2>0. /\ 2 * i - 1 \in Index /\ 2 * i \in Index
          /\ Joined(Places(q))[i] = Node(Places(q)[2 * i - 1], Places(q)[2 * i])
      BY JoinedAt
    <2>1. \A j \in Index : Places(q)[j] = IF j <= n THEN q[j] ELSE NoNode
      BY DEF Places, Index
    <2>2. Places(r)[i] = IF i <= m THEN r[i] ELSE NoNode
      BY <1>5 DEF Places, Index
    <2>3. CASE i <= m
      <3>1. i \in 1..m /\ 2 * i - 1 \in 1..(2 * m) /\ 2 * i \in 1..(2 * m) /\ 2 * i - 1 <= n
        BY <1>1, <2>3 DEF Index
      <3>2. Places(r)[i] = hash_pair(q[2 * i - 1], IF 2 * i <= n THEN q[2 * i] ELSE q[n])
        BY <1>3, <1>5, <2>2, <2>3, <3>1
      <3>3. Places(q)[2 * i - 1] = q[2 * i - 1] /\ q[2 * i - 1] # NoNode
        BY <1>1, <2>0, <2>1, <3>1 DEF Level, Index
      <3>4. CASE 2 * i <= n
        <4>1. Places(q)[2 * i] = q[2 * i] /\ q[2 * i] # NoNode
          BY <1>1, <2>0, <2>1, <3>4 DEF Level, Index
        <4> QED BY <2>0, <3>2, <3>3, <3>4, <4>1 DEF Node
      <3>5. CASE ~(2 * i <= n)
        <4>1. 2 * i - 1 = n
          BY <1>1, <3>1, <3>5 DEF Index
        <4>2. Places(q)[2 * i] = NoNode
          BY <2>0, <2>1, <3>5
        <4> QED BY <2>0, <3>2, <3>3, <3>5, <4>1, <4>2 DEF Node
      <3> QED BY <3>4, <3>5
    <2>4. CASE ~(i <= m)
      <3>1. ~(2 * i - 1 <= n)
        BY <1>1, <2>4 DEF Index
      <3>2. Places(q)[2 * i - 1] = NoNode
        BY <2>0, <2>1, <3>1
      <3> QED BY <2>0, <2>2, <2>4, <3>2 DEF Node
    <2> QED BY <2>3, <2>4
  <1>8. Places(r) = Joined(Places(q))
    BY <1>7 DEF Places, Joined, Index
  <1> QED BY <1>1, <1>5, <1>6, <1>8 DEF r, e

\* After k iterations the loop holds the nodes at height k.
AtHeight(k) ==
    /\ Tree(leaves)[k] = Places(level)
    /\ \A j \in 0..(k - 1) : Tree(leaves)[j][2] # NoNode
    /\ leaves # <<>> => level # <<>> /\ Len(level) > 0 /\ k + Len(level) <= Len(leaves)

LoopInv ==
    /\ leaves \in Seq(Leaves) /\ Level(level)
    /\ leaves = <<>> => Len(level) = 0
    /\ \E k \in Nat : AtHeight(k)
    /\ root # <<>> => root[1] = MerkleRoot(leaves)

LEMMA LoopInitially == LeavesAreAtoms /\ Init => LoopInv
  <1> SUFFICES ASSUME LeavesAreAtoms, Init PROVE LoopInv
    OBVIOUS
  <1>1. leaves \in Seq(Leaves) /\ level = leaves /\ root = <<>>
    BY DEF Init
  <1>2. Len(leaves) \in Nat /\ \A i \in 1..Len(leaves) : leaves[i] \in Leaves
    BY <1>1
  <1>3. Level(level)
    BY <1>1, <1>2 DEF Level, LeavesAreAtoms, NoNode
  <1>4. AtHeight(0)
    BY <1>1, <1>2, TreeDefined DEF AtHeight
  <1> QED BY <1>1, <1>3, <1>4 DEF LoopInv

LEMMA LoopStep ==
    ASSUME LoopInv, [Next]_vars
    PROVE  LoopInv'
  <1>1. CASE EmptyDay
    <2>1. /\ leaves = <<>> /\ root' = <<EMPTY_DAY_ROOT>>
          /\ leaves' = leaves /\ level' = level
      BY <1>1 DEF EmptyDay
    <2>2. Len(leaves) = 0 /\ Tree(leaves)[0] = Places(leaves)
      BY <2>1, TreeDefined
    <2>3. Places(leaves)[1] = NoNode /\ Places(leaves)[2] = NoNode
      BY <2>2 DEF Places
    <2>4. Height(leaves) = 0
      BY <2>2, <2>3, HeightIs DEF OneNode
    <2>5. root'[1] = MerkleRoot(leaves')
      BY <2>1, <2>2, <2>3, <2>4 DEF MerkleRoot, NoNode
    <2> QED BY <2>1, <2>5 DEF LoopInv, AtHeight
  <1>2. CASE Fold
    <2>1. /\ Len(level) > 1 /\ level' = NextLevel(Evened(level))
          /\ leaves' = leaves /\ root' = root /\ leaves # <<>>
      BY <1>2 DEF Fold, LoopInv
    <2>2. PICK k \in Nat : AtHeight(k)
      BY DEF LoopInv
    <2>3. /\ Level(level') /\ Len(level') < Len(level) /\ Len(level') > 0
          /\ Places(level') = Joined(Places(level))
      BY <2>1, FoldJoins DEF LoopInv
    <2>4. Tree(leaves)[k + 1] = Places(level')
      BY <2>2, <2>3, TreeDefined DEF AtHeight
    <2>5. Tree(leaves)[k][2] # NoNode
      <3>1. 2 \in 1..Len(level) /\ Places(level)[2] = level[2]
        BY <2>1 DEF Places, LoopInv, Level
      <3> QED BY <2>2, <3>1 DEF AtHeight, LoopInv, Level
    <2>6. \A j \in 0..((k + 1) - 1) : Tree(leaves)[j][2] # NoNode
      BY <2>2, <2>5 DEF AtHeight
    <2>7. level' # <<>> /\ (k + 1) + Len(level') <= Len(leaves)
      <3>1. Len(level) \in Nat /\ Len(level') \in Nat /\ Len(leaves) \in Nat
        BY <2>3 DEF LoopInv, Level
      <3> QED BY <2>1, <2>2, <2>3, <3>1 DEF AtHeight
    <2>8. AtHeight(k + 1)'
      BY <2>1, <2>3, <2>4, <2>6, <2>7 DEF AtHeight
    <2> QED BY <2>1, <2>3, <2>8 DEF LoopInv
  <1>3. CASE Return
    <2>1. Len(level) = 1 /\ root' = level /\ leaves' = leaves /\ level' = level /\ leaves # <<>>
      BY <1>3 DEF Return, LoopInv
    <2>2. PICK k \in Nat : AtHeight(k)
      BY DEF LoopInv
    <2>3. Places(level)[1] = level[1] /\ Places(level)[2] = NoNode
      BY <2>1 DEF Places
    <2>4. Height(leaves) = k
      <3>1. k \in 0..Len(leaves) /\ Len(leaves) \in Nat
        BY <2>1, <2>2 DEF AtHeight, LoopInv
      <3> QED BY <2>2, <2>3, <3>1, HeightIs DEF AtHeight, OneNode
    <2>5. root'[1] = MerkleRoot(leaves')
      BY <2>1, <2>2, <2>3, <2>4 DEF MerkleRoot, AtHeight
    <2> QED BY <2>1, <2>5 DEF LoopInv, AtHeight
  <1>4. CASE UNCHANGED vars
    BY <1>4 DEF vars, LoopInv, AtHeight
  <1> QED BY <1>1, <1>2, <1>3, <1>4 DEF Next

\* merkle_root returns the root of the tree for a day of any number of events; and
\* two days whose events differ, in number, in content or in order, have different
\* roots, though an odd last node is duplicated.
THEOREM RootsBind == ASSUME LeavesAreAtoms PROVE Spec => []RootBinds
  <1>1. LoopInv => RootBinds
    <2> SUFFICES ASSUME LoopInv, root # <<>>, Distinct(leaves),
                        NEW n \in 0..MaxLeaves, NEW s \in [1..n -> Leaves],
                        Distinct(s), MerkleRoot(s) = root[1]
                 PROVE  s = leaves
      BY DEF RootBinds, LoopInv
    <2>1. s \in Seq(Leaves)
      OBVIOUS
    <2> QED BY <2>1, SameRootSameDay DEF LoopInv, Day
  <1> QED BY <1>1, LoopInitially, LoopStep, PTL DEF Spec
=============================================================================
