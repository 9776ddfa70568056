--------------------------- MODULE WithheldProofs ---------------------------
(***************************************************************************)
(* Proofs about Merkle and Withheld, for any number of withheld files and  *)
(* any position in the tree.                                               *)
(*                                                                         *)
(* The levels of the tree, the walk of merkle_proof and the climb of       *)
(* verify_merkle_proof are recursive functions: that each is defined is    *)
(* shown first, then what it returns, by NatSetInduction.                  *)
(***************************************************************************)
EXTENDS Withheld, Induction, FiniteSetTheorems

-----------------------------------------------------------------------------
(* The recursions. *)

\* What LevelUp makes of the leaves, level by level.
LEMMA TreeLevels ==
    ASSUME NEW leaves
    PROVE  /\ Tree(leaves)[0] = leaves
           /\ \A k \in Nat : Tree(leaves)[k + 1] = LevelUp(Tree(leaves)[k])
<1> DEFINE IsPart(f, n) ==
              f = [k \in 0 .. n |-> IF k = 0 THEN leaves ELSE LevelUp(f[k - 1])]
           S == {n \in Nat : \E f : IsPart(f, n)}
           part(n) == CHOOSE f : IsPart(f, n)
           whole == [n \in Nat |-> part(n)[n]]
<1>1. ASSUME NEW n \in Nat, NEW f, IsPart(f, n)
      PROVE  /\ f[0] = leaves
             /\ \A k \in 0 .. n - 1 : f[k + 1] = LevelUp(f[k])
  BY <1>1
<1>2. 0 \in S
  <2>1. IsPart([k \in 0 .. 0 |-> leaves], 0)
    OBVIOUS
  <2>. QED BY <2>1
<1>3. ASSUME NEW n \in S PROVE n + 1 \in S
  <2>1. PICK f : IsPart(f, n)
    BY <1>3
  <2> DEFINE g == [k \in 0 .. n + 1 |-> IF k = n + 1 THEN LevelUp(f[n]) ELSE f[k]]
  <2>2. IsPart(g, n + 1)
    <3>1. ASSUME NEW k \in 0 .. n + 1
          PROVE  g[k] = IF k = 0 THEN leaves ELSE LevelUp(g[k - 1])
      BY <1>1, <2>1
    <3>. QED BY <3>1
  <2> HIDE DEF g
  <2>3. \E h : IsPart(h, n + 1)
    BY <2>2
  <2>. QED BY <1>3, <2>3
<1>4. S = Nat
  BY <1>2, <1>3, NatSetInduction
<1>5. ASSUME NEW n \in Nat PROVE IsPart(part(n), n)
  BY <1>4
<1> HIDE DEF part
<1>6. ASSUME NEW n \in Nat
      PROVE  \A k \in Nat : k <= n => part(n + 1)[k] = part(n)[k]
  <2> DEFINE A == {k \in Nat : k <= n => part(n + 1)[k] = part(n)[k]}
  <2>1. 0 \in A
    BY <1>1, <1>5
  <2>2. ASSUME NEW k \in A PROVE k + 1 \in A
    BY <1>1, <1>5
  <2>. QED BY <2>1, <2>2, NatSetInduction
<1>7. whole[0] = leaves /\ \A n \in Nat : whole[n + 1] = LevelUp(whole[n])
  BY <1>1, <1>5, <1>6
<1>8. whole = [k \in Nat |-> IF k = 0 THEN leaves ELSE LevelUp(whole[k - 1])]
  BY <1>7
<1> HIDE DEF whole
<1>9. Tree(leaves) = [k \in Nat |-> IF k = 0 THEN leaves ELSE LevelUp(Tree(leaves)[k - 1])]
  BY <1>8 DEF Tree
<1>. QED BY <1>9
-----------------------------------------------------------------------------
\* One turn of the loop of merkle_proof.
WalkUp(leaves, below, k) ==
    [index |-> below.index \div 2,
     proof |-> below.proof \o ProofStep(Tree(leaves)[k - 1], below.index)]

LEMMA WalkLevels ==
    ASSUME NEW leaves, NEW index
    PROVE  /\ Walk(leaves, index)[0] = [index |-> index, proof |-> <<>>]
           /\ \A k \in Nat : Walk(leaves, index)[k + 1] =
                              WalkUp(leaves, Walk(leaves, index)[k], k + 1)
<1> DEFINE start == [index |-> index, proof |-> <<>>]
           IsPart(f, n) ==
              f = [k \in 0 .. n |-> IF k = 0 THEN start ELSE WalkUp(leaves, f[k - 1], k)]
           S == {n \in Nat : \E f : IsPart(f, n)}
           part(n) == CHOOSE f : IsPart(f, n)
           whole == [n \in Nat |-> part(n)[n]]
<1> HIDE DEF start
<1>1. ASSUME NEW n \in Nat, NEW f, IsPart(f, n)
      PROVE  /\ f[0] = start
             /\ \A k \in 0 .. n - 1 : f[k + 1] = WalkUp(leaves, f[k], k + 1)
  BY <1>1
<1>2. 0 \in S
  <2>1. IsPart([k \in 0 .. 0 |-> start], 0)
    OBVIOUS
  <2>. QED BY <2>1
<1>3. ASSUME NEW n \in S PROVE n + 1 \in S
  <2>1. PICK f : IsPart(f, n)
    BY <1>3
  <2> DEFINE g == [k \in 0 .. n + 1 |-> IF k = n + 1 THEN WalkUp(leaves, f[n], n + 1) ELSE f[k]]
  <2>2. IsPart(g, n + 1)
    <3>1. ASSUME NEW k \in 0 .. n + 1
          PROVE  g[k] = IF k = 0 THEN start ELSE WalkUp(leaves, g[k - 1], k)
      BY <1>1, <2>1
    <3>. QED BY <3>1
  <2> HIDE DEF g
  <2>3. \E h : IsPart(h, n + 1)
    BY <2>2
  <2>. QED BY <1>3, <2>3
<1>4. S = Nat
  BY <1>2, <1>3, NatSetInduction
<1>5. ASSUME NEW n \in Nat PROVE IsPart(part(n), n)
  BY <1>4
<1> HIDE DEF part
<1>6. ASSUME NEW n \in Nat
      PROVE  \A k \in Nat : k <= n => part(n + 1)[k] = part(n)[k]
  <2> DEFINE A == {k \in Nat : k <= n => part(n + 1)[k] = part(n)[k]}
  <2>1. 0 \in A
    BY <1>1, <1>5
  <2>2. ASSUME NEW k \in A PROVE k + 1 \in A
    BY <1>1, <1>5
  <2>. QED BY <2>1, <2>2, NatSetInduction
<1>7. whole[0] = start /\ \A n \in Nat : whole[n + 1] = WalkUp(leaves, whole[n], n + 1)
  BY <1>1, <1>5, <1>6
<1>8. whole = [k \in Nat |-> IF k = 0 THEN start ELSE WalkUp(leaves, whole[k - 1], k)]
  BY <1>7
<1> HIDE DEF whole
<1>9. Walk(leaves, index) =
        [k \in Nat |-> IF k = 0 THEN start ELSE
                      WalkUp(leaves, Walk(leaves, index)[k - 1], k)]
  BY <1>8 DEF Walk, WalkUp, start
<1>. QED BY <1>9 DEF start
-----------------------------------------------------------------------------
\* One turn of that of verify_merkle_proof.
ClimbUp(current, step) ==
    IF step.side = "left" THEN Parent(step.hash, current) ELSE Parent(current, step.hash)

LEMMA ClimbSteps ==
    ASSUME NEW leaf, NEW proof
    PROVE  /\ Climb(leaf, proof)[0] = leaf
           /\ \A k \in Nat : Climb(leaf, proof)[k + 1] =
                              ClimbUp(Climb(leaf, proof)[k], proof[k + 1])
<1> DEFINE IsPart(f, n) ==
              f = [k \in 0 .. n |-> IF k = 0 THEN leaf ELSE ClimbUp(f[k - 1], proof[k])]
           S == {n \in Nat : \E f : IsPart(f, n)}
           part(n) == CHOOSE f : IsPart(f, n)
           whole == [n \in Nat |-> part(n)[n]]
<1>1. ASSUME NEW n \in Nat, NEW f, IsPart(f, n)
      PROVE  /\ f[0] = leaf
             /\ \A k \in 0 .. n - 1 : f[k + 1] = ClimbUp(f[k], proof[k + 1])
  BY <1>1
<1>2. 0 \in S
  <2>1. IsPart([k \in 0 .. 0 |-> leaf], 0)
    OBVIOUS
  <2>. QED BY <2>1
<1>3. ASSUME NEW n \in S PROVE n + 1 \in S
  <2>1. PICK f : IsPart(f, n)
    BY <1>3
  <2> DEFINE g == [k \in 0 .. n + 1 |-> IF k = n + 1 THEN ClimbUp(f[n], proof[n + 1]) ELSE f[k]]
  <2>2. IsPart(g, n + 1)
    <3>1. ASSUME NEW k \in 0 .. n + 1
          PROVE  g[k] = IF k = 0 THEN leaf ELSE ClimbUp(g[k - 1], proof[k])
      BY <1>1, <2>1
    <3>. QED BY <3>1
  <2> HIDE DEF g
  <2>3. \E h : IsPart(h, n + 1)
    BY <2>2
  <2>. QED BY <1>3, <2>3
<1>4. S = Nat
  BY <1>2, <1>3, NatSetInduction
<1>5. ASSUME NEW n \in Nat PROVE IsPart(part(n), n)
  BY <1>4
<1> HIDE DEF part
<1>6. ASSUME NEW n \in Nat
      PROVE  \A k \in Nat : k <= n => part(n + 1)[k] = part(n)[k]
  <2> DEFINE A == {k \in Nat : k <= n => part(n + 1)[k] = part(n)[k]}
  <2>1. 0 \in A
    BY <1>1, <1>5
  <2>2. ASSUME NEW k \in A PROVE k + 1 \in A
    BY <1>1, <1>5
  <2>. QED BY <2>1, <2>2, NatSetInduction
<1>7. whole[0] = leaf /\ \A n \in Nat : whole[n + 1] = ClimbUp(whole[n], proof[n + 1])
  BY <1>1, <1>5, <1>6
<1>8. whole = [k \in Nat |-> IF k = 0 THEN leaf ELSE ClimbUp(whole[k - 1], proof[k])]
  BY <1>7
<1> HIDE DEF whole
<1>9. Climb(leaf, proof) =
        [k \in Nat |-> IF k = 0 THEN leaf ELSE ClimbUp(Climb(leaf, proof)[k - 1], proof[k])]
  BY <1>8 DEF Climb, ClimbUp
<1>. QED BY <1>9
(* Levels of the tree. *)

IsList(f) == \E n \in Nat : f = [i \in 1 .. n |-> f[i]]

LEMMA ListLen ==
    ASSUME NEW f, IsList(f)
    PROVE  /\ Len(f) \in Nat /\ DOMAIN f = 1 .. Len(f)
           /\ f = [i \in 1 .. Len(f) |-> f[i]]
<1>1. PICK n \in Nat : f = [i \in 1 .. n |-> f[i]]
  BY DEF IsList
<1> DEFINE T == {f[i] : i \in 1 .. n}
<1>2. f \in [1 .. n -> T]
  BY <1>1
<1> HIDE DEF T
<1>3. f \in Seq(T)
  BY <1>2
<1>. QED BY <1>1, <1>2, <1>3

LEMMA ListOf ==
    ASSUME NEW n \in Nat, NEW f, DOMAIN f = 1 .. n, f = [i \in DOMAIN f |-> f[i]]
    PROVE  IsList(f) /\ Len(f) = n
<1>1. f = [i \in 1 .. n |-> f[i]]
  OBVIOUS
<1>2. IsList(f)
  BY <1>1 DEF IsList
<1>. QED BY <1>2, ListLen

LEMMA NoList == IsList(<<>>) /\ Len(<<>>) = 0
<1>1. <<>> \in Seq({}) /\ Len(<<>>) = 0
  OBVIOUS
<1>2. <<>> \in [1 .. 0 -> {}]
  BY <1>1
<1>. QED BY <1>1, <1>2 DEF IsList

\* How long the level above another is, and what it holds.
Above(level, next) ==
    /\ 2 * Len(next) \in {Len(level), Len(level) + 1}
    /\ \A i \in 1 .. Len(next) :
          /\ 2 * i <= Len(level) => next[i] = Parent(level[2 * i - 1], level[2 * i])
          /\ 2 * i > Len(level) => next[i] = level[2 * i - 1]

LEMMA LevelUpNodes ==
    ASSUME NEW level, IsList(level)
    PROVE  /\ IsList(LevelUp(level)) /\ Len(LevelUp(level)) \in Nat
           /\ Above(level, LevelUp(level))
<1> DEFINE next == LevelUp(level)
           n == (Len(level) + 1) \div 2
<1>1. Len(level) \in Nat
  BY ListLen
<1>2. n \in Nat /\ 2 * n \in {Len(level), Len(level) + 1}
  BY <1>1
<1>3. next = [i \in 1 .. n |->
                 IF 2 * i <= Len(level) THEN Parent(level[2 * i - 1], level[2 * i])
                 ELSE level[2 * i - 1]]
  BY DEF LevelUp
<1> HIDE DEF n, next
<1>4. IsList(next) /\ Len(next) = n
  BY <1>2, <1>3, ListOf
<1>. QED BY <1>1, <1>2, <1>3, <1>4 DEF next, Above

\* The levels of a tree, each with the nodes of the one below.
IsTree(tree) ==
    \A k \in Nat : /\ IsList(tree[k]) /\ Len(tree[k]) \in Nat /\ Len(tree[k]) > 0
                   /\ Above(tree[k], tree[k + 1])

LEMMA TreeNodes ==
    ASSUME NEW leaves, IsList(leaves), Len(leaves) > 0
    PROVE  IsTree(Tree(leaves))
<1> DEFINE tree == Tree(leaves)
           S == {k \in Nat : IsList(tree[k]) /\ Len(tree[k]) > 0}
<1> HIDE DEF tree
<1>1. tree[0] = leaves /\ \A k \in Nat : tree[k + 1] = LevelUp(tree[k])
  BY TreeLevels DEF tree
<1>2. 0 \in S
  BY <1>1
<1>3. ASSUME NEW k \in S PROVE k + 1 \in S
  <2>1. tree[k + 1] = LevelUp(tree[k])
    BY <1>1
  <2>2. IsList(tree[k + 1]) /\ Len(tree[k + 1]) \in Nat
          /\ 2 * Len(tree[k + 1]) \in {Len(tree[k]), Len(tree[k]) + 1}
    BY <2>1, LevelUpNodes DEF Above
  <2>. QED BY <2>2, ListLen
<1>4. S = Nat
  BY <1>2, <1>3, NatSetInduction
<1>5. ASSUME NEW k \in Nat
      PROVE  /\ IsList(tree[k]) /\ Len(tree[k]) \in Nat /\ Len(tree[k]) > 0
             /\ tree[k + 1] = LevelUp(tree[k])
  BY <1>1, <1>4, ListLen
<1>6. IsTree(tree)
  BY <1>5, LevelUpNodes DEF IsTree
<1>. QED BY <1>6 DEF tree

\* One node and what is below it.
LEMMA NodeOf ==
    ASSUME NEW tree, IsTree(tree), NEW k \in Nat, NEW i \in 1 .. Len(tree[k + 1])
    PROVE  /\ Len(tree[k]) \in Nat /\ Len(tree[k + 1]) \in Nat
           /\ 2 * i - 1 \in 1 .. Len(tree[k])
           /\ 2 * i <= Len(tree[k]) =>
                 /\ 2 * i \in 1 .. Len(tree[k])
                 /\ tree[k + 1][i] = Parent(tree[k][2 * i - 1], tree[k][2 * i])
           /\ 2 * i > Len(tree[k]) => tree[k + 1][i] = tree[k][2 * i - 1]
           /\ i < Len(tree[k + 1]) => 2 * i <= Len(tree[k]) /\ 2 * i - 1 < Len(tree[k])
<1>1. k + 1 \in Nat
  OBVIOUS
<1>2. Len(tree[k]) \in Nat /\ Len(tree[k + 1]) \in Nat
  BY <1>1 DEF IsTree
<1>3. 2 * Len(tree[k + 1]) = Len(tree[k]) \/ 2 * Len(tree[k + 1]) = Len(tree[k]) + 1
  BY DEF IsTree, Above
<1>4. /\ 2 * i <= Len(tree[k]) =>
            tree[k + 1][i] = Parent(tree[k][2 * i - 1], tree[k][2 * i])
      /\ 2 * i > Len(tree[k]) => tree[k + 1][i] = tree[k][2 * i - 1]
  BY DEF IsTree, Above
<1>. QED BY <1>2, <1>3, <1>4

\* Halving ends with one node, and before it there are more.
LEMMA HeightIs ==
    ASSUME NEW leaves, IsList(leaves), Len(leaves) > 0
    PROVE  /\ Height(leaves) \in Nat
           /\ Len(Tree(leaves)[Height(leaves)]) = 1
           /\ \A g \in 0 .. Height(leaves) - 1 : Len(Tree(leaves)[g]) > 1
<1> DEFINE tree == Tree(leaves)
           n == Len(leaves)
           len(k) == Len(tree[k])
           S == {k \in Nat : len(k) = 1 \/ len(k) + k <= n}
<1>1. n \in Nat /\ tree[0] = leaves
  BY ListLen, TreeLevels
<1>2. ASSUME NEW k \in Nat
      PROVE  len(k) \in Nat /\ len(k) > 0 /\ 2 * len(k + 1) \in {len(k), len(k) + 1}
  BY TreeNodes DEF IsTree, Above
<1>3. len(0) = n
  BY <1>1
<1> HIDE DEF len, n
<1>4. 0 \in S
  BY <1>1, <1>3
<1>5. ASSUME NEW k \in S PROVE k + 1 \in S
  <2>1. k \in Nat /\ k + 1 \in Nat
    OBVIOUS
  <2>2. len(k) \in Nat /\ len(k) > 0 /\ len(k + 1) \in Nat /\ len(k + 1) > 0
          /\ (2 * len(k + 1) = len(k) \/ 2 * len(k + 1) = len(k) + 1)
    BY <1>2, <2>1
  <2>. QED BY <1>1, <2>1, <2>2
<1>6. S = Nat
  BY <1>4, <1>5, NatSetInduction
<1>7. len(n) = 1
  <2>1. len(n) = 1 \/ len(n) + n <= n
    BY <1>1, <1>6
  <2>2. len(n) \in Nat /\ len(n) > 0
    BY <1>1, <1>2
  <2>. QED BY <1>1, <2>1, <2>2
<1> DEFINE low == {k \in 0 .. n : len(k) <= 1}
<1>8. PICK h \in low : \A k \in low : h <= k
  <2>1. low \in SUBSET Nat
    BY <1>1
  <2>2. n \in low
    BY <1>1, <1>7
  <2>. QED BY <2>1, <2>2, LeastNumber
<1>9. h \in 0 .. n /\ len(h) <= 1 /\ \A g \in 0 .. h - 1 : len(g) > 1
  BY <1>1, <1>2, <1>8
<1>10. Height(leaves) =
         CHOOSE k \in 0 .. n : len(k) <= 1 /\ \A g \in 0 .. k - 1 : len(g) > 1
  BY DEF Height, len, n
<1>11. /\ Height(leaves) \in 0 .. n /\ len(Height(leaves)) <= 1
       /\ \A g \in 0 .. Height(leaves) - 1 : len(g) > 1
  BY <1>9, <1>10
<1>12. Height(leaves) \in Nat /\ len(Height(leaves)) = 1
  BY <1>1, <1>2, <1>11
<1>. QED BY <1>11, <1>12 DEF len
-----------------------------------------------------------------------------
(* What a proof shows. *)

\* No leaf is a node.
LeafList(leaves) == IsList(leaves) /\ \A i \in 1 .. Len(leaves) : leaves[i][1] = "leaf"

LEMMA ParentIs ==
    ASSUME NEW a, NEW b
    PROVE  /\ Parent(a, b)[1] = "node"
           /\ \A x, y : Parent(a, b) = Parent(x, y) => a = x /\ b = y
BY DEF Parent

\* Whatever climbs to the root of a list of leaves, by any proof, is one of them.
THEOREM ProofSound ==
    ASSUME NEW leaves, LeafList(leaves), Len(leaves) > 0, NEW leaf, leaf[1] = "leaf",
           NEW proof, Len(proof) \in Nat, VerifyProof(leaf, proof, MerkleRoot(leaves))
    PROVE  \E i \in 1 .. Len(leaves) : leaf = leaves[i]
<1> DEFINE tree == Tree(leaves)
           at == Climb(leaf, proof)
           IsLeaf == \E i \in 1 .. Len(leaves) : leaf = leaves[i]
           S == {k \in Nat :
                    \A n \in Nat, i \in 1 .. Len(tree[k]) : at[n] = tree[k][i] => IsLeaf}
<1>1. tree[0] = leaves
  BY TreeLevels
<1>2. at[0] = leaf /\ \A n \in Nat : at[n + 1] = ClimbUp(at[n], proof[n + 1])
  BY ClimbSteps
<1>3. IsTree(tree)
  BY TreeNodes DEF LeafList
<1> HIDE DEF tree, at
<1>4. ASSUME NEW n \in Nat, n # 0
      PROVE  /\ n - 1 \in Nat /\ at[n][1] = "node"
             /\ \E x : at[n] = Parent(x, at[n - 1]) \/ at[n] = Parent(at[n - 1], x)
  <2>1. PICK m \in Nat : n = m + 1
    <3>1. n - 1 \in Nat /\ n = (n - 1) + 1
      BY <1>4
    <3>. QED BY <3>1
  <2>2. at[n] = ClimbUp(at[m], proof[n])
    BY <1>2, <2>1
  <2>3. n - 1 = m
    BY <2>1
  <2>4. at[n] = Parent(proof[n].hash, at[m]) \/ at[n] = Parent(at[m], proof[n].hash)
    BY <2>2 DEF ClimbUp
  <2>. QED BY <2>3, <2>4, ParentIs
<1>5. 0 \in S
  <2>1. ASSUME NEW n \in Nat, NEW i \in 1 .. Len(leaves), at[n] = leaves[i] PROVE IsLeaf
    <3>1. at[n][1] = "leaf"
      BY <2>1 DEF LeafList
    <3>2. n = 0
      BY <1>4, <3>1
    <3>. QED BY <1>2, <2>1, <3>2
  <2> HIDE DEF IsLeaf
  <2>. QED BY <1>1, <2>1
<1>6. ASSUME NEW k \in S PROVE k + 1 \in S
  <2>0. k \in Nat /\ \A n \in Nat, i \in 1 .. Len(tree[k]) : at[n] = tree[k][i] => IsLeaf
    BY <1>6
  <2> HIDE DEF IsLeaf
  <2>1. ASSUME NEW n \in Nat, NEW i \in 1 .. Len(tree[k + 1]), at[n] = tree[k + 1][i]
        PROVE  IsLeaf
    <3>1. CASE 2 * i > Len(tree[k])
      <4>1. 2 * i - 1 \in 1 .. Len(tree[k]) /\ at[n] = tree[k][2 * i - 1]
        BY <1>3, <2>0, <2>1, <3>1, NodeOf
      <4>. QED BY <2>0, <4>1
    <3>2. CASE 2 * i <= Len(tree[k])
      <4>1. /\ at[n] = Parent(tree[k][2 * i - 1], tree[k][2 * i])
            /\ 2 * i \in 1 .. Len(tree[k]) /\ 2 * i - 1 \in 1 .. Len(tree[k])
        BY <1>3, <2>0, <2>1, <3>2, NodeOf
      <4>2. n # 0
        <5>1. at[n][1] = "node"
          BY <4>1, ParentIs
        <5>. QED BY <1>2, <5>1
      <4>3. PICK x : at[n] = Parent(x, at[n - 1]) \/ at[n] = Parent(at[n - 1], x)
        BY <1>4, <4>2
      <4>4. at[n - 1] = tree[k][2 * i] \/ at[n - 1] = tree[k][2 * i - 1]
        BY <4>1, <4>3, ParentIs
      <4>5. n - 1 \in Nat
        BY <1>4, <4>2
      <4>. QED BY <2>0, <4>1, <4>4, <4>5
    <3>3. Len(tree[k]) \in Nat
      BY <1>3, <2>0 DEF IsTree
    <3>. QED BY <3>1, <3>2, <3>3
  <2>. QED BY <2>0, <2>1
<1>7. S = Nat
  BY <1>5, <1>6, NatSetInduction
<1>8. leaves # <<>>
  BY DEF LeafList
<1>9. at[Len(proof)] = tree[Height(leaves)][1] /\ Len(tree[Height(leaves)]) = 1
        /\ Height(leaves) \in Nat
  BY <1>8, HeightIs DEF VerifyProof, MerkleRoot, LeafList, tree, at
<1> HIDE DEF IsLeaf
<1>10. IsLeaf
  BY <1>7, <1>9
<1>. QED BY <1>10 DEF IsLeaf

\* A climb only depends on the steps it has taken.
LEMMA ClimbPrefix ==
    ASSUME NEW leaf, NEW proof, NEW more, NEW n \in Nat, \A k \in 1 .. n : more[k] = proof[k]
    PROVE  Climb(leaf, more)[n] = Climb(leaf, proof)[n]
<1> DEFINE S == {k \in Nat : k <= n => Climb(leaf, more)[k] = Climb(leaf, proof)[k]}
<1>1. 0 \in S
  BY ClimbSteps
<1>2. ASSUME NEW k \in S PROVE k + 1 \in S
  <2>1. k \in Nat /\ k + 1 \in Nat
    OBVIOUS
  <2>2. ASSUME k + 1 <= n
        PROVE  Climb(leaf, more)[k + 1] = Climb(leaf, proof)[k + 1]
    <3>1. Climb(leaf, more)[k] = Climb(leaf, proof)[k] /\ more[k + 1] = proof[k + 1]
      BY <2>1, <2>2
    <3>2. /\ Climb(leaf, more)[k + 1] = ClimbUp(Climb(leaf, more)[k], more[k + 1])
          /\ Climb(leaf, proof)[k + 1] = ClimbUp(Climb(leaf, proof)[k], proof[k + 1])
      BY <2>1, ClimbSteps
    <3>. QED BY <3>1, <3>2
  <2>. QED BY <2>1, <2>2
<1>3. S = Nat
  BY <1>1, <1>2, NatSetInduction
<1>. QED BY <1>3

LEMMA ClimbAppend ==
    ASSUME NEW leaf, NEW proof, IsList(proof), NEW step
    PROVE  LET more == proof \o <<step>> IN
           /\ IsList(more)
           /\ Climb(leaf, more)[Len(more)] = ClimbUp(Climb(leaf, proof)[Len(proof)], step)
<1> DEFINE more == proof \o <<step>>
           n == Len(proof)
           T == {proof[i] : i \in 1 .. n} \cup {step}
<1>1. n \in Nat /\ DOMAIN proof = 1 .. n /\ proof = [i \in 1 .. n |-> proof[i]]
  BY ListLen
<1>2. proof \in Seq(T) /\ <<step>> \in Seq(T)
  <2>1. proof \in [1 .. n -> T]
    BY <1>1
  <2> HIDE DEF n
  <2>2. step \in T
    OBVIOUS
  <2> HIDE DEF T
  <2>. QED BY <1>1, <2>1, <2>2
<1> HIDE DEF T
<1>3. /\ more \in Seq(T) /\ Len(more) = n + 1 /\ more[n + 1] = step
      /\ \A i \in 1 .. n : more[i] = proof[i]
  BY <1>2
<1>4. IsList(more)
  BY <1>1, <1>3 DEF IsList
<1> HIDE DEF more, n
<1>5. Climb(leaf, more)[n] = Climb(leaf, proof)[n]
  <2>1. n \in Nat /\ \A k \in 1 .. n : more[k] = proof[k]
    BY <1>1, <1>3
  <2>. QED BY ONLY <2>1, ClimbPrefix
<1>6. Climb(leaf, more)[n + 1] = ClimbUp(Climb(leaf, more)[n], more[n + 1])
  BY <1>1, ClimbSteps
<1>7. Climb(leaf, more)[Len(more)] = ClimbUp(Climb(leaf, proof)[n], step)
  BY <1>3, <1>5, <1>6
<1>. QED BY <1>4, <1>7 DEF more, n

\* Where a node goes on the next level, and with what beside it.
LEMMA NodeUp ==
    ASSUME NEW level, NEW next, Above(level, next), Len(level) \in Nat, Len(next) \in Nat,
           NEW i \in 0 .. Len(level) - 1
    PROVE  /\ i \div 2 \in 0 .. Len(next) - 1
           /\ next[i \div 2 + 1] =
                 IF i % 2 = 1 THEN Parent(level[i], level[i + 1])
                 ELSE IF i + 1 < Len(level) THEN Parent(level[i + 1], level[i + 2])
                 ELSE level[i + 1]
<1> DEFINE j == i \div 2 + 1
<1>1. j \in Nat /\ (i % 2 = 1 => 2 * j = i + 1) /\ (i % 2 # 1 => 2 * j = i + 2)
  OBVIOUS
<1>2. 2 * Len(next) = Len(level) \/ 2 * Len(next) = Len(level) + 1
  BY DEF Above
<1> HIDE DEF j
<1>3. j \in 1 .. Len(next)
  BY <1>1, <1>2
<1>4. /\ 2 * j <= Len(level) => next[j] = Parent(level[2 * j - 1], level[2 * j])
      /\ 2 * j > Len(level) => next[j] = level[2 * j - 1]
  BY <1>3 DEF Above
<1>5. CASE i % 2 = 1
  BY <1>1, <1>3, <1>4, <1>5 DEF j
<1>6. CASE i % 2 # 1
  BY <1>1, <1>3, <1>4, <1>6 DEF j
<1>. QED BY <1>5, <1>6

\* The proof that is made for a leaf climbs to the root, from every position.
THEOREM ProofComplete ==
    ASSUME NEW leaves, IsList(leaves), NEW index \in 0 .. Len(leaves) - 1
    PROVE  /\ IsList(MerkleProof(leaves, index))
           /\ VerifyProof(leaves[index + 1], MerkleProof(leaves, index), MerkleRoot(leaves))
<1> DEFINE tree == Tree(leaves)
           walk == Walk(leaves, index)
           leaf == leaves[index + 1]
           Reached(proof) == Climb(leaf, proof)[Len(proof)]
           S == {k \in Nat : /\ walk[k].index \in 0 .. Len(tree[k]) - 1
                             /\ IsList(walk[k].proof)
                             /\ Reached(walk[k].proof) = tree[k][walk[k].index + 1]}
<1>1. Len(leaves) \in Nat /\ Len(leaves) > 0
  BY ListLen
<1>2. tree[0] = leaves /\ IsTree(tree)
  BY <1>1, TreeLevels, TreeNodes
<1>3. walk[0] = [index |-> index, proof |-> <<>>]
        /\ \A k \in Nat : walk[k + 1] = WalkUp(leaves, walk[k], k + 1)
  BY WalkLevels
<1>4. ASSUME NEW k \in Nat
      PROVE  /\ walk[k + 1].index = walk[k].index \div 2
             /\ walk[k + 1].proof = walk[k].proof \o ProofStep(tree[k], walk[k].index)
  <2>1. (k + 1) - 1 = k
    OBVIOUS
  <2>2. walk[k + 1] = WalkUp(leaves, walk[k], k + 1)
    BY <1>3
  <2> HIDE DEF walk
  <2> DEFINE i == walk[k].index \div 2
             proof == walk[k].proof \o ProofStep(tree[k], walk[k].index)
  <2>3. walk[k + 1] = [index |-> i, proof |-> proof]
    BY <2>1, <2>2 DEF WalkUp
  <2> HIDE DEF i, proof
  <2>4. walk[k + 1].index = i /\ walk[k + 1].proof = proof
    BY <2>3
  <2>. QED BY <2>4 DEF i, proof
<1> HIDE DEF tree, walk
<1>5. 0 \in S
  <2>1. IsList(<<>>) /\ Len(<<>>) = 0
    BY NoList
  <2>2. Climb(leaf, <<>>)[0] = leaf
    BY ClimbSteps
  <2>3. walk[0].index = index /\ walk[0].proof = <<>>
    BY <1>3
  <2>4. Reached(<<>>) = tree[0][index + 1]
    BY <1>2, <2>1, <2>2
  <2>5. index \in 0 .. Len(tree[0]) - 1
    BY <1>2
  <2> HIDE DEF Reached
  <2>. QED BY <2>1, <2>3, <2>4, <2>5
<1>6. ASSUME NEW k \in S PROVE k + 1 \in S
  <2> DEFINE level == tree[k]
             i == walk[k].index
             proof == walk[k].proof
  <2>1. k \in Nat /\ i \in 0 .. Len(level) - 1 /\ IsList(proof) /\ Reached(proof) = level[i + 1]
    BY <1>6
  <2>2. Len(level) \in Nat /\ Above(level, tree[k + 1]) /\ Len(tree[k + 1]) \in Nat
    <3>1. k + 1 \in Nat
      BY <2>1
    <3>. QED BY <1>2, <2>1, <3>1 DEF IsTree
  <2>3. walk[k + 1].index = i \div 2 /\ walk[k + 1].proof = proof \o ProofStep(level, i)
    BY <1>4, <2>1
  <2> HIDE DEF level, i, proof
  <2>4. i \div 2 \in 0 .. Len(tree[k + 1]) - 1
          /\ tree[k + 1][i \div 2 + 1] =
                IF i % 2 = 1 THEN Parent(level[i], level[i + 1])
                ELSE IF i + 1 < Len(level) THEN Parent(level[i + 1], level[i + 2])
                ELSE level[i + 1]
    BY <2>1, <2>2, NodeUp
  <2> DEFINE next == proof \o ProofStep(level, i)
  <2>5. IsList(next) /\ Reached(next) = tree[k + 1][i \div 2 + 1]
    <3>1. CASE i % 2 = 1
      <4> DEFINE step == [side |-> "left", hash |-> level[i]]
      <4>1. next = proof \o <<step>>
        BY <3>1 DEF ProofStep
      <4>2. ClimbUp(level[i + 1], step) = Parent(level[i], level[i + 1])
        BY DEF ClimbUp
      <4>3. tree[k + 1][i \div 2 + 1] = Parent(level[i], level[i + 1])
        BY <2>4, <3>1
      <4> HIDE DEF step
      <4>4. IsList(next) /\ Reached(next) = ClimbUp(Reached(proof), step)
        BY <2>1, <4>1, ClimbAppend
      <4>. QED BY <2>1, <4>2, <4>3, <4>4
    <3>2. CASE i % 2 # 1 /\ i + 1 < Len(level)
      <4> DEFINE step == [side |-> "right", hash |-> level[i + 2]]
      <4>1. next = proof \o <<step>>
        BY <3>2 DEF ProofStep
      <4>2. ClimbUp(level[i + 1], step) = Parent(level[i + 1], level[i + 2])
        BY DEF ClimbUp
      <4>3. tree[k + 1][i \div 2 + 1] = Parent(level[i + 1], level[i + 2])
        BY <2>4, <3>2
      <4> HIDE DEF step
      <4>4. IsList(next) /\ Reached(next) = ClimbUp(Reached(proof), step)
        BY <2>1, <4>1, ClimbAppend
      <4>. QED BY <2>1, <4>2, <4>3, <4>4
    <3>3. CASE i % 2 # 1 /\ ~(i + 1 < Len(level))
      <4>1. ProofStep(level, i) = <<>>
        BY <3>3 DEF ProofStep
      <4>2. next = proof
        <5>1. proof \in Seq({proof[x] : x \in 1 .. Len(proof)})
          <6>1. proof \in [1 .. Len(proof) -> {proof[x] : x \in 1 .. Len(proof)}]
                  /\ Len(proof) \in Nat
            BY <2>1, ListLen
          <6>. QED BY <6>1
        <5>. QED BY <4>1, <5>1
      <4>. QED BY <2>1, <2>4, <3>3, <4>2
    <3>. QED BY <3>1, <3>2, <3>3
  <2> HIDE DEF Reached, next
  <2>6. walk[k + 1].index = i \div 2 /\ walk[k + 1].proof = next /\ k + 1 \in Nat
    BY <2>1, <2>3 DEF next
  <2>. QED BY <2>4, <2>5, <2>6
<1>7. S = Nat
  BY <1>5, <1>6, NatSetInduction
<1> DEFINE h == Height(leaves)
<1>8. h \in Nat /\ Len(tree[h]) = 1
  BY <1>1, HeightIs DEF tree
<1>9. /\ walk[h].index = 0 /\ IsList(walk[h].proof)
      /\ Reached(walk[h].proof) = tree[h][1]
  <2> HIDE DEF Reached, h
  <2>1. /\ walk[h].index \in 0 .. Len(tree[h]) - 1 /\ IsList(walk[h].proof)
        /\ Reached(walk[h].proof) = tree[h][walk[h].index + 1]
    BY <1>7, <1>8
  <2>2. walk[h].index = 0
    BY <1>8, <2>1
  <2>3. walk[h].index + 1 = 1
    BY <2>2
  <2>. QED BY <2>1, <2>2, <2>3
<1>10. leaves # <<>>
  BY <1>1
<1>. QED BY <1>9, <1>10 DEF VerifyProof, MerkleProof, MerkleRoot, tree, walk
-----------------------------------------------------------------------------
(* What a root shows.  A digest does not say on which level it is a node, for an odd  *)
(* last node moves up as it is; what is left of another node has never moved, and its *)
(* leftmost leaf is as far down as its level says.                                    *)

LEMMA LeftDepth ==
    ASSUME NEW a, NEW b, LeafList(a), LeafList(b), Len(a) > 0, Len(b) > 0,
           NEW k \in Nat, NEW j \in Nat,
           NEW i \in 1 .. Len(Tree(a)[k]), NEW l \in 1 .. Len(Tree(b)[j]),
           l < Len(Tree(b)[j]), Tree(a)[k][i] = Tree(b)[j][l]
    PROVE  j <= k
<1> DEFINE T == Tree(a)
           U == Tree(b)
           S == {n \in Nat : \A m \in Nat : \A x \in 1 .. Len(T[n]), y \in 1 .. Len(U[m]) :
                                y < Len(U[m]) /\ T[n][x] = U[m][y] => m <= n}
<1>1. T[0] = a /\ U[0] = b /\ IsTree(T) /\ IsTree(U)
  BY TreeLevels, TreeNodes DEF LeafList
<1> HIDE DEF T, U
\* Nothing that is left of a node has moved.
<1>2. ASSUME NEW m \in Nat, m # 0, NEW y \in 1 .. Len(U[m]), y < Len(U[m])
      PROVE  /\ m - 1 \in Nat /\ 2 * y - 1 \in 1 .. Len(U[m - 1]) /\ 2 * y - 1 < Len(U[m - 1])
             /\ U[m][y] = Parent(U[m - 1][2 * y - 1], U[m - 1][2 * y])
  <2>1. PICK p \in Nat : m = p + 1
    <3>1. m - 1 \in Nat /\ m = (m - 1) + 1
      BY <1>2
    <3>. QED BY <3>1
  <2>2. m - 1 = p
    BY <2>1
  <2>3. y \in 1 .. Len(U[p + 1]) /\ y < Len(U[p + 1])
    BY <1>2, <2>1
  <2>4. /\ 2 * y - 1 \in 1 .. Len(U[p]) /\ 2 * y - 1 < Len(U[p])
        /\ U[p + 1][y] = Parent(U[p][2 * y - 1], U[p][2 * y])
    BY <1>1, <2>3, NodeOf
  <2>. QED BY <2>1, <2>2, <2>4
<1>3. 0 \in S
  <2>1. ASSUME NEW m \in Nat, NEW x \in 1 .. Len(T[0]), NEW y \in 1 .. Len(U[m]),
               y < Len(U[m]), T[0][x] = U[m][y]
        PROVE  m <= 0
    <3>1. T[0][x][1] = "leaf"
      BY <1>1 DEF LeafList
    <3>2. ASSUME m # 0 PROVE FALSE
      <4>1. U[m][y] = Parent(U[m - 1][2 * y - 1], U[m - 1][2 * y])
        BY <1>2, <2>1, <3>2
      <4>2. U[m][y][1] = "node"
        BY <4>1, ParentIs
      <4>. QED BY <2>1, <3>1, <4>2
    <3>. QED BY <3>2
  <2>. QED BY <2>1
<1>4. ASSUME NEW n \in S PROVE n + 1 \in S
  <2>0. n \in Nat /\ \A m \in Nat : \A x \in 1 .. Len(T[n]), y \in 1 .. Len(U[m]) :
                        y < Len(U[m]) /\ T[n][x] = U[m][y] => m <= n
    BY <1>4
  <2>1. ASSUME NEW m \in Nat, NEW x \in 1 .. Len(T[n + 1]), NEW y \in 1 .. Len(U[m]),
               y < Len(U[m]), T[n + 1][x] = U[m][y], m # 0
        PROVE  m <= n + 1
    <3>1. Len(T[n]) \in Nat
      BY <1>1, <2>0 DEF IsTree
    <3>2. CASE 2 * x > Len(T[n])
      <4>1. 2 * x - 1 \in 1 .. Len(T[n]) /\ T[n][2 * x - 1] = U[m][y]
        BY <1>1, <2>0, <2>1, <3>2, NodeOf
      <4>2. m <= n
        BY <2>0, <2>1, <4>1
      <4>. QED BY <2>0, <4>2
    <3>3. CASE 2 * x <= Len(T[n])
      <4>1. 2 * x - 1 \in 1 .. Len(T[n])
              /\ U[m][y] = Parent(T[n][2 * x - 1], T[n][2 * x])
        BY <1>1, <2>0, <2>1, <3>3, NodeOf
      <4>2. /\ m - 1 \in Nat /\ 2 * y - 1 \in 1 .. Len(U[m - 1])
            /\ 2 * y - 1 < Len(U[m - 1])
            /\ U[m][y] = Parent(U[m - 1][2 * y - 1], U[m - 1][2 * y])
        BY <1>2, <2>1
      <4>3. T[n][2 * x - 1] = U[m - 1][2 * y - 1]
        <5>1. Parent(T[n][2 * x - 1], T[n][2 * x]) =
                 Parent(U[m - 1][2 * y - 1], U[m - 1][2 * y])
          BY <4>1, <4>2
        <5>. QED BY <5>1, ParentIs
      <4>4. m - 1 <= n
        BY <2>0, <4>1, <4>2, <4>3
      <4>. QED BY <2>0, <4>4
    <3>. QED BY <3>1, <3>2, <3>3
  <2>2. n + 1 \in Nat
    BY <2>0
  <2>. QED BY <2>1, <2>2
<1>5. S = Nat
  BY <1>3, <1>4, NatSetInduction
<1>. QED BY <1>5 DEF T, U

LEMMA LeftDeeper ==
    ASSUME NEW a, NEW b, LeafList(a), LeafList(b), Len(a) > 0, Len(b) > 0,
           NEW k \in Nat, NEW j \in Nat,
           NEW i \in 1 .. Len(Tree(a)[k]), NEW l \in 1 .. Len(Tree(b)[j]),
           l < Len(Tree(b)[j]), NEW z, Tree(a)[k][i] = Parent(Tree(b)[j][l], z)
    PROVE  j < k
<1> DEFINE T == Tree(a)
           w == Tree(b)[j][l]
           S == {n \in Nat : \A x \in 1 .. Len(T[n]) : T[n][x] = Parent(w, z) => j < n}
<1>1. T[0] = a /\ IsTree(T)
  BY TreeLevels, TreeNodes DEF LeafList
<1>2. ASSUME NEW n \in Nat, NEW x \in 1 .. Len(T[n]), T[n][x] = w PROVE j <= n
  BY <1>2, LeftDepth
<1> HIDE DEF T, w
<1>3. 0 \in S
  <2>1. ASSUME NEW x \in 1 .. Len(T[0]), T[0][x] = Parent(w, z) PROVE FALSE
    <3>1. T[0][x][1] = "leaf"
      BY <1>1 DEF LeafList
    <3>2. T[0][x][1] = "node"
      BY <2>1, ParentIs
    <3>. QED BY <3>1, <3>2
  <2>. QED BY <2>1
<1>4. ASSUME NEW n \in S PROVE n + 1 \in S
  <2>0. n \in Nat /\ \A x \in 1 .. Len(T[n]) : T[n][x] = Parent(w, z) => j < n
    BY <1>4
  <2>1. ASSUME NEW x \in 1 .. Len(T[n + 1]), T[n + 1][x] = Parent(w, z) PROVE j < n + 1
    <3>1. Len(T[n]) \in Nat
      BY <1>1, <2>0 DEF IsTree
    <3>2. CASE 2 * x > Len(T[n])
      <4>1. 2 * x - 1 \in 1 .. Len(T[n]) /\ T[n][2 * x - 1] = Parent(w, z)
        BY <1>1, <2>0, <2>1, <3>2, NodeOf
      <4>2. j < n
        BY <2>0, <4>1
      <4>. QED BY <2>0, <4>2
    <3>3. CASE 2 * x <= Len(T[n])
      <4>1. 2 * x - 1 \in 1 .. Len(T[n])
              /\ Parent(w, z) = Parent(T[n][2 * x - 1], T[n][2 * x])
        BY <1>1, <2>0, <2>1, <3>3, NodeOf
      <4>2. T[n][2 * x - 1] = w
        BY <4>1, ParentIs
      <4>3. j <= n
        BY <1>2, <2>0, <4>1, <4>2
      <4>. QED BY <2>0, <4>3
    <3>. QED BY <3>1, <3>2, <3>3
  <2>2. n + 1 \in Nat
    BY <2>0
  <2>. QED BY <2>1, <2>2
<1>5. S = Nat
  BY <1>3, <1>4, NatSetInduction
<1>. QED BY <1>5 DEF T, w

\* So two levels on the same height of two trees are one if what is above them is.
LEMMA SameLevel ==
    ASSUME NEW a, NEW b, LeafList(a), LeafList(b), Len(a) > 0, Len(b) > 0,
           NEW k \in Nat, Tree(a)[k + 1] = Tree(b)[k + 1]
    PROVE  Tree(a)[k] = Tree(b)[k]
<1> DEFINE T == Tree(a)
           U == Tree(b)
           n == Len(T[k + 1])
<1>1. IsTree(T) /\ IsTree(U)
  BY TreeNodes DEF LeafList
<1>2. /\ Len(T[k]) \in Nat /\ Len(U[k]) \in Nat /\ n \in Nat /\ n > 0
      /\ IsList(T[k]) /\ IsList(U[k]) /\ T[k + 1] = U[k + 1]
  <2>1. k + 1 \in Nat
    OBVIOUS
  <2>. QED BY <1>1, <2>1 DEF IsTree
<1>3. /\ 2 * n = Len(T[k]) \/ 2 * n = Len(T[k]) + 1
      /\ 2 * n = Len(U[k]) \/ 2 * n = Len(U[k]) + 1
  <2>1. 2 * Len(T[k + 1]) \in {Len(T[k]), Len(T[k]) + 1}
    BY <1>1 DEF IsTree, Above
  <2>2. 2 * Len(U[k + 1]) \in {Len(U[k]), Len(U[k]) + 1}
    BY <1>1 DEF IsTree, Above
  <2>. QED BY <1>2, <2>1, <2>2
<1>4. n \in 1 .. Len(T[k + 1]) /\ n \in 1 .. Len(U[k + 1])
  BY <1>2
<1>5. Len(T[k]) = Len(U[k])
  <2>1. ASSUME 2 * n = Len(T[k]), 2 * n = Len(U[k]) + 1 PROVE FALSE
    <3>1. /\ T[k + 1][n] = Parent(T[k][2 * n - 1], T[k][2 * n])
          /\ U[k + 1][n] = U[k][2 * n - 1] /\ 2 * n - 1 \in 1 .. Len(U[k])
      <4>1. 2 * n <= Len(T[k]) /\ 2 * n > Len(U[k])
        BY <1>2, <2>1
      <4> HIDE DEF T, U, n
      <4>. QED BY <1>1, <1>4, <4>1, NodeOf
    <3>2. 2 * n - 1 \in 1 .. Len(T[k]) /\ 2 * n - 1 < Len(T[k])
      BY <1>2, <2>1
    <3>3. U[k][2 * n - 1] = Parent(T[k][2 * n - 1], T[k][2 * n])
      BY <1>2, <3>1
    <3>4. k < k
      BY <3>1, <3>2, <3>3, LeftDeeper
    <3>. QED BY <3>4
  <2>2. ASSUME 2 * n = Len(U[k]), 2 * n = Len(T[k]) + 1 PROVE FALSE
    <3>1. /\ U[k + 1][n] = Parent(U[k][2 * n - 1], U[k][2 * n])
          /\ T[k + 1][n] = T[k][2 * n - 1] /\ 2 * n - 1 \in 1 .. Len(T[k])
      <4>1. 2 * n <= Len(U[k]) /\ 2 * n > Len(T[k])
        BY <1>2, <2>2
      <4> HIDE DEF T, U, n
      <4>. QED BY <1>1, <1>4, <4>1, NodeOf
    <3>2. 2 * n - 1 \in 1 .. Len(U[k]) /\ 2 * n - 1 < Len(U[k])
      BY <1>2, <2>2
    <3>3. T[k][2 * n - 1] = Parent(U[k][2 * n - 1], U[k][2 * n])
      BY <1>2, <3>1
    <3>4. k < k
      BY <3>1, <3>2, <3>3, LeftDeeper
    <3>. QED BY <3>4
  <2>. QED BY <1>2, <1>3, <2>1, <2>2
<1> HIDE DEF T, U, n
<1>6. ASSUME NEW i \in 1 .. n
      PROVE  /\ T[k][2 * i - 1] = U[k][2 * i - 1]
             /\ 2 * i <= Len(T[k]) => T[k][2 * i] = U[k][2 * i]
  <2>1. i \in 1 .. Len(T[k + 1]) /\ i \in 1 .. Len(U[k + 1])
    BY <1>2 DEF n
  <2>2. CASE 2 * i <= Len(T[k])
    <3>1. /\ T[k + 1][i] = Parent(T[k][2 * i - 1], T[k][2 * i])
          /\ U[k + 1][i] = Parent(U[k][2 * i - 1], U[k][2 * i])
      BY <1>1, <1>5, <2>1, <2>2, NodeOf
    <3>2. Parent(T[k][2 * i - 1], T[k][2 * i]) = Parent(U[k][2 * i - 1], U[k][2 * i])
      BY <1>2, <3>1
    <3>. QED BY <3>2, ParentIs
  <2>3. CASE 2 * i > Len(T[k])
    <3>1. T[k + 1][i] = T[k][2 * i - 1] /\ U[k + 1][i] = U[k][2 * i - 1]
      BY <1>1, <1>5, <2>1, <2>3, NodeOf
    <3>. QED BY <1>2, <2>3, <3>1
  <2>. QED BY <1>2, <2>2, <2>3
<1>7. ASSUME NEW x \in 1 .. Len(T[k]) PROVE T[k][x] = U[k][x]
  <2>1. PICK i \in 1 .. n : x = 2 * i - 1 \/ x = 2 * i
    <3>1. (x + 1) \div 2 \in 1 .. n
            /\ (x = 2 * ((x + 1) \div 2) - 1 \/ x = 2 * ((x + 1) \div 2))
      BY <1>2, <1>3
    <3>. QED BY <3>1
  <2>2. x <= Len(T[k])
    BY <1>2
  <2>. QED BY <1>6, <2>1, <2>2
<1>8. /\ T[k] = [x \in 1 .. Len(T[k]) |-> T[k][x]]
      /\ U[k] = [x \in 1 .. Len(T[k]) |-> U[k][x]]
  BY <1>2, <1>5, ListLen
<1>. QED BY <1>7, <1>8 DEF T, U

\* One root is that of one list of leaves.
THEOREM RootFixesLeaves ==
    ASSUME NEW a, NEW b, LeafList(a), LeafList(b), Len(a) > 0, Len(b) > 0,
           MerkleRoot(a) = MerkleRoot(b)
    PROVE  a = b
<1> DEFINE T == Tree(a)
           U == Tree(b)
           g == Height(a)
           h == Height(b)
<1>1. g \in Nat /\ h \in Nat /\ Len(T[g]) = 1 /\ Len(U[h]) = 1
  BY HeightIs DEF LeafList
<1>2. IsTree(T) /\ IsTree(U) /\ T[0] = a /\ U[0] = b
  BY TreeNodes, TreeLevels DEF LeafList
<1>3. T[g][1] = U[h][1]
  <2>1. a # <<>> /\ b # <<>>
    OBVIOUS
  <2>. QED BY <2>1 DEF MerkleRoot
<1>4. ~(g < h)
  <2> SUFFICES ASSUME g < h PROVE FALSE
    OBVIOUS
  <2> DEFINE m == h - 1
  <2>1. m \in Nat /\ h = m + 1 /\ m \in 0 .. Height(b) - 1
    BY <1>1
  <2>2. Len(U[m]) > 1
    BY <2>1, HeightIs DEF LeafList
  <2> HIDE DEF m
  <2>3. 1 \in 1 .. Len(U[m + 1]) /\ Len(U[m]) \in Nat
    <3>1. U[m + 1] = U[h]
      BY <2>1
    <3> HIDE DEF T, U, g, h
    <3>2. 1 \in 1 .. Len(U[m + 1])
      <4>1. Len(U[m + 1]) = 1
        BY <1>1, <3>1
      <4>. QED BY <4>1
    <3>3. m \in Nat
      BY <2>1
    <3>4. Len(U[m]) \in Nat
      BY <1>2, <3>3 DEF IsTree
    <3>. QED BY <3>2, <3>4
  <2>4. U[m + 1][1] = Parent(U[m][1], U[m][2])
    BY <1>2, <2>1, <2>2, <2>3, NodeOf
  <2>5. T[g][1] = Parent(U[m][1], U[m][2])
    BY <1>3, <2>1, <2>4
  <2>6. 1 \in 1 .. Len(T[g]) /\ 1 \in 1 .. Len(U[m])
    BY <1>1, <2>2, <2>3
  <2>7. m < g
    BY <1>1, <2>1, <2>2, <2>5, <2>6, LeftDeeper
  <2>. QED BY <1>1, <2>1, <2>7
<1>5. ~(h < g)
  <2> SUFFICES ASSUME h < g PROVE FALSE
    OBVIOUS
  <2> DEFINE m == g - 1
  <2>1. m \in Nat /\ g = m + 1 /\ m \in 0 .. Height(a) - 1
    BY <1>1
  <2>2. Len(T[m]) > 1
    BY <2>1, HeightIs DEF LeafList
  <2> HIDE DEF m
  <2>3. 1 \in 1 .. Len(T[m + 1]) /\ Len(T[m]) \in Nat
    <3>1. T[m + 1] = T[g]
      BY <2>1
    <3> HIDE DEF T, U, g, h
    <3>2. 1 \in 1 .. Len(T[m + 1])
      <4>1. Len(T[m + 1]) = 1
        BY <1>1, <3>1
      <4>. QED BY <4>1
    <3>3. m \in Nat
      BY <2>1
    <3>4. Len(T[m]) \in Nat
      BY <1>2, <3>3 DEF IsTree
    <3>. QED BY <3>2, <3>4
  <2>4. T[m + 1][1] = Parent(T[m][1], T[m][2])
    BY <1>2, <2>1, <2>2, <2>3, NodeOf
  <2>5. U[h][1] = Parent(T[m][1], T[m][2])
    BY <1>3, <2>1, <2>4
  <2>6. 1 \in 1 .. Len(U[h]) /\ 1 \in 1 .. Len(T[m])
    BY <1>1, <2>2, <2>3
  <2>7. m < h
    BY <1>1, <2>1, <2>2, <2>5, <2>6, LeftDeeper
  <2>. QED BY <1>1, <2>1, <2>7
<1>6. g = h
  BY <1>1, <1>4, <1>5
<1> HIDE DEF T, U, g, h
<1>7. T[g] = U[g]
  <2>1. /\ T[g] = [x \in 1 .. 1 |-> T[g][x]]
        /\ U[g] = [x \in 1 .. 1 |-> U[g][x]]
    BY <1>1, <1>2, <1>6, ListLen DEF IsTree
  <2>. QED BY <1>3, <1>6, <2>1
<1> DEFINE S == {k \in Nat : k <= g => T[g - k] = U[g - k]}
<1>8. 0 \in S
  BY <1>1, <1>7
<1>9. ASSUME NEW k \in S PROVE k + 1 \in S
  <2>0. k \in Nat /\ k + 1 \in Nat
    OBVIOUS
  <2>1. ASSUME k + 1 <= g PROVE T[g - (k + 1)] = U[g - (k + 1)]
    <3> DEFINE m == g - (k + 1)
    <3>1. m \in Nat /\ m + 1 = g - k
      BY <1>1, <2>0, <2>1
    <3>2. T[g - k] = U[g - k]
      BY <1>1, <2>0, <2>1
    <3> HIDE DEF m
    <3>3. T[m + 1] = U[m + 1]
      BY <3>1, <3>2
    <3>4. T[m] = U[m]
      BY <3>1, <3>3, SameLevel DEF T, U
    <3>. QED BY <3>4 DEF m
  <2>. QED BY <2>0, <2>1
<1>10. S = Nat
  BY <1>8, <1>9, NatSetInduction
<1>11. T[g - g] = U[g - g]
  <2>1. g \in S
    BY <1>1, <1>10
  <2>. QED BY <1>1, <2>1
<1>12. g - g = 0
  BY <1>1
<1>. QED BY <1>2, <1>11, <1>12
-----------------------------------------------------------------------------
(* The invariant of Withheld. *)

\* What is known of a commitment, in the manifest or in memory, with so many commands
\* left: its salt is spent.
IsCommit(r, left) ==
    /\ r = [salt |-> r.salt, leaves |-> r.leaves, unmatched |-> r.unmatched,
            hashes |-> r.hashes]
    /\ r.salt \in Nat /\ r.salt > left
    /\ LeafList(r.leaves)
    /\ DOMAIN r.hashes \subseteq Published

IsReveal(r) ==
    /\ r = [path |-> r.path, leaf |-> r.leaf, proof |-> r.proof, edited |-> r.edited]
    /\ r.path \in Paths /\ r.edited \in BOOLEAN /\ Len(r.proof) \in Nat

\* A reveal that was not edited is of a file, under a salt that is spent, and holds
\* against whatever was committed to under that salt: what is saved and what is held.
Stands(r, saved, held, left) ==
    r.edited \/ \E s \in Nat, c \in Contents :
                   /\ s > left /\ r.leaf = Leaf(s, r.path, c)
                   /\ \A x \in {saved, held} :
                         x # Absent /\ x.salt = s => VerifyProof(r.leaf, r.proof, Root(x))

SavedOK == /\ record # Absent => IsCommit(record, uses)
           /\ reveal # Absent => IsReveal(reveal) /\ Stands(reveal, record, base, uses)

\* The artifacts are those of the first scan, but for what was created or removed since.
Differ(now, before) ==
    /\ drift = 0 => now = before
    /\ drift = 1 => \E p \in Paths : \/ p \notin before /\ now = before \cup {p}
                                     \/ p \in before /\ now = before \ {p}

BuildOK ==
    /\ wpc = "idle" => drift = 0 /\ want = Absent
    /\ wpc \in {"rescan", "write"} =>
          /\ IsCommit(base, uses)
          /\ reveal # Absent => Stands(reveal, record, base, base.salt)
    /\ wpc = "rescan" =>
          /\ base.unmatched = Cardinality(found \ Published)
          /\ Differ(Present(dir) \cap Published, found \cap Published)

\* A command that reveals or verifies works with the record, which stays as it is.
UseOK ==
    /\ wpc \in {"tree", "recheck", "out", "revealed", "failed"} =>
          base = record /\ record # Absent /\ Len(record.leaves) > 0
    /\ wpc = "tree" => want \in Paths
    /\ wpc \in {"recheck", "out", "revealed", "failed"} => IsReveal(entry)
    /\ wpc = "recheck" /\ want = Absent => Stands(entry, record, base, uses)
    /\ wpc = "out" => Stands(entry, record, base, uses)

\* A new reveal is proved against the tree that was built for it.
NewOK ==
    wpc = "recheck" /\ want # Absent =>
       /\ LeafList(read) /\ Len(read) > 0
       /\ VerifyProof(entry.leaf, entry.proof, MerkleRoot(read))
       /\ still => /\ read = Leaves(dir, base.salt) /\ dir[entry.path] # Absent
                   /\ entry.leaf = Leaf(base.salt, entry.path, dir[entry.path])

WithheldInv ==
    /\ WithheldTypeOK /\ SavedOK /\ BuildOK /\ UseOK /\ NewOK
    /\ DriftCaught /\ RevealSound /\ RevealHasCause /\ RevealWhole
-----------------------------------------------------------------------------
(* The leaves of a directory. *)

LEMMA KeptFinite ==
    ASSUME NEW d
    PROVE  /\ IsFiniteSet(Present(d)) /\ IsFiniteSet(Kept(d))
           /\ Kept(d) \subseteq Paths /\ Present(d) \subseteq Paths
           /\ Cardinality(Kept(d)) \in Nat
<1>1. Present(d) \subseteq Paths /\ Kept(d) \subseteq Paths
  BY DEF Present, Kept
<1>. QED BY <1>1, PathsOK, FS_Subset, FS_CardinalityType

\* The files are in order: the rank of one is its index, and no other's.
LEMMA RankOf ==
    ASSUME NEW S \in SUBSET Nat, IsFiniteSet(S), NEW p \in S
    PROVE  /\ Rank(S, p) \in 0 .. Cardinality(S) - 1
           /\ \A q \in S : Rank(S, q) = Rank(S, p) => q = p
<1> DEFINE Low(q) == {r \in S : r < q}
<1>1. ASSUME NEW q \in S
      PROVE  /\ IsFiniteSet(Low(q)) /\ Cardinality(Low(q)) \in Nat
             /\ Cardinality(Low(q) \cup {q}) = Cardinality(Low(q)) + 1
             /\ IsFiniteSet(Low(q) \cup {q})
  <2>1. q \notin Low(q) /\ Low(q) \in SUBSET S
    OBVIOUS
  <2>2. IsFiniteSet(Low(q))
    BY <2>1, FS_Subset
  <2> HIDE DEF Low
  <2>. QED BY <2>1, <2>2, FS_AddElement, FS_CardinalityType
<1>2. Cardinality(Low(p)) < Cardinality(S)
  <2>1. Low(p) \cup {p} \in SUBSET S
    OBVIOUS
  <2> HIDE DEF Low
  <2>2. Cardinality(Low(p) \cup {p}) <= Cardinality(S)
    BY <2>1, FS_Subset
  <2>3. Cardinality(S) \in Nat
    BY FS_CardinalityType
  <2>. QED BY <1>1, <2>2, <2>3
<1>3. ASSUME NEW q \in S, NEW r \in S, q < r PROVE Cardinality(Low(q)) < Cardinality(Low(r))
  <2>1. Low(q) \cup {q} \subseteq Low(r)
    <3>1. ASSUME NEW x \in Low(q) PROVE x \in Low(r)
      <4>1. x \in Nat /\ q \in Nat /\ r \in Nat /\ x < q
        BY <1>3, <3>1
      <4>. QED BY <1>3, <4>1
    <3>. QED BY <1>3, <3>1
  <2> HIDE DEF Low
  <2>2. Cardinality(Low(q) \cup {q}) <= Cardinality(Low(r))
    BY <1>1, <1>3, <2>1, FS_Subset
  <2>3. /\ Cardinality(Low(q)) \in Nat /\ Cardinality(Low(r)) \in Nat
        /\ Cardinality(Low(q) \cup {q}) = Cardinality(Low(q)) + 1
    BY <1>1, <1>3
  <2>. QED BY <2>2, <2>3
<1>4. ASSUME NEW q \in S, Rank(S, q) = Rank(S, p) PROVE q = p
  <2>1. Cardinality(Low(q)) = Cardinality(Low(p))
    BY <1>4 DEF Rank
  <2>2. Cardinality(Low(q)) \in Nat
    BY <1>1
  <2>3. q < p \/ p < q \/ p = q
    OBVIOUS
  <2> HIDE DEF Low
  <2>. QED BY <1>3, <2>1, <2>2, <2>3
<1>5. Cardinality(S) \in Nat /\ Cardinality(Low(p)) \in Nat
  BY <1>1, FS_CardinalityType
<1>6. Rank(S, p) = Cardinality(Low(p))
  BY DEF Rank
<1> HIDE DEF Low
<1>. QED BY <1>2, <1>4, <1>5, <1>6

LEMMA LeavesOf ==
    ASSUME NEW d, NEW salt
    PROVE  /\ LeafList(Leaves(d, salt))
           /\ \A p \in Kept(d) :
                 /\ Rank(Kept(d), p) \in 0 .. Len(Leaves(d, salt)) - 1
                 /\ Leaves(d, salt)[Rank(Kept(d), p) + 1] = Leaf(salt, p, d[p])
<1> DEFINE n == Cardinality(Kept(d))
           at(i) == CHOOSE q \in Kept(d) : Rank(Kept(d), q) = i - 1
           leaves == Leaves(d, salt)
<1>1. n \in Nat /\ IsFiniteSet(Kept(d)) /\ Kept(d) \in SUBSET Nat
  BY KeptFinite, PathsOK
<1>2. leaves = [i \in 1 .. n |-> Leaf(salt, at(i), d[at(i)])]
  BY DEF Leaves
<1> HIDE DEF n, at, leaves
<1>3. IsList(leaves) /\ Len(leaves) = n
  BY <1>1, <1>2, ListOf
<1>4. LeafList(leaves)
  BY <1>2, <1>3 DEF LeafList, Leaf
<1>5. ASSUME NEW p \in Kept(d)
      PROVE  /\ Rank(Kept(d), p) \in 0 .. n - 1
             /\ leaves[Rank(Kept(d), p) + 1] = Leaf(salt, p, d[p])
  <2> DEFINE r == Rank(Kept(d), p)
  <2>1. r \in 0 .. n - 1 /\ \A q \in Kept(d) : Rank(Kept(d), q) = r => q = p
    BY <1>1, RankOf DEF n
  <2>2. at(r + 1) = p
    <3>1. (r + 1) - 1 = r
      BY <1>1, <2>1
    <3>2. at(r + 1) = CHOOSE q \in Kept(d) : Rank(Kept(d), q) = r
      BY <3>1 DEF at
    <3>. QED BY <2>1, <3>2
  <2>3. r + 1 \in 1 .. n
    BY <1>1, <2>1
  <2>. QED BY <1>2, <2>1, <2>2, <2>3
<1>. QED BY <1>3, <1>4, <1>5 DEF leaves
-----------------------------------------------------------------------------
(* Each step keeps it. *)

LEMMA WithheldInvInit == WithheldInit => WithheldInv
<1> SUFFICES ASSUME WithheldInit PROVE WithheldInv
  OBVIOUS
<1>1. WithheldTypeOK
  BY PathsOK, BoundsOK DEF WithheldInit, WithheldTypeOK, UseSteps
<1>2. SavedOK /\ BuildOK /\ UseOK /\ NewOK
  BY DEF WithheldInit, SavedOK, BuildOK, UseOK, NewOK
<1>3. DriftCaught /\ RevealSound /\ RevealHasCause /\ RevealWhole
  BY DEF WithheldInit, DriftCaught, RevealSound, RevealHasCause, RevealWhole
<1>. QED BY <1>1, <1>2, <1>3 DEF WithheldInv

\* A commitment stays one, and a reveal holds, while commands are used up and what is
\* committed to anew has a salt of its own.
LEMMA CommitStays ==
    ASSUME NEW r, NEW m \in Nat, NEW n \in Nat, n <= m, IsCommit(r, m)
    PROVE  IsCommit(r, n)
BY DEF IsCommit

LEMMA StandsStays ==
    ASSUME NEW r, NEW saved, NEW held, NEW m \in Nat, Stands(r, saved, held, m),
           NEW saved2, NEW held2, NEW n \in Nat, n <= m,
           \A x \in {saved2, held2} :
              \/ x = Absent
              \/ x.salt \in Nat /\ x.salt <= m
              \/ \E y \in {saved, held} :
                    y # Absent /\ y.salt = x.salt /\ y.leaves = x.leaves
    PROVE  Stands(r, saved2, held2, n)
<1>1. CASE r.edited
  BY <1>1 DEF Stands
<1>2. ASSUME NEW s \in Nat, NEW c \in Contents, s > m, r.leaf = Leaf(s, r.path, c),
             \A x \in {saved, held} :
                x # Absent /\ x.salt = s => VerifyProof(r.leaf, r.proof, Root(x))
      PROVE  Stands(r, saved2, held2, n)
  <2>1. ASSUME NEW x \in {saved2, held2}, x # Absent, x.salt = s
        PROVE  VerifyProof(r.leaf, r.proof, Root(x))
    <3>1. ~(x.salt <= m)
      BY <1>2, <2>1
    <3>2. PICK y \in {saved, held} : y # Absent /\ y.salt = s /\ y.leaves = x.leaves
      BY <2>1, <3>1
    <3>. QED BY <1>2, <3>2 DEF Root
  <2>2. s > n
    BY <1>2
  <2>. QED BY <1>2, <2>1, <2>2 DEF Stands
<1>. QED BY <1>1, <1>2 DEF Stands

\* What every step begins from.
LEMMA WithheldTypes ==
    ASSUME WithheldInv
    PROVE  /\ dir \in [Paths -> Contents \cup {Absent}] /\ wpc \in UseSteps
           /\ found \subseteq Paths /\ want \in Paths \cup {Absent} /\ drift \in Nat
           /\ still \in BOOLEAN /\ changes \in Nat /\ uses \in Nat
           /\ WithheldTypeOK /\ SavedOK /\ BuildOK /\ UseOK /\ NewOK
           /\ DriftCaught /\ RevealSound /\ RevealHasCause /\ RevealWhole
BY DEF WithheldInv, WithheldTypeOK

\* Between two commands nothing is held.
LEMMA NoUseKeeps ==
    ASSUME WithheldInv, NoUse, UNCHANGED <<dirVars, still, uses>>, SavedOK',
           record' # Absent => DOMAIN record'.hashes \subseteq Published,
           reveal' # Absent => reveal'.path \in Paths
    PROVE  WithheldInv'
<1>1. WithheldTypeOK'
  BY WithheldTypes DEF NoUse, WithheldTypeOK, UseSteps, dirVars
<1>2. wpc' = "idle" /\ drift' = 0 /\ want' = Absent
  BY DEF NoUse
<1>3. BuildOK' /\ UseOK' /\ NewOK'
  BY <1>2 DEF BuildOK, UseOK, NewOK
<1>4. DriftCaught' /\ RevealSound' /\ RevealHasCause' /\ RevealWhole'
  BY <1>2 DEF DriftCaught, RevealSound, RevealHasCause, RevealWhole
<1>. QED BY <1>1, <1>3, <1>4 DEF WithheldInv

LEMMA EndUseKeeps == ASSUME WithheldInv, EndUse PROVE WithheldInv'
<1>1. NoUse /\ UNCHANGED <<dirVars, record, reveal, still, uses>>
  BY DEF EndUse
<1>2. base' = Absent
  BY <1>1 DEF NoUse
<1>3. reveal' # Absent => Stands(reveal', record', base', uses')
  <2>1. reveal # Absent => Stands(reveal, record, Absent, uses)
    BY WithheldTypes, StandsStays DEF SavedOK
  <2>. QED BY <1>1, <1>2, <2>1
<1>4. SavedOK'
  BY <1>1, <1>3, WithheldTypes DEF SavedOK, IsCommit
<1>. QED BY <1>1, <1>4, NoUseKeeps, WithheldTypes DEF WithheldTypeOK

LEMMA WriteRecordKeeps == ASSUME WithheldInv, WriteRecord PROVE WithheldInv'
<1>1. NoUse /\ UNCHANGED <<dirVars, reveal, still, uses>> /\ record' = base /\ base' = Absent
  BY DEF WriteRecord, NoUse
<1>2. IsCommit(base, uses)
  BY WithheldTypes DEF WriteRecord, BuildOK
<1>3. reveal # Absent => Stands(reveal, base, Absent, uses)
  <2> SUFFICES ASSUME reveal # Absent PROVE Stands(reveal, base, Absent, uses)
    OBVIOUS
  <2>1. Stands(reveal, record, base, uses)
    BY WithheldTypes DEF SavedOK
  <2>2. \A x \in {base, Absent} : x = Absent \/ \E y \in {record, base} :
                 y # Absent /\ y.salt = x.salt /\ y.leaves = x.leaves
    OBVIOUS
  <2>. QED BY <2>1, <2>2, WithheldTypes, StandsStays
<1>4. SavedOK'
  BY <1>1, <1>2, <1>3, WithheldTypes DEF SavedOK
<1>5. DOMAIN record'.hashes \subseteq Published
  BY <1>1, <1>2 DEF IsCommit
<1>. QED BY <1>1, <1>4, <1>5, NoUseKeeps, WithheldTypes DEF WithheldTypeOK

LEMMA WriteRevealKeeps == ASSUME WithheldInv, WriteReveal PROVE WithheldInv'
<1>1. NoUse /\ UNCHANGED <<dirVars, record, still, uses>> /\ reveal' = entry /\ base' = Absent
  BY DEF WriteReveal, NoUse
<1>2. IsReveal(entry) /\ Stands(entry, record, base, uses)
  BY WithheldTypes DEF WriteReveal, UseOK
<1>3. Stands(entry, record, Absent, uses)
  <2>1. \A x \in {record, Absent} : x = Absent \/ \E y \in {record, base} :
                 y # Absent /\ y.salt = x.salt /\ y.leaves = x.leaves
    OBVIOUS
  <2>. QED BY <1>2, <2>1, WithheldTypes, StandsStays
<1>4. SavedOK'
  BY <1>1, <1>2, <1>3, WithheldTypes DEF SavedOK
<1>5. reveal'.path \in Paths
  BY <1>1, <1>2 DEF IsReveal
<1>. QED BY <1>1, <1>4, <1>5, NoUseKeeps, WithheldTypes DEF WithheldTypeOK

LEMMA ScanAndCommitKeeps == ASSUME WithheldInv, ScanAndCommit PROVE WithheldInv'
<1> DEFINE leaves == Leaves(dir, uses)
           new == [salt |-> uses, leaves |-> leaves, unmatched |-> Cardinality(Kept(dir)),
                   hashes |-> <<>>]
<1>1. /\ wpc = "idle" /\ wpc' = "rescan" /\ uses > 0 /\ uses' = uses - 1 /\ uses' \in Nat
      /\ base' = new /\ found' = Present(dir)
      /\ UNCHANGED <<dir, changes, record, reveal, want, read, entry, drift, still>>
  BY WithheldTypes DEF ScanAndCommit, Use, dirVars
<1>2. drift = 0 /\ want = Absent
  BY <1>1, WithheldTypes DEF BuildOK
<1>3. WithheldTypeOK'
  BY <1>1, KeptFinite, WithheldTypes DEF WithheldTypeOK, UseSteps
<1>4. IsCommit(new, uses')
  <2>1. LeafList(leaves) /\ DOMAIN <<>> = {}
    BY LeavesOf
  <2> HIDE DEF leaves
  <2>. QED BY <1>1, <2>1, WithheldTypes DEF IsCommit
<1>5. SavedOK' /\ (reveal # Absent => Stands(reveal, record, new, uses))
  <2>1. record # Absent => IsCommit(record, uses')
    BY <1>1, CommitStays, WithheldTypes DEF SavedOK
  <2>2. reveal # Absent => /\ Stands(reveal, record, new, uses')
                           /\ Stands(reveal, record, new, uses)
    <3> SUFFICES ASSUME reveal # Absent
                 PROVE  /\ Stands(reveal, record, new, uses')
                        /\ Stands(reveal, record, new, uses)
      OBVIOUS
    <3>1. new.salt = uses
      OBVIOUS
    <3> HIDE DEF new
    <3>2. \A x \in {record, new} :
             \/ x = Absent
             \/ x.salt \in Nat /\ x.salt <= uses
             \/ \E y \in {record, base} : y # Absent /\ y.salt = x.salt /\ y.leaves = x.leaves
      BY <3>1, WithheldTypes
    <3>. QED BY <1>1, <3>2, StandsStays, WithheldTypes DEF SavedOK
  <2> HIDE DEF new
  <2>. QED BY <1>1, <2>1, <2>2, WithheldTypes DEF SavedOK
<1>6. BuildOK'
  <2>1. found' \ Published = Kept(dir)
    BY <1>1 DEF Kept
  <2>2. base'.unmatched = Cardinality(found' \ Published)
    BY <1>1, <2>1
  <2>3. (Present(dir) \cap Published)' = found' \cap Published
    BY <1>1 DEF Present
  <2>4. base'.salt = uses
    BY <1>1
  <2> HIDE DEF new
  <2>. QED BY <1>1, <1>2, <1>4, <1>5, <2>2, <2>3, <2>4 DEF BuildOK, Differ
<1>7. UseOK' /\ NewOK'
  BY <1>1 DEF UseOK, NewOK
<1>8. DriftCaught' /\ RevealSound' /\ RevealHasCause' /\ RevealWhole'
  BY <1>1 DEF DriftCaught, RevealSound, RevealHasCause, RevealWhole
<1>. QED BY <1>3, <1>5, <1>6, <1>7, <1>8 DEF WithheldInv

\* The counts only add up when as many artifacts were created as were removed.
LEMMA CountsDiffer ==
    ASSUME NEW now, NEW before, IsFiniteSet(before), Differ(now, before), drift \in Nat,
           drift <= 1, Cardinality(now) = Cardinality(before)
    PROVE  now = before
<1>1. CASE drift = 0
  BY <1>1 DEF Differ
<1>2. CASE drift = 1
  <2>1. PICK p \in Paths : \/ p \notin before /\ now = before \cup {p}
                           \/ p \in before /\ now = before \ {p}
    BY <1>2 DEF Differ
  <2>2. Cardinality(before) \in Nat
    BY FS_CardinalityType
  <2>3. CASE p \notin before /\ now = before \cup {p}
    <3>1. Cardinality(now) = Cardinality(before) + 1
      BY <2>3, FS_AddElement
    <3>. QED BY <2>2, <3>1
  <2>4. CASE p \in before /\ now = before \ {p}
    <3>1. Cardinality(now) = Cardinality(before) - 1
      BY <2>4, FS_RemoveElement
    <3>. QED BY <2>2, <3>1
  <2>. QED BY <2>1, <2>3, <2>4
<1>. QED BY <1>1, <1>2

LEMMA SplitCount ==
    ASSUME NEW S, IsFiniteSet(S), NEW P
    PROVE  /\ Cardinality(S) = Cardinality(S \cap P) + Cardinality(S \ P)
           /\ Cardinality(S \cap P) \in Nat /\ Cardinality(S \ P) \in Nat
<1>1. IsFiniteSet(S \cap P) /\ IsFiniteSet(S \ P)
  BY FS_Subset
<1>2. Cardinality((S \cap P) \cup (S \ P)) =
        Cardinality(S \cap P) + Cardinality(S \ P) - Cardinality((S \cap P) \cap (S \ P))
  BY <1>1, FS_Union
<1>3. (S \cap P) \cup (S \ P) = S /\ (S \cap P) \cap (S \ P) = {}
  OBVIOUS
<1>4. Cardinality(S \cap P) \in Nat /\ Cardinality(S \ P) \in Nat
  BY <1>1, FS_CardinalityType
<1>5. Cardinality((S \cap P) \cap (S \ P)) = 0
  BY <1>3, FS_EmptySet
<1>6. Cardinality(S) = Cardinality(S \cap P) + Cardinality(S \ P) - 0
  BY <1>2, <1>3, <1>5
<1>. QED BY <1>4, <1>6

LEMMA RescanKeeps == ASSUME WithheldInv, Rescan PROVE WithheldInv'
<1> DEFINE artifacts == Present(dir) \cap Published
           hashes == [p \in artifacts |-> dir[p]]
<1>1. /\ wpc = "rescan" /\ wpc' = "write"
      /\ base.unmatched = Cardinality(found) - Cardinality(artifacts)
      /\ base' = [base EXCEPT !.hashes = hashes]
      /\ UNCHANGED <<dir, changes, record, reveal, found, want, read, entry, drift, still,
                     uses>>
  BY DEF Rescan, dirVars
<1>2. /\ IsCommit(base, uses) /\ base.unmatched = Cardinality(found \ Published)
      /\ Differ(artifacts, found \cap Published)
      /\ reveal # Absent => Stands(reveal, record, base, base.salt)
  BY <1>1, WithheldTypes DEF BuildOK
<1>3. drift <= 1 => artifacts = found \cap Published
  <2>1. IsFiniteSet(found) /\ IsFiniteSet(found \cap Published) /\ IsFiniteSet(artifacts)
    <3>1. /\ artifacts \subseteq Paths /\ found \subseteq Paths
          /\ found \cap Published \subseteq Paths
      BY KeptFinite, WithheldTypes
    <3> HIDE DEF artifacts
    <3>. QED BY <3>1, PathsOK, FS_Subset
  <2>2. Cardinality(artifacts) \in Nat
    BY <2>1, FS_CardinalityType
  <2>3. /\ Cardinality(found) =
              Cardinality(found \cap Published) + Cardinality(found \ Published)
        /\ Cardinality(found \cap Published) \in Nat /\ Cardinality(found \ Published) \in Nat
    BY <2>1, SplitCount
  <2> HIDE DEF artifacts
  <2>4. Cardinality(artifacts) = Cardinality(found \cap Published)
    BY <1>1, <1>2, <2>2, <2>3
  <2>. QED BY <1>2, <2>1, <2>4, CountsDiffer, WithheldTypes
<1>4. DOMAIN hashes = artifacts /\ artifacts \subseteq Published
  OBVIOUS
<1> HIDE DEF hashes, artifacts
<1>5. /\ base' = [salt |-> base.salt, leaves |-> base.leaves, unmatched |-> base.unmatched,
                  hashes |-> hashes]
  BY <1>1, <1>2 DEF IsCommit
<1>6. IsCommit(base', uses)
  BY <1>2, <1>4, <1>5 DEF IsCommit
<1>7. base'.salt = base.salt /\ base'.leaves = base.leaves /\ base'.hashes = hashes
  BY <1>5
<1>8. WithheldTypeOK'
  BY <1>1, WithheldTypes DEF WithheldTypeOK, UseSteps
<1>9. SavedOK' /\ (reveal # Absent => Stands(reveal, record, base', base'.salt))
  <2>1. reveal # Absent => /\ Stands(reveal, record, base', uses)
                           /\ Stands(reveal, record, base', base.salt)
    <3>1. \A x \in {record, base'} :
             \/ x = Absent
             \/ x.salt \in Nat /\ x.salt <= base.salt
             \/ \E y \in {record, base} : y # Absent /\ y.salt = x.salt /\ y.leaves = x.leaves
      BY <1>2, <1>7 DEF IsCommit
    <3>2. base.salt \in Nat /\ uses <= base.salt
      BY <1>2, WithheldTypes DEF IsCommit
    <3>. QED BY <1>2, <3>1, <3>2, StandsStays, WithheldTypes
  <2>2. reveal # Absent => Stands(reveal, record, base', base'.salt)
    BY <1>7, <2>1
  <2>. QED BY <1>1, <2>1, <2>2, WithheldTypes DEF SavedOK
<1>10. BuildOK' /\ UseOK' /\ NewOK'
  BY <1>1, <1>6, <1>9 DEF BuildOK, UseOK, NewOK
<1>11. DriftCaught'
  BY <1>1, <1>3, <1>4, <1>7 DEF DriftCaught
<1>12. RevealSound' /\ RevealHasCause' /\ RevealWhole'
  BY <1>1 DEF RevealSound, RevealHasCause, RevealWhole
<1>. QED BY <1>8, <1>9, <1>10, <1>11, <1>12 DEF WithheldInv

\* A reveal or its verification loads the record.
LEMMA LoadKeeps ==
    ASSUME WithheldInv, base' = record, uses' \in Nat, uses' <= uses, Committed(record),
           UNCHANGED <<dirVars, record, reveal, found, drift, still>>
    PROVE  /\ SavedOK' /\ base' = record' /\ record' # Absent /\ Len(record'.leaves) > 0
           /\ \A r : Stands(r, record, base, uses) => Stands(r, record', base', uses')
<1>1. record # Absent /\ record.leaves # <<>> /\ IsCommit(record, uses)
  BY WithheldTypes DEF Committed, SavedOK
<1>2. Len(record.leaves) > 0
  <2>1. IsList(record.leaves)
    BY <1>1 DEF IsCommit, LeafList
  <2>2. /\ Len(record.leaves) \in Nat
        /\ record.leaves = [i \in 1 .. Len(record.leaves) |-> record.leaves[i]]
    BY <2>1, ListLen
  <2>3. ASSUME Len(record.leaves) = 0 PROVE FALSE
    <3>1. record.leaves = [i \in 1 .. 0 |-> record.leaves[i]]
      BY <2>2, <2>3
    <3>2. record.leaves = <<>>
      <4>1. record.leaves \in [1 .. 0 -> {}]
        BY <3>1
      <4>2. record.leaves \in Seq({})
        BY <4>1
      <4>. QED BY <2>3, <4>2
    <3>. QED BY <1>1, <3>2
  <2>. QED BY <2>2, <2>3
<1>3. IsCommit(record, uses')
  BY <1>1, CommitStays, WithheldTypes
<1>4. ASSUME NEW r, Stands(r, record, base, uses) PROVE Stands(r, record, record, uses')
  <2>1. \A x \in {record, record} :
           \/ x = Absent
           \/ x.salt \in Nat /\ x.salt <= uses
           \/ \E y \in {record, base} : y # Absent /\ y.salt = x.salt /\ y.leaves = x.leaves
    OBVIOUS
  <2>. QED BY <1>4, <2>1, StandsStays, WithheldTypes
<1>5. SavedOK'
  BY <1>3, <1>4, WithheldTypes DEF SavedOK
<1>. QED BY <1>1, <1>2, <1>4, <1>5

LEMMA RevealKeeps == ASSUME WithheldInv, NEW p \in Paths, Reveal(p) PROVE WithheldInv'
<1>1. /\ wpc = "idle" /\ wpc' = "tree" /\ uses' \in Nat /\ uses' <= uses /\ Committed(record)
      /\ base' = record /\ want' = p
      /\ UNCHANGED <<dirVars, record, reveal, found, read, entry, drift, still>>
  BY WithheldTypes DEF Reveal, Use
<1>2. SavedOK' /\ base' = record' /\ record' # Absent /\ Len(record'.leaves) > 0
  BY <1>1, LoadKeeps
<1>3. WithheldTypeOK'
  BY <1>1, WithheldTypes DEF WithheldTypeOK, UseSteps, dirVars
<1>4. BuildOK' /\ UseOK' /\ NewOK'
  BY <1>1, <1>2 DEF BuildOK, UseOK, NewOK
<1>5. DriftCaught' /\ RevealSound' /\ RevealHasCause' /\ RevealWhole'
  BY <1>1 DEF DriftCaught, RevealSound, RevealHasCause, RevealWhole
<1>. QED BY <1>2, <1>3, <1>4, <1>5 DEF WithheldInv

LEMMA VerifyRevealKeeps == ASSUME WithheldInv, VerifyReveal PROVE WithheldInv'
<1>1. /\ wpc = "idle" /\ wpc' = "recheck" /\ uses' \in Nat /\ uses' <= uses
      /\ Committed(record) /\ reveal # Absent /\ base' = record /\ entry' = reveal
      /\ UNCHANGED <<dirVars, record, reveal, found, want, read, drift, still>>
  BY WithheldTypes DEF VerifyReveal, Use
<1>2. /\ SavedOK' /\ base' = record' /\ record' # Absent /\ Len(record'.leaves) > 0
      /\ \A r : Stands(r, record, base, uses) => Stands(r, record', base', uses')
  BY <1>1, LoadKeeps
<1>3. want' = Absent /\ IsReveal(entry') /\ Stands(entry', record', base', uses')
  BY <1>1, <1>2, WithheldTypes DEF BuildOK, SavedOK
<1>4. WithheldTypeOK'
  BY <1>1, WithheldTypes DEF WithheldTypeOK, UseSteps, dirVars
<1>5. BuildOK' /\ UseOK' /\ NewOK'
  BY <1>1, <1>2, <1>3 DEF BuildOK, UseOK, NewOK
<1>6. DriftCaught' /\ RevealSound' /\ RevealHasCause' /\ RevealWhole'
  BY <1>1 DEF DriftCaught, RevealSound, RevealHasCause, RevealWhole
<1>. QED BY <1>2, <1>4, <1>5, <1>6 DEF WithheldInv

LEMMA BuildTreeKeeps == ASSUME WithheldInv, BuildTree PROVE WithheldInv'
<1> DEFINE leaves == Leaves(dir, base.salt)
           index == Rank(Kept(dir), want)
           new == [path |-> want, leaf |-> leaves[index + 1],
                   proof |-> MerkleProof(leaves, index), edited |-> FALSE]
<1>1. /\ wpc = "tree" /\ wpc' = "recheck" /\ want \in Kept(dir) /\ read' = leaves
      /\ entry' = new
      /\ UNCHANGED <<dirVars, record, reveal, base, found, want, drift, still, uses>>
  BY DEF BuildTree
<1>2. want \in Paths /\ want # Absent /\ dir[want] # Absent
  <2>1. want \in Present(dir) /\ want \in Paths
    BY <1>1, KeptFinite DEF Kept
  <2>. QED BY <2>1, AbsentOK DEF Present
<1>3. /\ LeafList(leaves) /\ index \in 0 .. Len(leaves) - 1
      /\ leaves[index + 1] = Leaf(base.salt, want, dir[want])
  BY <1>1, LeavesOf
<1> HIDE DEF leaves, index
<1>4. /\ IsList(MerkleProof(leaves, index))
      /\ VerifyProof(leaves[index + 1], MerkleProof(leaves, index), MerkleRoot(leaves))
  BY <1>3, ProofComplete DEF LeafList
<1>5. /\ new.path = want /\ new.leaf = leaves[index + 1]
      /\ new.proof = MerkleProof(leaves, index) /\ new.edited = FALSE
  OBVIOUS
<1>6. IsReveal(new)
  <2>1. Len(MerkleProof(leaves, index)) \in Nat
    BY <1>4, ListLen
  <2>. QED BY <1>2, <2>1 DEF IsReveal
<1> HIDE DEF new
<1>7. NewOK'
  <2>1. Len(leaves) > 0
    <3>1. Len(leaves) \in Nat
      BY <1>3, ListLen DEF LeafList
    <3>. QED BY <1>3, <3>1
  <2>2. leaves = Leaves(dir, base.salt)' /\ UNCHANGED <<dir, base>>
    BY <1>1 DEF dirVars, leaves, Leaves, Kept, Present
  <2>. QED BY <1>1, <1>2, <1>3, <1>4, <1>5, <2>1, <2>2 DEF NewOK
<1>8. WithheldTypeOK' /\ SavedOK'
  BY <1>1, WithheldTypes DEF WithheldTypeOK, UseSteps, dirVars, SavedOK
<1>9. BuildOK' /\ UseOK'
  BY <1>1, <1>2, <1>6, WithheldTypes DEF BuildOK, UseOK
<1>10. DriftCaught' /\ RevealSound' /\ RevealHasCause' /\ RevealWhole'
  BY <1>1 DEF DriftCaught, RevealSound, RevealHasCause, RevealWhole
<1>. QED BY <1>7, <1>8, <1>9, <1>10 DEF WithheldInv

\* What it takes to hold, and what holding shows.
LEMMA HoldsIs ==
    ASSUME WithheldInv, wpc = "recheck"
    PROVE  /\ RevealHolds => \E c \in Contents : entry.leaf = Leaf(base.salt, entry.path, c)
           /\ RevealHolds => \E i \in DOMAIN base.leaves : base.leaves[i] = entry.leaf
           /\ RevealHolds /\ want # Absent => read = base.leaves
           /\ RevealHolds => Stands(entry, record, base, uses)
<1>1. /\ base = record /\ record # Absent /\ Len(base.leaves) > 0 /\ IsReveal(entry)
      /\ LeafList(base.leaves) /\ base.salt \in Nat /\ base.salt > uses
  BY WithheldTypes DEF UseOK, SavedOK, IsCommit
<1> SUFFICES ASSUME RevealHolds
             PROVE  /\ \E c \in Contents : entry.leaf = Leaf(base.salt, entry.path, c)
                    /\ \E i \in DOMAIN base.leaves : base.leaves[i] = entry.leaf
                    /\ want # Absent => read = base.leaves
                    /\ Stands(entry, record, base, uses)
  OBVIOUS
<1>2. /\ entry.leaf = Leaf(base.salt, entry.path, dir[entry.path])
      /\ VerifyProof(entry.leaf, entry.proof, MerkleRoot(base.leaves))
      /\ dir[entry.path] \in Contents
  <2>1. entry.path \in Paths
    BY <1>1 DEF IsReveal
  <2>. QED BY <2>1, WithheldTypes DEF RevealHolds, Root
<1>3. \E i \in DOMAIN base.leaves : base.leaves[i] = entry.leaf
  <2>1. entry.leaf[1] = "leaf" /\ Len(entry.proof) \in Nat
    BY <1>1, <1>2 DEF Leaf, IsReveal
  <2>2. \E i \in 1 .. Len(base.leaves) : entry.leaf = base.leaves[i]
    BY <1>1, <1>2, <2>1, ProofSound
  <2>3. DOMAIN base.leaves = 1 .. Len(base.leaves)
    BY <1>1, ListLen DEF LeafList
  <2>. QED BY <2>2, <2>3
<1>4. ASSUME want # Absent PROVE read = base.leaves
  <2>1. /\ LeafList(read) /\ Len(read) > 0
        /\ VerifyProof(entry.leaf, entry.proof, MerkleRoot(read))
    BY <1>4, WithheldTypes DEF NewOK
  <2>2. MerkleRoot(read) = MerkleRoot(base.leaves)
    BY <1>2, <2>1 DEF VerifyProof
  <2>. QED BY <1>1, <2>1, <2>2, RootFixesLeaves
<1>5. Stands(entry, record, base, uses)
  BY <1>1, <1>2 DEF Stands, Root
<1>. QED BY <1>2, <1>3, <1>4, <1>5

LEMMA RecheckKeeps == ASSUME WithheldInv, Recheck PROVE WithheldInv'
<1>1. /\ wpc = "recheck"
      /\ wpc' = IF ~RevealHolds THEN "failed" ELSE IF want = Absent THEN "revealed" ELSE "out"
      /\ UNCHANGED <<dir, changes, record, reveal, base, found, want, read, entry, drift, still,
                     uses>>
  BY DEF Recheck, dirVars, local
<1>2. WithheldTypeOK' /\ SavedOK'
  BY <1>1, WithheldTypes DEF WithheldTypeOK, UseSteps, SavedOK
<1>3. BuildOK' /\ NewOK' /\ DriftCaught'
  BY <1>1 DEF BuildOK, NewOK, DriftCaught
<1>4. wpc' \in {"out", "revealed"} => RevealHolds
  BY <1>1
<1>5. UseOK'
  BY <1>1, <1>4, HoldsIs, WithheldTypes DEF UseOK
<1>6. RevealSound'
  BY <1>1, <1>4, HoldsIs DEF RevealSound
<1>7. RevealWhole'
  BY <1>1, <1>4, HoldsIs DEF RevealWhole
<1>8. RevealHasCause'
  <2> SUFFICES ASSUME still, ~RevealHolds
               PROVE  IF want # Absent THEN Leaves(dir, base.salt) # base.leaves
                      ELSE \/ entry.edited
                           \/ entry.leaf # Leaf(base.salt, entry.path, dir[entry.path])
    BY <1>1 DEF RevealHasCause, Leaves, Kept, Present
  <2>1. CASE want # Absent
    <3>1. /\ VerifyProof(entry.leaf, entry.proof, MerkleRoot(read))
          /\ read = Leaves(dir, base.salt) /\ dir[entry.path] # Absent
          /\ entry.leaf = Leaf(base.salt, entry.path, dir[entry.path])
      BY <1>1, <2>1, WithheldTypes DEF NewOK
    <3>. QED BY <2>1, <3>1 DEF RevealHolds, Root
  <2>2. CASE want = Absent
    <3> SUFFICES ASSUME ~entry.edited,
                        entry.leaf = Leaf(base.salt, entry.path, dir[entry.path])
                 PROVE  FALSE
      BY <2>2
    <3>1. Stands(entry, record, base, uses) /\ base = record /\ record # Absent
      BY <1>1, <2>2, WithheldTypes DEF UseOK
    <3>2. PICK s \in Nat, c \in Contents :
             /\ entry.leaf = Leaf(s, entry.path, c)
             /\ \A x \in {record, base} :
                   x # Absent /\ x.salt = s => VerifyProof(entry.leaf, entry.proof, Root(x))
      BY <3>1 DEF Stands
    <3>3. s = base.salt /\ c = dir[entry.path]
      BY <3>2 DEF Leaf
    <3>4. dir[entry.path] # Absent
      BY <3>3, AbsentOK
    <3>5. VerifyProof(entry.leaf, entry.proof, Root(base))
      BY <3>1, <3>2, <3>3
    <3>. QED BY <3>4, <3>5 DEF RevealHolds
  <2>. QED BY <2>1, <2>2
<1>. QED BY <1>2, <1>3, <1>5, <1>6, <1>7, <1>8 DEF WithheldInv

\* A file that is created or removed between the two scans takes one more to undo.
LEMMA ChangeFileKeeps ==
    ASSUME WithheldInv, NEW p \in Paths, NEW c \in Contents \cup {Absent}, ChangeFile(p, c)
    PROVE  WithheldInv'
<1> DEFINE counted == wpc = "rescan" /\ p \in Published /\ Absent \in {c, dir[p]}
           now == Present(dir) \cap Published
           before == found \cap Published
<1>1. /\ (still => wpc = "idle") /\ changes > 0 /\ changes' = changes - 1 /\ c # dir[p]
      /\ dir' = [dir EXCEPT ![p] = c] /\ drift' = IF counted THEN drift + 1 ELSE drift
      /\ UNCHANGED <<record, wpc, base, found, want, read, entry, still, uses, reveal>>
  BY DEF ChangeFile, Change
<1>2. WithheldTypeOK'
  <2>1. dir' \in [Paths -> Contents \cup {Absent}]
    BY <1>1, WithheldTypes
  <2>2. changes' \in Nat /\ drift' \in Nat
    BY <1>1, WithheldTypes
  <2>. QED BY <1>1, <2>1, <2>2, WithheldTypes DEF WithheldTypeOK
<1>3. SavedOK' /\ UseOK'
  BY <1>1, WithheldTypes DEF SavedOK, UseOK
<1>4. NewOK'
  BY <1>1, WithheldTypes DEF NewOK
<1>5. ASSUME wpc = "rescan" PROVE Differ(now, before)'
  <2>1. Differ(now, before) /\ before' = before
    BY <1>1, <1>5, WithheldTypes DEF BuildOK
  <2>2. \A q \in Paths : dir'[q] = IF q = p THEN c ELSE dir[q]
    BY <1>1, WithheldTypes
  <2>3. \A q : q \in now <=> q \in Paths /\ q \in Published /\ dir[q] # Absent
    BY DEF Present
  <2>4. \A q : q \in now' <=> q \in Paths /\ q \in Published /\ dir'[q] # Absent
    BY DEF Present
  <2> HIDE DEF now, before
  <2>5. CASE counted
    <3>1. \/ p \notin now /\ now' = now \cup {p}
          \/ p \in now /\ now' = now \ {p}
      <4>1. CASE c = Absent
        BY <1>1, <2>2, <2>3, <2>4, <2>5, <4>1
      <4>2. CASE c # Absent
        BY <1>1, <2>2, <2>3, <2>4, <2>5, <4>2
      <4>. QED BY <4>1, <4>2
    <3>2. drift' = drift + 1 /\ drift \in Nat
      BY <1>1, <2>5, WithheldTypes
    <3>3. drift' = 1 => drift = 0
      BY <3>2
    <3>4. drift' # 0
      BY <3>2
    <3>5. drift' = 1 => now = before
      BY <2>1, <3>3 DEF Differ
    <3>. QED BY <2>1, <3>1, <3>4, <3>5 DEF Differ
  <2>6. CASE ~counted
    <3>1. now' = now
      <4>1. p \in Published => c # Absent /\ dir[p] # Absent
        BY <1>5, <2>6
      <4>2. \A q : q \in now' <=> q \in now
        BY <2>2, <2>3, <2>4, <4>1
      <4>. QED BY <4>2
    <3>2. drift' = drift
      BY <1>1, <2>6
    <3>. QED BY <2>1, <3>1, <3>2 DEF Differ
  <2>. QED BY <2>5, <2>6
<1>6. BuildOK'
  <2>1. wpc # "rescan" => drift' = drift
    BY <1>1
  <2>. QED BY <1>1, <1>5, <2>1, WithheldTypes DEF BuildOK
<1>7. DriftCaught'
  <2>1. wpc # "rescan" => drift' = drift
    BY <1>1
  <2>. QED BY <1>1, <2>1, WithheldTypes DEF DriftCaught
<1>8. RevealSound' /\ RevealHasCause' /\ RevealWhole'
  BY <1>1, WithheldTypes DEF RevealSound, RevealHasCause, RevealWhole
<1>. QED BY <1>2, <1>3, <1>4, <1>6, <1>7, <1>8 DEF WithheldInv

LEMMA EditRevealKeeps ==
    ASSUME WithheldInv, NEW p \in Paths, EditReveal(p)
    PROVE  WithheldInv'
<1>1. /\ (still => wpc = "idle") /\ changes > 0 /\ changes' = changes - 1
      /\ reveal # Absent
      /\ UNCHANGED <<record, wpc, base, found, want, read, entry, still, uses, dir, drift>>
  BY DEF EditReveal, Change
<1>2. IsReveal(reveal)
  BY <1>1, WithheldTypes DEF SavedOK
<1>3. /\ reveal' = [path |-> reveal'.path, leaf |-> reveal'.leaf, proof |-> reveal'.proof,
                    edited |-> reveal'.edited]
      /\ reveal'.path = p /\ reveal'.proof = reveal.proof /\ reveal'.edited = TRUE
  <2>1. reveal = [path |-> reveal.path, leaf |-> reveal.leaf, proof |-> reveal.proof,
                  edited |-> reveal.edited]
    BY <1>2 DEF IsReveal
  <2>2. CASE reveal' = [reveal EXCEPT !.path = p, !.edited = TRUE]
    <3>1. reveal' = [path |-> p, leaf |-> reveal.leaf, proof |-> reveal.proof,
                     edited |-> TRUE]
      BY <2>1, <2>2
    <3>. QED BY <3>1
  <2>3. CASE reveal' = [reveal EXCEPT !.path = p, !.edited = TRUE,
                                      !.leaf = Leaf(record.salt, p, dir[p])]
    <3>1. reveal' = [path |-> p, leaf |-> Leaf(record.salt, p, dir[p]),
                     proof |-> reveal.proof, edited |-> TRUE]
      BY <2>1, <2>3
    <3>. QED BY <3>1
  <2>. QED BY <2>2, <2>3 DEF EditReveal
<1>4. IsReveal(reveal') /\ \A saved, held, left : Stands(reveal', saved, held, left)
  BY <1>2, <1>3 DEF IsReveal, Stands
<1>5. WithheldTypeOK'
  BY <1>1, <1>3, WithheldTypes DEF WithheldTypeOK
<1>6. SavedOK'
  BY <1>1, <1>4, WithheldTypes DEF SavedOK
<1>7. BuildOK'
  BY <1>1, <1>4, WithheldTypes DEF BuildOK, Differ, Present
<1>8. UseOK' /\ NewOK'
  BY <1>1, WithheldTypes DEF UseOK, NewOK, Leaves, Kept, Present
<1>9. DriftCaught' /\ RevealSound' /\ RevealHasCause' /\ RevealWhole'
  BY <1>1, WithheldTypes DEF DriftCaught, RevealSound, RevealHasCause, RevealWhole
<1>. QED BY <1>5, <1>6, <1>7, <1>8, <1>9 DEF WithheldInv
-----------------------------------------------------------------------------
(* The theorems. *)

LEMMA WithheldInductive ==
    ASSUME WithheldInv, [WithheldNext]_withheldVars
    PROVE  WithheldInv'
<1>1. CASE UNCHANGED withheldVars
  <2>1. UNCHANGED <<dir, changes, record, reveal, base, found, want, read, entry, drift,
                    still, wpc, uses>>
    BY <1>1 DEF withheldVars, dirVars, local
  <2>2. WithheldTypeOK' /\ SavedOK' /\ UseOK'
    BY <2>1, WithheldTypes DEF WithheldTypeOK, SavedOK, UseOK
  <2>3. BuildOK' /\ NewOK'
    <3>1. /\ Present(dir)' = Present(dir) /\ Leaves(dir, base.salt)' = Leaves(dir, base.salt)
          /\ \A now, before : Differ(now, before)' <=> Differ(now, before)
      BY <2>1 DEF Differ, Leaves, Kept, Present
    <3>2. BuildOK'
      BY <2>1, <3>1, WithheldTypes DEF BuildOK, Differ
    <3>3. NewOK'
      BY <2>1, <3>1, WithheldTypes DEF NewOK
    <3>. QED BY <3>2, <3>3
  <2>4. DriftCaught' /\ RevealSound' /\ RevealWhole'
    BY <2>1, WithheldTypes DEF DriftCaught, RevealSound, RevealWhole
  <2>5. RevealHasCause'
    BY <2>1, WithheldTypes DEF RevealHasCause, Leaves, Kept, Present
  <2>. QED BY <2>2, <2>3, <2>4, <2>5 DEF WithheldInv
<1>2. ASSUME NEW p \in Paths, NEW c \in Contents \cup {Absent}, ChangeFile(p, c)
      PROVE  WithheldInv'
  BY <1>2, ChangeFileKeeps
<1>3. ASSUME NEW p \in Paths, EditReveal(p) PROVE WithheldInv'
  BY <1>3, EditRevealKeeps
<1>4. ASSUME NEW p \in Paths, Reveal(p) PROVE WithheldInv'
  BY <1>4, RevealKeeps
<1>5. CASE ScanAndCommit
  BY <1>5, ScanAndCommitKeeps
<1>6. CASE Rescan
  BY <1>6, RescanKeeps
<1>7. CASE WriteRecord
  BY <1>7, WriteRecordKeeps
<1>8. CASE BuildTree
  BY <1>8, BuildTreeKeeps
<1>9. CASE VerifyReveal
  BY <1>9, VerifyRevealKeeps
<1>10. CASE Recheck
  BY <1>10, RecheckKeeps
<1>11. CASE WriteReveal
  BY <1>11, WriteRevealKeeps
<1>12. CASE EndUse
  BY <1>12, EndUseKeeps
<1>. QED BY <1>1, <1>2, <1>3, <1>4, <1>5, <1>6, <1>7, <1>8, <1>9, <1>10, <1>11, <1>12
         DEF WithheldNext, WithheldCommand

LEMMA WithheldAlways == WithheldSpec => []WithheldInv
<1>. QED BY WithheldInvInit, WithheldInductive, PTL DEF WithheldSpec

\* The variables of Withheld keep their types, for every directory, number of changes
\* and number of commands.
THEOREM WithheldTypeCorrect == WithheldSpec => []WithheldTypeOK
<1>1. WithheldInv => WithheldTypeOK
  BY DEF WithheldInv
<1>. QED BY <1>1, WithheldAlways, PTL

\* build_manifest compares its two scans by number alone, and still a single file that
\* comes or goes between them never gets a record written: for every directory.
THEOREM ScansCorrect == WithheldSpec => []DriftCaught
<1>1. WithheldInv => DriftCaught
  BY DEF WithheldInv
<1>. QED BY <1>1, WithheldAlways, PTL

\* A reveal that is written or verifies is of a leaf that was committed to, whatever
\* the number of withheld files, the edits of the reveal and the changes around it.
THEOREM RevealsSound == WithheldSpec => []RevealSound
<1>1. WithheldInv => RevealSound
  BY DEF WithheldInv
<1>. QED BY <1>1, WithheldAlways, PTL

\* A reveal is refused only for a cause: an honest proof climbs to the root for every
\* number of files and every position in the tree.
THEOREM RefusalsCaused == WithheldSpec => []RevealHasCause
<1>1. WithheldInv => RevealHasCause
  BY DEF WithheldInv
<1>. QED BY <1>1, WithheldAlways, PTL

\* A new reveal is written only where the whole withheld set is the one committed to,
\* though only the root is compared.
THEOREM RevealsWhole == WithheldSpec => []RevealWhole
<1>1. WithheldInv => RevealWhole
  BY DEF WithheldInv
<1>. QED BY <1>1, WithheldAlways, PTL
=============================================================================
