------------------------------- MODULE Merkle -------------------------------
(***************************************************************************)
(* The tree over the withheld files.  A digest stands for what it is       *)
(* taken of: a leaf for salt, path and content, a node for its children.   *)
(***************************************************************************)
EXTENDS Naturals, Sequences

Leaf(salt, path, content) == <<"leaf", salt, path, content>>

Parent(left, right) == <<"node", left, right>>

\* Mutant: an odd leaf is paired with itself.
LevelUpPaired(level) ==
    [i \in 1 .. (Len(level) + 1) \div 2 |->
        Parent(level[2 * i - 1], IF 2 * i <= Len(level) THEN level[2 * i]
                                 ELSE level[2 * i - 1])]

\* The next level: an odd last node moves up as it is.
LevelUp(level) ==
    [i \in 1 .. (Len(level) + 1) \div 2 |->
        IF 2 * i <= Len(level) THEN Parent(level[2 * i - 1], level[2 * i])
        ELSE level[2 * i - 1]]

\* All levels, from the leaves at 0.
Tree(leaves) ==
    LET level[k \in Nat] == IF k = 0 THEN leaves ELSE LevelUp(level[k - 1]) IN level

\* The level where one node is left, or none.
Height(leaves) ==
    CHOOSE h \in 0 .. Len(leaves) :
       /\ Len(Tree(leaves)[h]) <= 1
       /\ \A g \in 0 .. h - 1 : Len(Tree(leaves)[g]) > 1

MerkleRoot(leaves) ==
    IF leaves = <<>> THEN <<"empty">> ELSE Tree(leaves)[Height(leaves)][1]

\* What one level adds to the proof of the node with that index, counted from 0:
\* its sibling, and nothing for an odd last node.
ProofStep(level, index) ==
    IF index % 2 = 1 THEN <<[side |-> "left", hash |-> level[index]]>>
    ELSE IF index + 1 < Len(level) THEN <<[side |-> "right", hash |-> level[index + 2]]>>
    ELSE <<>>

\* The index on each level of what is above that leaf, and the proof so far.
Walk(leaves, index) ==
    LET walk[k \in Nat] ==
            IF k = 0 THEN [index |-> index, proof |-> <<>>]
            ELSE LET below == walk[k - 1]
                 IN [index |-> below.index \div 2,
                     proof |-> below.proof \o ProofStep(Tree(leaves)[k - 1], below.index)]
    IN walk

MerkleProof(leaves, index) == Walk(leaves, index)[Height(leaves)].proof

\* What a leaf comes to with each step of a proof.
Climb(leaf, proof) ==
    LET current[k \in Nat] ==
            IF k = 0 THEN leaf
            ELSE IF proof[k].side = "left" THEN Parent(proof[k].hash, current[k - 1])
            ELSE Parent(current[k - 1], proof[k].hash)
    IN current

VerifyProof(leaf, proof, root) == Climb(leaf, proof)[Len(proof)] = root
=============================================================================
