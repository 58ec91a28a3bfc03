----------------------------- MODULE MerkleTree -----------------------------
(***************************************************************************)
(* The hashes of perch-zk-primitives, and the incremental Merkle tree over *)
(* them of perch-zk-pool/src/merkle.rs, which computes one root per        *)
(* insertion from a frontier.                                              *)
(*                                                                         *)
(* A field element is a tuple whose first member is a string. H is         *)
(* Poseidon2, taken to be free: it is its own inputs. A 32-byte id is the  *)
(* pair of its 16-byte halves.                                             *)
(***************************************************************************)
EXTENDS Integers, Sequences

CONSTANT Depth    \* the depth of a tree

ASSUME DepthAssumption == Depth \in Nat \ {0}

Field(x) == <<"field", x>>

H(inputs) == <<"H", inputs>>

Node(left, right) == H(<<left, right>>)

(* A 32-byte id's big-endian halves, each zero-extended to a field element. *)
Hi(x) == Field(x[1])

Lo(x) == Field(x[2])

Commitment(secret) == H(<<Field("DOM_LEAF"), secret>>)

Bind(account, enrollment, inner) ==
    H(<<Field("DOM_BIND"), Hi(account), Lo(account), Hi(enrollment), Lo(enrollment), inner>>)

Nullifier(account, enrollment, secret) ==
    H(<<Field("DOM_NULLIFIER"), Hi(account), Lo(account), Hi(enrollment), Lo(enrollment), secret>>)

StatementHash(account, enrollment, digest) ==
    H(<<Field("DOM_AUTH"), Hi(account), Lo(account), Hi(enrollment), Lo(enrollment),
        Hi(digest), Lo(digest)>>)

(* Zero[i] is the root of an empty subtree of height i.                    *)
Zero[i \in 0..Depth] == IF i = 0 THEN Field(0) ELSE Node(Zero[i - 1], Zero[i - 1])

Pow2[l \in 0..Depth] == IF l = 0 THEN 1 ELSE 2 * Pow2[l - 1]

Capacity == Pow2[Depth]

Shift(index, level) == index \div Pow2[level]

IsLeft(index, level) == Shift(index, level) % 2 = 0

Sibling(index) == IF index % 2 = 0 THEN index + 1 ELSE index - 1

(* From a leaf to the root, hashing with one sibling per level: the value  *)
(* at each level.                                                          *)
Climb(leaf, index, siblings) ==
    LET cur[l \in 0..Depth] ==
            IF l = 0 THEN leaf
            ELSE IF IsLeft(index, l - 1) THEN Node(cur[l - 1], siblings[l])
            ELSE Node(siblings[l], cur[l - 1])
    IN  cur

(* The circuit's and the clients' check of a path.                         *)
RootFromPath(leaf, index, siblings) == Climb(leaf, index, siblings)[Depth]

(***************************************************************************)
(* The pool's tree.                                                        *)
(***************************************************************************)
EmptyTree ==
    [size |-> 0, root |-> Zero[Depth], frontier |-> [l \in 0..Depth - 1 |-> Zero[l]]]

(* Along the path of index size: a left child is kept in the frontier and  *)
(* paired with an empty subtree, a right child with the kept left one.     *)
AppendLeaf(tree, leaf) ==
    LET beside == [l \in 1..Depth |->
                      IF IsLeft(tree.size, l - 1) THEN Zero[l - 1] ELSE tree.frontier[l - 1]]
        cur == Climb(leaf, tree.size, beside)
    IN  [size |-> tree.size + 1,
         root |-> cur[Depth],
         frontier |-> [l \in 0..Depth - 1 |->
                          IF IsLeft(tree.size, l) THEN cur[l] ELSE tree.frontier[l]]]

(* Every level of the subtree of the given height over leaves, padded.     *)
Subtree(leaves, height) ==
    LET level[l \in 0..height] ==
            [i \in 0..Pow2[height - l] - 1 |->
                IF l = 0
                THEN IF i + 1 \in DOMAIN leaves THEN leaves[i + 1] ELSE Zero[0]
                ELSE Node(level[l - 1][2 * i], level[l - 1][2 * i + 1])]
    IN  level
=============================================================================
