----------------------------- MODULE WitnessTree -----------------------------
(***************************************************************************)
(* The witness builder's tree (perch-zk-prover/src/tree.rs and its twin    *)
(* tree.ts), which stores the roots of completed subtrees and reads back   *)
(* the leaves of one chunk.                                                *)
(***************************************************************************)
EXTENDS MerkleTree

CONSTANT ChunkLevel    \* subtrees at or above this level are stored

ASSUME ChunkAssumption == ChunkLevel \in 0..Depth

Missing == <<"missing">>

EmptyIncremental == [size |-> 0, frontier |-> [l \in 0..Depth - 1 |-> Zero[l]]]

(* The first level at which the next leaf's path is a left child.          *)
Stop(index) ==
    CHOOSE l \in 0..Depth :
        /\ l < Depth => IsLeft(index, l)
        /\ \A m \in 0..l - 1 : ~IsLeft(index, m)

Carry(tree, leaf) ==
    LET cur == Climb(leaf, tree.size, [l \in 1..Depth |-> tree.frontier[l - 1]])
    IN  [l \in 0..Stop(tree.size) |-> cur[l]]

(* Mutant: only the nodes above the chunk level are stored.                *)
CompletedAbove(tree, leaf) ==
    [k \in {<<l, Shift(tree.size, l)>> : l \in {m \in 0..Stop(tree.size) : m > ChunkLevel}} |->
        Carry(tree, leaf)[k[1]]]

(* The nodes appending leaf completes at or above the chunk level.         *)
Completed(tree, leaf) ==
    [k \in {<<l, Shift(tree.size, l)>> : l \in {m \in 0..Stop(tree.size) : m >= ChunkLevel}} |->
        Carry(tree, leaf)[k[1]]]

AppendIncremental(tree, leaf) ==
    LET stop == Stop(tree.size)
    IN  [size |-> tree.size + 1,
         frontier |-> [l \in 0..Depth - 1 |->
                          IF l = stop THEN Carry(tree, leaf)[l] ELSE tree.frontier[l]]]

(* The leaves from..to-1, as the tree's caller reads them from its store.  *)
Read(leaves, from, to) == [i \in 1..to - from |-> leaves[from + i - 1]]

(* The node at (level, index) of a tree of the given size.                 *)
NodeValue(size, nodes, leaves, level, index) ==
    LET at[l \in 0..Depth] ==
            [i \in 0..Pow2[Depth - l] - 1 |->
                LET start == i * Pow2[l]
                    complete == start + Pow2[l] <= size
                IN  IF start >= size THEN Zero[l]
                    ELSE IF complete /\ l >= ChunkLevel
                    THEN IF <<l, i>> \in DOMAIN nodes THEN nodes[<<l, i>>] ELSE Missing
                    ELSE IF l <= ChunkLevel
                    THEN Subtree(Read(leaves, start, IF complete THEN start + Pow2[l] ELSE size), l)[l][0]
                    ELSE Node(at[l - 1][2 * i], at[l - 1][2 * i + 1])]
    IN  at[level][index]

Witness(size, nodes, leaves, index) ==
    LET start  == Shift(index, ChunkLevel) * Pow2[ChunkLevel]
        end    == IF start + Pow2[ChunkLevel] < size THEN start + Pow2[ChunkLevel] ELSE size
        levels == Subtree(Read(leaves, start, end), ChunkLevel)
    IN  [root |-> NodeValue(size, nodes, leaves, Depth, 0),
         siblings |-> [l \in 1..Depth |->
            IF l <= ChunkLevel
            THEN levels[l - 1][Sibling(Shift(index - start, l - 1))]
            ELSE NodeValue(size, nodes, leaves, l - 1, Sibling(Shift(index, l - 1)))]]
==============================================================================
