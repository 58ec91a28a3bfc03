--------------------------- MODULE MembershipPool ---------------------------
(***************************************************************************)
(* perch-zk-pool: account-bound commitments in rolling Merkle trees, and   *)
(* the relation a proof of membership shows (circuits/perch_zk), checked   *)
(* by perch-zk-adapter against a root the pool has had.                    *)
(*                                                                         *)
(* Every entry is persistent: an archived one is restored when it is       *)
(* accessed, so expiry is not part of the state.                           *)
(***************************************************************************)
EXTENDS MerkleTree

CONSTANTS
    None,
    Addresses,      \* addresses that may ask for an insertion
    ContractId,     \* the 32-byte id of those that are contracts
    Enrollments,    \* enrollment ids
    Secrets,        \* secrets of credentials
    Commitments,    \* what may be handed in as a commitment: 32 bytes
    TreeIdMax,      \* u32::MAX
    MaxPage,        \* leaves per page
    CircuitId,      \* the circuit the adapter verifies
    Circuits,       \* circuits a document may name
    Subjects,       \* what a recovery statement may ask for
    MaxInserts      \* bound on insertions

(* An id is its two halves, and a page is a number of leaves.              *)
ASSUME PoolAssumption ==
    /\ \A a, b \in DOMAIN ContractId :
          ContractId[a][1] = ContractId[b][1] /\ ContractId[a][2] = ContractId[b][2] => a = b
    /\ \A e, f \in Enrollments : e[1] = f[1] /\ e[2] = f[2] => e = f
    /\ MaxPage \in Nat

(* Refusals.                                                               *)
PoolErrors == {"AccountNotContract", "NonCanonicalCommitment", "EnrollmentIdTaken", "TreeIdOverflow"}

VerifyErrors ==
    {"CircuitMismatch", "InvalidStatement", "NonCanonicalField", "MalformedProof", "UnknownRoot",
     "ProofRejected"}

ASSUME NoneAssumption == None \notin PoolErrors \cup VerifyErrors

VARIABLES
    currentTree,    \* the tree insertions go into
    trees,          \* TreeState of the trees with a leaf
    roots,          \* <<tree, root>> |-> size when the root was produced
    leaves,         \* <<tree, index>> |-> leaf
    enrollments,    \* <<account, enrollment id>> |-> position of its leaf
    events          \* LeafInserted events, in order

poolVars == <<currentTree, trees, roots, leaves, enrollments, events>>

(* 32 bytes are a field element read modulo the field's order, and whether *)
(* they are at or above it.                                                *)
Canonical(x) == [elem |-> x, over |-> FALSE]

IsCanonicalField(bytes) == ~bytes.over

Put(f, key, value) == [k \in DOMAIN f \cup {key} |-> IF k = key THEN value ELSE f[k]]

TreeAt(id) == IF id \in DOMAIN trees THEN trees[id] ELSE EmptyTree

Opened(id) == id <= currentTree

Claimed(account, enrollment) == <<account, enrollment>> \in DOMAIN enrollments

PoolInit ==
    /\ currentTree = 0
    /\ trees = <<>>
    /\ roots = <<>>
    /\ leaves = <<>>
    /\ enrollments = <<>>
    /\ events = <<>>

(* Mutant: the next tree is opened by the insertion after the last.        *)
NextTreeLate(tree) ==
    IF tree.size > Capacity THEN currentTree + 1 ELSE currentTree

(* Rollover is eager: the insertion that fills a tree opens the next.      *)
NextTree(tree) ==
    IF tree.size = Capacity THEN currentTree + 1 ELSE currentTree

(* rcv_insert: None, or the refusal.                                       *)
InsertError(account, enrollment, commitment) ==
    IF account \notin DOMAIN ContractId THEN "AccountNotContract"
    ELSE IF ~IsCanonicalField(commitment) THEN "NonCanonicalCommitment"
    ELSE IF Claimed(account, enrollment) THEN "EnrollmentIdTaken"
    ELSE IF currentTree = TreeIdMax /\ TreeAt(currentTree).size + 1 = Capacity
    THEN "TreeIdOverflow"
    ELSE None

RecordEnrollment(account, enrollment, index) ==
    enrollments' = Put(enrollments, <<account, enrollment>>, [tree |-> currentTree, index |-> index])

LeafInserted(account, enrollment, index, leaf, root) ==
    [account |-> account, enrollment |-> enrollment, tree |-> currentTree, index |-> index,
     leaf |-> leaf, root |-> root]

RcvInsert(account, enrollment, commitment) ==
    LET leaf  == Bind(ContractId[account], enrollment, commitment.elem)
        tree  == AppendLeaf(TreeAt(currentTree), leaf)
        index == tree.size - 1
    IN  /\ Len(events) < MaxInserts
        /\ InsertError(account, enrollment, commitment) = None
        /\ trees' = Put(trees, currentTree, tree)
        /\ leaves' = Put(leaves, <<currentTree, index>>, leaf)
        /\ roots' = Put(roots, <<currentTree, tree.root>>, tree.size)
        /\ currentTree' = NextTree(tree)
        /\ RecordEnrollment(account, enrollment, index)
        /\ events' = Append(events, LeafInserted(account, enrollment, index, leaf, tree.root))

PoolNext ==
    \E account \in Addresses, enrollment \in Enrollments, commitment \in Commitments :
        RcvInsert(account, enrollment, commitment)

PoolSpec == PoolInit /\ [][PoolNext]_poolVars

(* is_known_root                                                           *)
IsKnownRoot(id, root) == <<id, root>> \in DOMAIN roots

(* leaves: a page clamped to the tree's size, or the refusal.              *)
Page(id, start, count) ==
    LET size == TreeAt(id).size
        end  == IF start + count < size THEN start + count ELSE size
        from == IF start < end THEN start ELSE end
    IN  IF ~Opened(id) THEN "UnknownTree"
        ELSE IF count > MaxPage THEN "PageTooLarge"
        ELSE [i \in 1..end - from |-> leaves[<<id, from + i - 1>>]]

(* tree_info                                                               *)
TreeInfo(id) ==
    IF ~Opened(id) THEN "UnknownTree"
    ELSE [size |-> TreeAt(id).size, root |-> TreeAt(id).root,
          sealed |-> TreeAt(id).size = Capacity]

(***************************************************************************)
(* Proofs. A proof shows the circuit's relation for its public inputs, and *)
(* a verifier accepts it for exactly those: it is taken to be sound, and   *)
(* to reduce what it is given modulo the field's order.                    *)
(***************************************************************************)
(* A recovery statement's digest, as its halves.                           *)
Digest(statement) == <<<<"hi", statement>>, <<"lo", statement>>>>

(* Inputs::new: the public values the private ones determine.              *)
Prove(secret, account, enrollment, statement, index, siblings) ==
    LET leaf == Bind(account, enrollment, Commitment(secret))
    IN  [zk |-> TRUE,
         public |-> <<RootFromPath(leaf, index, siblings),
                      Nullifier(account, enrollment, secret),
                      StatementHash(account, enrollment, Digest(statement))>>]

(* What the verifier is given for a statement.                             *)
PublicInputs(statement, binding, evidence) ==
    <<evidence.root.elem, evidence.nullifier.elem,
      StatementHash(ContractId[statement.account], binding.enrollment, Digest(statement))>>

(* Mutant: an encoding at or above the field's order is let through.       *)
VerifyAnyEncoding(statement, binding, evidence) ==
    IF binding.circuit # CircuitId THEN "CircuitMismatch"
    ELSE IF statement.account \notin DOMAIN ContractId THEN "InvalidStatement"
    ELSE IF ~evidence.proof.zk THEN "MalformedProof"
    ELSE IF ~IsKnownRoot(evidence.tree, evidence.root.elem) THEN "UnknownRoot"
    ELSE IF evidence.proof.public # PublicInputs(statement, binding, evidence) THEN "ProofRejected"
    ELSE None

(* The adapter's verify; the controller names the enrolled binding.        *)
Verify(statement, binding, evidence) ==
    IF binding.circuit # CircuitId THEN "CircuitMismatch"
    ELSE IF statement.account \notin DOMAIN ContractId THEN "InvalidStatement"
    ELSE IF ~IsCanonicalField(evidence.root) \/ ~IsCanonicalField(evidence.nullifier)
    THEN "NonCanonicalField"
    ELSE IF ~evidence.proof.zk THEN "MalformedProof"
    ELSE IF ~IsKnownRoot(evidence.tree, evidence.root.elem) THEN "UnknownRoot"
    ELSE IF evidence.proof.public # PublicInputs(statement, binding, evidence) THEN "ProofRejected"
    ELSE None

(***************************************************************************)
(* Properties.                                                             *)
(***************************************************************************)
Statements == [account : Addresses, subject : Subjects]

Bindings == [enrollment : Enrollments, circuit : Circuits]

Positions == {<<id, i>> : id \in 0..currentTree, i \in 0..Capacity - 1}

(* Tree id when it had n leaves: these, its levels, its root, a path in it. *)
Filled(id, n) == [i \in 1..n |-> leaves[<<id, i - 1>>]]

Levels(id, n) == Subtree(Filled(id, n), Depth)

RootAt(id, n) == Levels(id, n)[Depth][0]

Path(id, n, index) ==
    LET levels == Levels(id, n)
    IN  [l \in 1..Depth |-> levels[l - 1][Sibling(Shift(index, l - 1))]]

(* The frontier computes what hashing the whole tree would: the root of a  *)
(* tree, after every insertion it ever had, is the Merkle root of its      *)
(* leaves padded with empty ones, and these are the only roots known.      *)
RootsAreMerkleRoots ==
    /\ \A id \in DOMAIN trees :
          /\ trees[id].root = RootAt(id, trees[id].size)
          /\ \A n \in 1..trees[id].size :
                IsKnownRoot(id, RootAt(id, n)) /\ roots[<<id, RootAt(id, n)>>] = n
    /\ \A r \in DOMAIN roots :
          r[1] \in DOMAIN trees /\ \E n \in 1..trees[r[1]].size : r[2] = RootAt(r[1], n)

(* Rollover leaves no hole and writes no full tree: the trees below the    *)
(* current one are full, the current one has room, each position is one    *)
(* enrollment's, events come in the order of positions, and pages return   *)
(* every event's leaf and nothing else.                                    *)
RolloverLeavesNoHole ==
    /\ \A id \in 0..currentTree - 1 : TreeInfo(id).sealed
    /\ ~TreeInfo(currentTree).sealed
    /\ DOMAIN leaves = {<<enrollments[k].tree, enrollments[k].index>> : k \in DOMAIN enrollments}
    /\ \A k, m \in DOMAIN enrollments : enrollments[k] = enrollments[m] => k = m
    /\ \A e, f \in DOMAIN events : e < f =>
          \/ events[e].tree < events[f].tree
          \/ events[e].tree = events[f].tree /\ events[e].index < events[f].index
    /\ \A id \in 0..currentTree : \A start \in 0..Capacity :
          LET page == Page(id, start, MaxPage)
              from == {e \in DOMAIN events : /\ events[e].tree = id
                                            /\ events[e].index \in start..start + MaxPage - 1}
          IN  /\ {start + i - 1 : i \in DOMAIN page} = {events[e].index : e \in from}
              /\ \A e \in from : page[events[e].index - start + 1] = events[e].leaf

(* The pool is its trees, kept by a frontier: the roots of all its sizes   *)
(* and the positions of all its leaves.                                    *)
PoolIsItsTrees == RootsAreMerkleRoots /\ RolloverLeavesNoHole

(* A proof made from the leaf of position p when its tree had n leaves.    *)
Evidence(secret, account, enrollment, statement, id, n, index, over) ==
    LET proof == Prove(secret, account, enrollment, statement, index, Path(id, n, index))
    IN  [tree |-> id, root |-> Canonical(proof.public[1]),
         nullifier |-> [elem |-> proof.public[2], over |-> over], proof |-> proof]

(* What an enrolled credential proves is accepted, from any root its tree  *)
(* has had since, sealed or not, and for any statement of its account.     *)
EnrolledCanProve ==
    \A k \in DOMAIN enrollments, secret \in Secrets :
        LET at == enrollments[k]
            id == ContractId[k[1]]
        IN  leaves[<<at.tree, at.index>>] = Bind(id, k[2], Commitment(secret)) =>
                \A n \in at.index + 1..trees[at.tree].size, subject \in Subjects :
                    LET st == [account |-> k[1], subject |-> subject]
                    IN  Verify(st, [enrollment |-> k[2], circuit |-> CircuitId],
                               Evidence(secret, id, k[2], st, at.tree, n, at.index, FALSE)) = None

(* Every accepted proof is by the credential the bound enrollment id of    *)
(* the statement's account has in the pool, for this very statement, and   *)
(* its nullifier has one encoding.                                         *)
AcceptedMeansEnrolled ==
    \A a \in DOMAIN ContractId, e \in Enrollments, secret \in Secrets, about \in Statements :
    \A p \in DOMAIN leaves, over \in BOOLEAN :
    \A n \in p[2] + 1..trees[p[1]].size :
        LET evidence == Evidence(secret, ContractId[a], e, about, p[1], n, p[2], over)
        IN  \A st \in Statements, b \in Bindings :
            Verify(st, b, evidence) = None =>
                /\ about = st
                /\ <<st.account, b.enrollment>> \in DOMAIN enrollments
                /\ LET at == enrollments[<<st.account, b.enrollment>>]
                   IN  leaves[<<at.tree, at.index>>] =
                           Bind(ContractId[st.account], b.enrollment, Commitment(secret))
                /\ evidence.nullifier = Canonical(Nullifier(ContractId[st.account], b.enrollment, secret))

(* A proof is accepted if and only if its credential is enrolled.          *)
AcceptedIffEnrolled == EnrolledCanProve /\ AcceptedMeansEnrolled
=============================================================================
