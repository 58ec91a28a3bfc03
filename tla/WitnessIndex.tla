----------------------------- MODULE WitnessIndex -----------------------------
(***************************************************************************)
(* The pool indexer: packages/perch-zk/src/indexer follows the pool's      *)
(* LeafInserted events into a store, and serves witnesses from a           *)
(* PoolWitnessIndex (perch-zk-prover/src/tree.rs and its twin tree.ts).    *)
(*                                                                         *)
(* Every await is a step: a sync stores a page record by record and its    *)
(* cursor afterwards, requests are served meanwhile, and one task at a     *)
(* time advances the index leaf by leaf. A crash keeps the store, the      *)
(* cursor, the node stores and the last snapshot, and loses the rest.      *)
(***************************************************************************)
EXTENDS MembershipPool, WitnessTree, FiniteSets

CONSTANTS
    PageLimit,     \* events per page
    MaxPages,      \* pages per sync
    MaxCrashes,    \* bound on crashes
    MaxAnswers     \* bound on requests answered

VARIABLES
    store,      \* <<tree, index>> |-> record
    cursor,     \* events consumed, as saved with the store
    nodes,      \* the trees' node stores: tree |-> stored nodes
    snapshot,   \* the last saved index, or None
    index,      \* the witness index: current tree, and each tree's state
    sync,       \* the running sync
    queue,      \* who waits to advance the index, first come first
                \* served: a sync, or a request and its position
    answer,     \* the last answer (history)
    answered,   \* requests answered
    crashes     \* crashes so far

indexVars == <<store, cursor, nodes, snapshot, index, sync, queue, answer, answered, crashes>>

witnessVars == <<poolVars, indexVars>>

NewIndex == [current |-> 0, trees |-> <<>>]

Idle == [at |-> "idle"]

SyncTask == <<"sync">>

WitnessTask(p) == <<"witness", p>>

IndexInit ==
    /\ PoolInit
    /\ store = <<>>
    /\ cursor = None
    /\ nodes = <<>>
    /\ snapshot = None
    /\ index = NewIndex
    /\ sync = Idle
    /\ queue = <<>>
    /\ answer = [kind |-> "none"]
    /\ answered = 0
    /\ crashes = 0

Insert == PoolNext /\ UNCHANGED indexVars

(***************************************************************************)
(* pull                                                                    *)
(***************************************************************************)
StartSync ==
    /\ sync = Idle
    /\ sync' = [at |-> "page", from |-> IF cursor = None THEN 0 ELSE cursor, pages |-> 0]
    /\ UNCHANGED <<poolVars, store, cursor, nodes, snapshot, index, queue, answer, answered, crashes>>

FetchPage ==
    /\ sync.at = "page"
    /\ LET end == IF sync.from + PageLimit < Len(events) THEN sync.from + PageLimit ELSE Len(events)
       IN  sync' = [at |-> "put", from |-> sync.from, pages |-> sync.pages + 1,
                    records |-> SubSeq(events, sync.from + 1, end), next |-> end, stored |-> 0]
    /\ UNCHANGED <<poolVars, store, cursor, nodes, snapshot, index, queue, answer, answered, crashes>>

(* A record at a stored position is a duplicate or a conflict, and changes *)
(* nothing.                                                                *)
PutRecord ==
    /\ sync.at = "put"
    /\ sync.stored < Len(sync.records)
    /\ LET r == sync.records[sync.stored + 1]
           p == <<r.tree, r.index>>
       IN  store' = IF p \in DOMAIN store THEN store ELSE Put(store, p, r)
    /\ sync' = [sync EXCEPT !.stored = @ + 1]
    /\ UNCHANGED <<poolVars, cursor, nodes, snapshot, index, queue, answer, answered, crashes>>

(* Mutant: the cursor is saved as soon as a page is read.                  *)
AllStoredEarly == TRUE

AllStored == sync.stored = Len(sync.records)

(* The cursor is saved after the page; a sync ends with an empty page, or  *)
(* after MaxPages of them.                                                 *)
SaveCursor ==
    /\ sync.at = "put"
    /\ AllStored
    /\ cursor' = sync.next
    /\ IF sync.records = <<>> \/ sync.pages = MaxPages
       THEN sync' = [at |-> "index"] /\ queue' = Append(queue, SyncTask)
       ELSE sync' = [at |-> "page", from |-> sync.next, pages |-> sync.pages] /\ UNCHANGED queue
    /\ UNCHANGED <<poolVars, store, nodes, snapshot, index, answer, answered, crashes>>

(***************************************************************************)
(* The witness index, one task at a time.                                  *)
(***************************************************************************)
TreeOf(ix, id) == IF id \in DOMAIN ix.trees THEN ix.trees[id] ELSE EmptyIncremental

NodesOf(id) == IF id \in DOMAIN nodes THEN nodes[id] ELSE <<>>

NextPosition == <<index.current, TreeOf(index, index.current).size>>

(* witness: the record is found before its turn comes.                     *)
Request(p) ==
    /\ answered + Cardinality({i \in DOMAIN queue : queue[i] # SyncTask}) < MaxAnswers
    /\ queue' = Append(queue, WitnessTask(p))
    /\ UNCHANGED <<poolVars, store, cursor, nodes, snapshot, index, sync, answer, answered, crashes>>

(* ingest: append the leaf, and follow the pool's rollover.                *)
Ingest(ix, id, leaf) ==
    LET tree == AppendIncremental(TreeOf(ix, id), leaf)
    IN  [current |-> IF tree.size = Capacity THEN id + 1 ELSE id,
         trees |-> Put(ix.trees, id, tree)]

(* advance: the next stored leaf the index has not seen.                   *)
Advance ==
    /\ queue # <<>>
    /\ NextPosition \in DOMAIN store
    /\ LET id   == index.current
           leaf == store[NextPosition].leaf
           new  == Completed(TreeOf(index, id), leaf)
       IN  /\ index' = Ingest(index, id, leaf)
           /\ nodes' = Put(nodes, id, [k \in DOMAIN new \cup DOMAIN NodesOf(id) |->
                                          IF k \in DOMAIN new THEN new[k] ELSE NodesOf(id)[k]])
    /\ UNCHANGED <<poolVars, store, cursor, snapshot, sync, queue, answer, answered, crashes>>

Caught == queue # <<>> /\ NextPosition \notin DOMAIN store

EndSync ==
    /\ Caught /\ Head(queue) = SyncTask
    /\ queue' = Tail(queue)
    /\ sync' = Idle
    /\ UNCHANGED <<poolVars, store, cursor, nodes, snapshot, index, answer, answered, crashes>>

(* The stored leaves of a tree, by index.                                  *)
StoredLeaves(id) == [i \in {p[2] : p \in {q \in DOMAIN store : q[1] = id}} |-> store[<<id, i>>].leaf]

(* A gap before the leaf fails the request; otherwise the record found is  *)
(* answered with a path and root of the tree as it is now.                 *)
AnswerWitness ==
    /\ Caught /\ Head(queue) # SyncTask
    /\ LET p    == Head(queue)[2]
           id   == p[1]
           size == TreeOf(index, id).size
           path == Witness(size, NodesOf(id), StoredLeaves(id), p[2])
       IN  answer' = IF p[2] >= size THEN [kind |-> "gap"]
                     ELSE [kind |-> "witness", tree |-> p[1], index |-> p[2],
                           leaf |-> store[p].leaf, root |-> path.root, siblings |-> path.siblings]
    /\ queue' = Tail(queue)
    /\ answered' = answered + 1
    /\ UNCHANGED <<poolVars, store, cursor, nodes, snapshot, index, sync, crashes>>

(* The host saves snapshot() whenever it likes.                            *)
SaveSnapshot ==
    /\ snapshot' = index
    /\ UNCHANGED <<poolVars, store, cursor, nodes, index, sync, queue, answer, answered, crashes>>

(* Restart from the snapshot and its node stores, or without a snapshot.   *)
Crash ==
    /\ crashes < MaxCrashes
    /\ crashes' = crashes + 1
    /\ \/ snapshot # None /\ index' = snapshot /\ UNCHANGED <<nodes, snapshot>>
       \/ index' = NewIndex /\ snapshot' = None /\ nodes' \in {nodes, <<>>}
    /\ sync' = Idle
    /\ queue' = <<>>
    /\ answer' = [kind |-> "none"]
    /\ UNCHANGED <<poolVars, store, cursor, answered>>

IndexNext ==
    \/ Insert
    \/ StartSync \/ FetchPage \/ PutRecord \/ SaveCursor \/ EndSync
    \/ \E p \in DOMAIN store : Request(p)
    \/ Advance \/ AnswerWitness
    \/ SaveSnapshot \/ Crash

(* A host runs sync on its own schedule, and the event loop runs what is   *)
(* ready; insertions, requests, snapshots and crashes need not happen.     *)
Pulls == StartSync \/ FetchPage \/ PutRecord \/ SaveCursor

Serves == Advance \/ AnswerWitness \/ EndSync

IndexSpec == IndexInit /\ [][IndexNext]_witnessVars /\ WF_witnessVars(Pulls) /\ WF_witnessVars(Serves)

(***************************************************************************)
(* Properties.                                                             *)
(***************************************************************************)
(* What is served proves: leaf, path and root of an answer belong together *)
(* and the root is one the pool knows for the answered tree, although the  *)
(* record was read before the turn, the tree grew since, and the index was *)
(* restored from a snapshot older than its node stores.                    *)
ServedWitnessProves ==
    answer.kind = "witness" =>
        /\ RootFromPath(answer.leaf, answer.index, answer.siblings) = answer.root
        /\ IsKnownRoot(answer.tree, answer.root)
        /\ answer.leaf = leaves[<<answer.tree, answer.index>>]

(* Every leaf inserted is in the end one the index can serve, and for      *)
(* good, across crashes, gaps and syncs cut short.                         *)
EveryLeafServable == <>[](\A p \in DOMAIN leaves : p[2] < TreeOf(index, p[1]).size)
=============================================================================
