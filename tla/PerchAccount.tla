---------------------------- MODULE PerchAccount ----------------------------
(***************************************************************************)
(* The doc-only smart account (crates/perch-smart-account) composed with   *)
(* the recovery controllers and the membership pool it calls. Every entry  *)
(* point is one atomic transaction: the account's action includes each     *)
(* controller hook and pool call it makes.                                 *)
(*                                                                         *)
(* Which signatures satisfy an ordinary rule is left open: an owner may    *)
(* authorize any call while the freeze is not in force.                    *)
(***************************************************************************)
EXTENDS RecoveryController

CONSTANTS
    MaxRevision,   \* bound: successful apply_doc calls and executed upgrades
    MaxUpgrades,   \* bound: upgrade requests
    Asked,         \* inputs: the changes approvers are asked to approve
    Deadlines      \* inputs: the freshness bounds approvers choose

VARIABLES
    currentZk,     \* the applied document's ZK factor
    pending,       \* the scheduled upgrade
    generation,    \* the recovery generation
    nextUpgrade,   \* the next upgrade request id
    revision,      \* the configuration revision
    wasm           \* the code the account runs

accountOnly == <<currentZk, pending, generation, nextUpgrade, revision, wasm>>

vars == <<now, ctl, accountView, accountOnly>>

Requests == [id : Nat, wasm : Wasms, generation : Nat,
             epoch : Nat \cup {None}, executableAt : Ledgers]

ASSUME AccountAssumption ==
    /\ MaxRevision \in Nat
    /\ MaxUpgrades \in Nat
    /\ None \notin Gates \cup Requests
    /\ Asked \subseteq Subjects
    /\ Deadlines \subseteq Ledgers
    /\ OwnerDocs \subseteq Docs
    /\ Rotations \subseteq Factors
    /\ NewKeys \subseteq Keys
    /\ KeyKind \in [Keys -> STRING]

(* __check_auth: while the freeze is in force it authorizes one apply_doc  *)
(* context under the recovery rule, and nothing else.                      *)
OwnerAuthorized == ~ Frozen

(* The apply_doc context that selects the recovery rule: the adopted       *)
(* controller's enforce decides.                                           *)
RecoveryAuthorized(doc) ==
    adopted # None /\ CompletionAuthorized(ctl[adopted], doc)

-----------------------------------------------------------------------------

Init ==
    /\ now = 0
    /\ ctl = [c \in Controllers |-> EmptyState]
    /\ applied = None /\ adopted = None /\ gate = None
    /\ revoked = {} /\ enrolledIds = {} /\ leaves = {}
    /\ currentZk = None /\ pending = None
    /\ generation = 0 /\ nextUpgrade = 0 /\ revision = 0
    /\ wasm \in Wasms

CloseLedger ==
    /\ now < LedgerMax
    /\ now' = now + 1
    /\ UNCHANGED <<ctl, accountView, accountOnly>>

(* The outcome of the controllers' rcv_sync calls for doc, from controller *)
(* states st: the adopted one first, then one the document newly names.    *)
SyncBoth(st, doc, until, old, new) ==
    LET named == IF doc.recovery = None THEN None ELSE doc.recovery.controller IN
    /\ IF adopted = None THEN old = "Unchanged"
       ELSE RcvSync(st[adopted], adopted, doc, until, old)
    /\ IF named \in {None, adopted} THEN new = "Unchanged"
       ELSE RcvSync(st[named], named, doc, until, new)
    /\ ctl' = [c \in Controllers |->
                 IF c = adopted THEN Synced(st[c], doc, old)
                 ELSE IF c = named THEN Synced(st[c], doc, new)
                 ELSE st[c]]

(* Mutant of Bump: leaving recovery keeps the generation.                  *)
BumpUnlessRemoved(outcome) == IF outcome \in {"Unchanged", "Removed"} THEN 0 ELSE 1

Bump(outcome) == IF outcome = "Unchanged" THEN 0 ELSE 1

(* A completion revokes what it replaced and what the target drops, lifts  *)
(* the freeze and drops the pending upgrade.                               *)
CompleteRecovery(replaced, doc) ==
    LET before == IF applied = None THEN {} ELSE Fingerprints(applied.body) IN
    /\ revoked' = revoked \cup Revocations(replaced, before, Fingerprints(doc.body))
    /\ gate' = None
    /\ pending' = None

(* apply_doc's body, once the call is authorized; st is the controllers'   *)
(* state after the authorization.                                          *)
Apply(st, doc, until, expected) ==
    LET newZk == ZkOf(doc.recovery)
        leaf == LeafToInsert(currentZk, newZk)
        named == IF doc.recovery = None THEN None ELSE doc.recovery.controller
    IN /\ revision < MaxRevision
       /\ expected \in {None, revision}
       /\ Compiles(doc)
       /\ AdminSurvives(doc.body)
       /\ \A k \in Fingerprints(doc.body) : ~ IsRevoked(k)
       /\ ZkFactorTransitionOk(currentZk, newZk)
       /\ leaf # None => ~ IsEnrolledId(leaf.id)
       /\ \E old, new \in Outcomes :
            /\ SyncBoth(st, doc, until, old, new)
            /\ generation' = generation + Bump(old) + Bump(new)
            /\ IF old = "Completed"
               THEN CompleteRecovery(st[adopted].attempts[st[adopted].authorized].replaced, doc)
               ELSE UNCHANGED <<revoked, gate, pending>>
       /\ named # None => ctl'[named].config = doc.recovery
       /\ adopted' = named
       /\ leaf # None => \A l \in leaves : l.id # leaf.id
       /\ leaves' = IF leaf = None THEN leaves ELSE leaves \cup {leaf}
       /\ enrolledIds' = IF leaf = None THEN enrolledIds ELSE enrolledIds \cup {leaf.id}
       /\ currentZk' = newZk
       /\ applied' = doc
       /\ revision' = revision + 1
       /\ UNCHANGED <<now, nextUpgrade, wasm>>

ApplyDoc(doc, until, expected) ==
    OwnerAuthorized /\ Apply(ctl, doc, until, expected)

(* apply_doc authorized by the recovery rule: enforce leaves its marker,   *)
(* then the body runs.                                                     *)
CompleteDoc(doc, until, expected) ==
    /\ RecoveryAuthorized(doc)
    /\ Apply([ctl EXCEPT ![adopted] = MarkCompleting(@)], doc, until, expected)

(* enforce ran for an apply_doc context of a wider authorization tree that *)
(* did not go on to execute it: the marker stays behind.                   *)
EnforceOnly(doc) ==
    /\ OwnerAuthorized
    /\ RecoveryAuthorized(doc)
    /\ ctl' = [ctl EXCEPT ![adopted] = MarkCompleting(@)]
    /\ UNCHANGED <<now, accountView, accountOnly>>

CancelRecovery(id) ==
    /\ OwnerAuthorized
    /\ adopted # None
    /\ RcvCancel(adopted, id)
    /\ UNCHANGED <<now, applied, adopted, revoked, enrolledIds, leaves, accountOnly>>

-----------------------------------------------------------------------------
(* Delayed upgrades.                                                       *)

ScheduleUpgrade(w, until) ==
    LET subject == [request |-> nextUpgrade, wasm |-> w] IN
    /\ OwnerAuthorized
    /\ nextUpgrade < MaxUpgrades
    /\ adopted # None => UpgradeScheduleAllowed(ctl[adopted], subject, until)
    /\ Fits(now + UpgradeDelay)
    /\ nextUpgrade' = nextUpgrade + 1
    /\ pending' = [id |-> nextUpgrade, wasm |-> w, generation |-> generation,
                   epoch |-> IF adopted = None THEN None ELSE ctl[adopted].epoch,
                   executableAt |-> now + UpgradeDelay]
    /\ UNCHANGED <<now, ctl, accountView, currentZk, generation, revision, wasm>>

ExecuteUpgrade(id) ==
    /\ OwnerAuthorized
    /\ pending # None
    /\ pending.id = id
    /\ pending.generation = generation
    /\ now >= pending.executableAt
    /\ \/ adopted = None /\ UNCHANGED ctl
       \/ /\ adopted # None
          /\ pending.epoch # None
          /\ UpgradeExecuteAllowed(ctl[adopted], pending.epoch)
          /\ ctl' = [ctl EXCEPT ![adopted] = BumpEpoch(@)]
    /\ pending' = None
    /\ generation' = generation + 1
    /\ revision < MaxRevision
    /\ revision' = revision + 1
    /\ wasm' = pending.wasm
    /\ UNCHANGED <<now, accountView, currentZk, nextUpgrade>>

CancelUpgrade ==
    /\ OwnerAuthorized
    /\ pending # None
    /\ pending' = None
    /\ UNCHANGED <<now, ctl, accountView, currentZk, generation, nextUpgrade, revision, wasm>>

-----------------------------------------------------------------------------

(* The documents a submitter may hand to apply_doc: an owner's own, and    *)
(* the targets attempts derived.                                           *)
Submittable ==
    OwnerDocs \cup {ctl[p[1]].attempts[p[2]].target : p \in
                      {q \in Controllers \X AttemptIds : ctl[q[1]].attempts[q[2]] # None}}

ControllerStep(c) ==
    \/ \E action \in {"LostKey", "Compromise"},
          keys \in [Slots -> NewKeys \cup {None}], zk \in Rotations \cup {None} :
            Begin(c, action, [keys |-> keys, zk |-> zk]) /\ UNCHANGED accountOnly
    \/ \E id \in AttemptIds, domain \in {"Initiate", "Cancel"} :
         \/ \E g \in Guardians : SubmitGuardian(c, id, domain, g) /\ UNCHANGED accountOnly
         \/ SubmitZk(c, id, domain) /\ UNCHANGED accountOnly
    \/ \E subject \in Asked, until \in Deadlines :
         \/ \E g \in Guardians : ApproveChange(c, subject, until, g) /\ UNCHANGED accountOnly
         \/ SubmitZkChange(c, subject, until) /\ UNCHANGED accountOnly
    \/ PublishBaseline(c) /\ UNCHANGED accountOnly
    \/ \E id \in AttemptIds : EvictCollecting(c, id) /\ UNCHANGED accountOnly

AccountStep ==
    \/ \E doc \in Submittable, until \in Deadlines \cup {0},
          expected \in {None} \cup 0 .. MaxRevision :
         \/ ApplyDoc(doc, until, expected)
         \/ CompleteDoc(doc, until, expected)
    \/ \E doc \in Submittable : EnforceOnly(doc)
    \/ \E id \in AttemptIds : CancelRecovery(id)
    \/ \E w \in Wasms, until \in Deadlines \cup {0} : ScheduleUpgrade(w, until)
    \/ \E id \in 0 .. MaxUpgrades - 1 : ExecuteUpgrade(id)
    \/ CancelUpgrade

Next ==
    \/ CloseLedger
    \/ \E c \in Controllers : ControllerStep(c)
    \/ AccountStep

Spec == Init /\ [][Next]_vars

(* Ledgers keep closing: the network's consensus, not any party to a       *)
(* recovery, advances the ledger sequence.                                 *)
FairSpec == Spec /\ WF_vars(CloseLedger)

-----------------------------------------------------------------------------
(* The type invariant: every stored entry has the type the contracts' two  *)
(* storage structs declare, and every ledger in it fits u32.               *)
TypeOK ==
    /\ now \in Ledgers
    /\ ctl \in [Controllers -> States]
    /\ applied \in Docs \cup {None}
    /\ adopted \in Controllers \cup {None}
    /\ gate \in Gates \cup {None}
    /\ revoked \subseteq Keys
    /\ enrolledIds \subseteq EnrollIds
    /\ leaves \subseteq Factors
    /\ currentZk \in Factors \cup {None}
    /\ pending \in Requests \cup {None}
    /\ generation \in Nat /\ nextUpgrade \in Nat /\ revision \in Nat
    /\ wasm \in Wasms

Enrolled == IF applied = None THEN None ELSE applied.recovery

(* The account and the controllers agree on what is enrolled: the adopted  *)
(* controller stores exactly the applied document's recovery member, every *)
(* other controller stores nothing, and the recorded ZK factor is that     *)
(* member's. (apply, rcv_sync on both sides of a controller switch.)       *)
EnrollmentAgrees ==
    /\ adopted = IF Enrolled = None THEN None ELSE Enrolled.controller
    /\ \A c \in Controllers : ctl[c].config = IF c = adopted THEN Enrolled ELSE None
    /\ currentZk = ZkOf(Enrolled)

(* The freeze mirror is exact: the account is frozen precisely while its   *)
(* adopted controller has an authorized live attempt under Protected, for  *)
(* that attempt and until that attempt's expiry. The account never asks    *)
(* the controller from __check_auth, so nothing else keeps them together.  *)
FreezeMirror ==
    /\ Frozen <=> /\ adopted # None
                  /\ AuthorizedLive(ctl[adopted])
                  /\ ctl[adopted].config.profile = "Protected"
    /\ Frozen => /\ gate.attempt = ctl[adopted].authorized
                 /\ gate.until = ctl[adopted].attempts[gate.attempt].expiresAt

(* Authorizing an attempt kills its siblings for good: while an attempt is *)
(* authorized and live no other attempt at that controller is live.        *)
NoLiveSibling ==
    \A c \in Controllers : AuthorizedLive(ctl[c]) =>
        \A id \in AttemptIds : IsLive(ctl[c], id) => id = ctl[c].authorized

(* An authorized live attempt has its evidence: what it collected still    *)
(* satisfies the configuration enrolled now, from guardians and a factor   *)
(* of that configuration. (Epochs: evidence never outlives the             *)
(* configuration it was given for.)                                        *)
AuthorizedEvidence ==
    \A c \in Controllers : AuthorizedLive(ctl[c]) =>
        LET s == ctl[c]
            a == s.attempts[s.authorized]
        IN /\ s.config # None
           /\ s.config.mode # "ZkOnly" =>
                /\ a.guardians \subseteq s.config.guardians
                /\ Cardinality(a.guardians) >= s.config.quorum
           /\ s.config.mode # "GuardianOnly" => a.nullifier = s.config.zk

(* An authorized lost-key attempt still replaces keys of the document the  *)
(* account runs: nothing moved the account off the attempt's source.       *)
LostKeySourceApplied ==
    \A c \in Controllers : AuthorizedLive(ctl[c]) =>
        LET a == ctl[c].attempts[ctl[c].authorized]
        IN a.action = "LostKey" => applied = a.source

(* No authorized recovery is stuck: every check apply_doc and rcv_sync     *)
(* make of the target of an authorized live attempt passes, so once the    *)
(* delay has passed its completion is refused for no reason but expiry.    *)
AuthorizedCompletable ==
    \A c \in Controllers : AuthorizedLive(ctl[c]) =>
        LET a == ctl[c].attempts[ctl[c].authorized]
            leaf == LeafToInsert(currentZk, ZkOf(a.target.recovery))
        IN /\ adopted = c
           /\ a.target.recovery # None
           /\ a.target.recovery.controller = c
           /\ Compiles(a.target) /\ AdminSurvives(a.target.body)
           /\ Fingerprints(a.target.body) \cap revoked = {}
           /\ ZkFactorTransitionOk(currentZk, ZkOf(a.target.recovery))
           /\ leaf # None => leaf.id \notin enrolledIds /\ \A l \in leaves : l.id # leaf.id
           /\ a.nullifier \notin ctl[c].nullifiers

(* A live attempt can be cancelled at every ledger it is live: the bound   *)
(* fixed when it began is never earlier than its last live ledger.         *)
CancelWindowCovers ==
    \A c \in Controllers, id \in AttemptIds : IsLive(ctl[c], id) =>
        LET a == ctl[c].attempts[id]
        IN now <= a.cancelUntil /\ (a.state = "Authorized" => a.expiresAt <= a.cancelUntil)

(* A revoked credential never authorizes again: none is in the applied     *)
(* document, right after the completion that revoked it included.          *)
RevokedNeverApplied == applied # None => Fingerprints(applied.body) \cap revoked = {}

(* The enrolled ZK factor can always prove: its leaf is in the pool, under *)
(* its own commitment, and its nullifier is unspent where it is enrolled.  *)
EnrolledFactorProvable ==
    currentZk # None => /\ currentZk \in leaves
                        /\ \A c \in Controllers : currentZk \notin ctl[c].nullifiers

(* What a controller's record s keeps about attempt a, stored as id: its   *)
(* id is below the counter, its epoch is never ahead, and if the epoch is  *)
(* the present one, it was begun under the present configuration, its      *)
(* evidence comes from that configuration, and if authorized, suffices.    *)
AttemptBook(s, id, a) ==
    /\ id < s.nextAttempt
    /\ a.epoch <= s.epoch
    /\ a.epoch = s.epoch =>
         /\ s.config # None
         /\ a.cancelUntil = CancelUntil(s.config, a.evidenceDeadline)
         /\ HasGuardians(s.config) => a.guardians \subseteq s.config.guardians
         /\ a.nullifier \in {None, s.config.zk}
         /\ a.state = "Authorized" =>
              a.expiresAt <= a.cancelUntil /\ InitiationMet(s.config, a)

(* And about all of them: the authorized id names an authorized,           *)
(* persistent record, and while it is live no attempt began after it.      *)
AttemptBooks(s) ==
    /\ s.invalidateBelow <= s.nextAttempt
    /\ \A id \in AttemptIds :
         s.attempts[id] # None => AttemptBook(s, id, s.attempts[id])
    /\ s.authorized # None =>
         /\ s.attempts[s.authorized] # None
         /\ s.attempts[s.authorized].state = "Authorized"
         /\ s.attempts[s.authorized].persistent
    /\ AuthorizedLive(s) => s.invalidateBelow = s.nextAttempt

(* The inductive invariant: the safety properties above rest on it, and    *)
(* every step of the account and of its controllers preserves it.          *)
RecoveryInv ==
    /\ TypeOK
    /\ EnrollmentAgrees
    /\ FreezeMirror
    /\ LostKeySourceApplied
    /\ \A c \in Controllers : AttemptBooks(ctl[c])

(* Evidence cancelled attempt a after its promotion.                       *)
CancelledByEvidence(a) ==
    /\ a.state = "Cancelled" /\ a.expiresAt # 0
    /\ CancellationMet(a.target.recovery, a)

EvidenceCancelled(s) ==
    {id \in AttemptIds : s.attempts[id] # None /\ CancelledByEvidence(s.attempts[id])}

(* The cancellation cap holds over the controller's lifetime: evidence     *)
(* never cancels more authorized attempts than the cap in force at the     *)
(* last of them, however often the account re-enrolled in between.         *)
LifetimeCancelCap ==
    \A c \in Controllers :
        LET cancelled == EvidenceCancelled(ctl[c]) IN
        cancelled # {} =>
            \E id \in cancelled :
                Cardinality(cancelled) <= ctl[c].attempts[id].target.recovery.maxCancels

(* What record s at controller c keeps of attempt a from its beginning, if *)
(* gone are the revoked credentials and used the enrolled ids: its target  *)
(* is a document of c that compiles, keeps an admin and drops what it      *)
(* replaces; it has an expiry once it is authorized; while it could still  *)
(* act it lacked the evidence to cancel it. In the present epoch its       *)
(* target has the terms of the present configuration, no credential that   *)
(* is gone, and no ZK factor under a used id.                              *)
AttemptHistory(c, s, a, gone, used) ==
    /\ a.target.recovery # None /\ a.target.recovery.controller = c
    /\ Compiles(a.target) /\ AdminSurvives(a.target.body)
    /\ a.replaced \cap Fingerprints(a.target.body) = {}
    /\ a.state = "Collecting" => a.expiresAt = 0
    /\ a.state = "Authorized" => a.expiresAt # 0
    /\ a.state \in {"Collecting", "Authorized"} => ~ CancellationMet(a.target.recovery, a)
    /\ a.epoch = s.epoch =>
         /\ a.target.recovery.mode = s.config.mode
         /\ a.target.recovery.quorum = s.config.quorum
         /\ a.target.recovery.delay = s.config.delay
         /\ a.target.recovery.maxCancels = s.config.maxCancels
         /\ Fingerprints(a.target.body) \cap gone = {}
         /\ HasZk(a.target.recovery) => a.target.recovery.zk.id \notin used

(* Approvals were given under the configuration of their epoch.            *)
ApprovalHistory(s) ==
    \A p \in s.approvals :
        /\ p.statement.epoch <= s.epoch
        /\ p.statement.epoch = s.epoch => s.config # None

(* The counter of cancellations counts those by evidence, and the last of  *)
(* them was within the cap of its configuration.                           *)
CancelHistory(s) ==
    LET cancelled == EvidenceCancelled(s) IN
    /\ Cardinality(cancelled) <= s.cancels
    /\ cancelled # {} =>
         \E id \in cancelled : s.cancels <= s.attempts[id].target.recovery.maxCancels

RecordHistory(c, s, gone, used) ==
    /\ \A id \in AttemptIds : s.attempts[id] # None =>
         /\ AttemptHistory(c, s, s.attempts[id], gone, used)
         /\ s.attempts[id].expiresAt # 0 => s.attempts[id].persistent
    /\ ApprovalHistory(s)
    /\ CancelHistory(s)
    /\ \A f \in s.nullifiers : f.id \in used

(* A request of the present generation was made under the controller       *)
(* adopted now, or under none.                                             *)
PendingHistory ==
    pending # None =>
        /\ pending.generation <= generation
        /\ pending.generation = generation /\ adopted = None => pending.epoch = None

(* The second inductive invariant, beside RecoveryInv: what the records    *)
(* say of the past. The properties of recovery over time rest on it.       *)
HistoryInv ==
    /\ \A c \in Controllers : RecordHistory(c, ctl[c], revoked, enrolledIds)
    /\ applied # None => Compiles(applied)
    /\ \A l \in leaves : l.id \in enrolledIds
    /\ EnrolledFactorProvable
    /\ RevokedNeverApplied
    /\ PendingHistory

ConditionRecorded(s, subject) ==
    \E until \in now .. LedgerMax :
        LET by == {p.by : p \in {q \in s.approvals :
                     q.statement = [epoch |-> s.epoch, config |-> s.config,
                                    until |-> until, subject |-> subject]}}
        IN /\ HasGuardians(s.config) =>
                Cardinality(by \cap s.config.guardians) >= s.config.quorum
           /\ HasZk(s.config) => "zk" \in by

(* Nobody but the recovery condition moves a Protected enrollment: its     *)
(* configuration changes only where fresh approvals of that very change,   *)
(* under the current epoch, satisfy the condition, or where an attempt     *)
(* whose delay has run out completes with the document it authorized.      *)
ProtectedChangeNeedsCondition ==
    [][\A c \in Controllers :
         LET s == ctl[c] IN
         /\ s.config # None /\ s.config.profile = "Protected"
         /\ ctl'[c].config # s.config
         => \/ /\ AuthorizedLive(s)
               /\ now >= s.attempts[s.authorized].executableAfter
               /\ applied' = s.attempts[s.authorized].target
            \/ ~ AuthorizedLive(s) /\ ConditionRecorded(s, Change(applied'.recovery))]_vars

(* A dead attempt stays dead: an attempt that is invalidated, cancelled,   *)
(* expired, superseded or evicted is never live again, even if the account *)
(* returns to its document, its configuration or its controller.           *)
DeadStaysDead ==
    [][\A c \in Controllers, id \in AttemptIds :
         id < ctl[c].nextAttempt /\ ~ IsLive(ctl[c], id) => ~ IsLive(ctl[c], id)']_vars

(* No upgrade slips past a reconfiguration or a recovery: code changes     *)
(* only by a request made under the adopted controller's present epoch, or *)
(* under none if there is none, and while no attempt is authorized; and    *)
(* the step retires every attempt and approval of that epoch.              *)
UpgradeRetiresEvidence ==
    [][wasm' # wasm =>
         /\ pending.epoch = IF adopted = None THEN None ELSE ctl[adopted].epoch
         /\ \A c \in Controllers : ~ AuthorizedLive(ctl[c])
         /\ \A c \in Controllers, id \in AttemptIds : ~ IsLive(ctl[c], id)'
         /\ \A c \in Controllers : \A p \in ctl[c].approvals :
              p.statement.epoch # ctl'[c].epoch]_vars

(* Every freeze ends: the owner's account is never locked for good,        *)
(* whatever guardians and provers submit. It needs only ledgers to close.  *)
FreezeEnds == Frozen ~> ~ Frozen
=============================================================================
