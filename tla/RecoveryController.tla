------------------------- MODULE RecoveryController -------------------------
(***************************************************************************)
(* The recovery controller (crates/perch-recovery): one account's state at *)
(* each controller instance, the controller's permissionless entry points, *)
(* and what its account-only hooks (rcv_sync, rcv_upgrade, enforce) accept *)
(* and write. The hooks run inside the account's own calls, which          *)
(* PerchAccount models; the entry points here call back only the account   *)
(* surface declared below.                                                 *)
(*                                                                         *)
(* A call that returns an error or panics keeps none of its writes, so a   *)
(* refusal is a disabled action.                                           *)
(***************************************************************************)
EXTENDS RecoveryData

CONSTANTS
    Rotations,   \* inputs: the ZK enrollments a replacement set may declare
    NewKeys,     \* inputs: the credentials a replacement set may declare
    OwnerDocs    \* inputs: the documents an owner may apply

VARIABLES
    now,         \* the current ledger sequence
    ctl,         \* [Controllers -> the account's RecoveryStorage there]
    \* The account surface a controller reads and calls:
    applied,     \* the applied document
    adopted,     \* the adopted controller (the applied recovery rule's policy)
    gate,        \* the Protected freeze mirror
    revoked,     \* revoked credential fingerprints
    enrolledIds, \* ZK enrollment ids ever enrolled
    leaves       \* the account's leaves in the membership pool

accountView == <<applied, adopted, gate, revoked, enrolledIds, leaves>>

Gates == [attempt : AttemptIds, until : Ledgers]

States == [config : Configs \cup {None},
           epoch : Nat,
           nextAttempt : 0 .. MaxAttempts,
           invalidateBelow : 0 .. MaxAttempts,
           authorized : AttemptIds \cup {None},
           cancels : Nat,
           attempts : [AttemptIds -> Attempts \cup {None}],
           completing : Markers \cup {None},
           nullifiers : SUBSET Factors,
           approvals : SUBSET Approvals,
           baselines : SUBSET Bodies]

EmptyState == [config |-> None, epoch |-> 0, nextAttempt |-> 0, invalidateBelow |-> 0,
               authorized |-> None, cancels |-> 0,
               attempts |-> [i \in AttemptIds |-> None],
               completing |-> None, nullifiers |-> {}, approvals |-> {}, baselines |-> {}]

-----------------------------------------------------------------------------
(* Liveness of attempts.                                                   *)

(* Mutant of IsLive: siblings of the authorized attempt are not retired.   *)
IsLiveBesideSibling(s, id) ==
    LET a == s.attempts[id] IN
    /\ a # None
    /\ a.epoch = s.epoch
    /\ \/ a.state = "Collecting" /\ now <= a.evidenceDeadline
       \/ a.state = "Authorized" /\ s.authorized = id /\ now < a.expiresAt

(* Mutant of IsLive: bound to the configuration instead of the epoch.      *)
IsLiveByConfig(s, id) ==
    LET a == s.attempts[id] IN
    /\ a # None
    /\ a.target.recovery = s.config
    /\ \/ /\ a.state = "Collecting"
          /\ id >= s.invalidateBelow
          /\ now <= a.evidenceDeadline
       \/ a.state = "Authorized" /\ s.authorized = id /\ now < a.expiresAt

IsLive(s, id) ==
    LET a == s.attempts[id] IN
    /\ a # None
    /\ a.epoch = s.epoch
    /\ \/ /\ a.state = "Collecting"
          /\ id >= s.invalidateBelow
          /\ now <= a.evidenceDeadline
       \/ /\ a.state = "Authorized"
          /\ s.authorized = id
          /\ now < a.expiresAt

AuthorizedLive(s) ==
    /\ s.authorized # None
    /\ s.attempts[s.authorized] # None
    /\ s.attempts[s.authorized].persistent
    /\ IsLive(s, s.authorized)

(* The freeze is in force.                                                 *)
Frozen == gate # None /\ now < gate.until

-----------------------------------------------------------------------------
(* The account's views, and state helpers.                                 *)

(* Mutant of IsRevoked: the account forgets revocations.                   *)
IsRevokedNever(fingerprint) == FALSE

IsRevoked(fingerprint) == fingerprint \in revoked

(* Mutant of IsEnrolledId: the account forgets past enrollments.           *)
IsEnrolledIdNever(id) == FALSE

IsEnrolledId(id) == id \in enrolledIds

(* Mutant of BumpEpoch: evidence survives a change of configuration.       *)
KeepEpoch(s) == s

BumpEpoch(s) == [s EXCEPT !.epoch = @ + 1]

(* Mutant of StoreConfig: a new configuration resets the cancellations.    *)
StoreConfigAfresh(s, config) == BumpEpoch([s EXCEPT !.config = config, !.cancels = 0])

StoreConfig(s, config) == BumpEpoch([s EXCEPT !.config = config])

(* An attempt that was ever authorized, or whose evidence window outlives  *)
(* any temporary entry, is stored persistently.                            *)
Save(s, id, a) ==
    LET stored == s.attempts[id]
        window == a.evidenceDeadline - now + 1
    IN [s EXCEPT !.attempts[id] =
          [a EXCEPT !.persistent =
             \/ a.state \in {"Authorized", "Completed"}
             \/ window > MaxTtl
             \/ stored # None /\ stored.persistent]]

(* Mutant of InitiationMet: either factor of a combined condition is       *)
(* enough.                                                                 *)
InitiationMetByEither(config, a) ==
    \/ HasGuardians(config) /\ Cardinality(a.guardians) >= config.quorum
    \/ HasZk(config) /\ a.nullifier # None

InitiationMet(config, a) ==
    /\ HasGuardians(config) => Cardinality(a.guardians) >= config.quorum
    /\ HasZk(config) => a.nullifier # None

CancellationMet(config, a) ==
    /\ HasGuardians(config) => Cardinality(a.cancelGuardians) >= config.quorum
    /\ HasZk(config) => a.cancelZk

ChangeStatement(s, subject, until) ==
    [epoch |-> s.epoch, config |-> s.config, until |-> until, subject |-> subject]

(* Mutant of RequireCondition: one approver is enough.                     *)
RequireAnyApproval(s, subject, until) ==
    /\ CheckFresh(ChangeStatement(s, subject, until), now)
    /\ \E p \in s.approvals : p.statement = ChangeStatement(s, subject, until)

(* The recorded evidence for a change satisfies the enrolled condition.    *)
RequireCondition(s, subject, until) ==
    LET statement == ChangeStatement(s, subject, until)
        approvers == {p.by : p \in {q \in s.approvals : q.statement = statement}}
    IN /\ CheckFresh(statement, now)
       /\ approvers # {}
       /\ HasGuardians(s.config) =>
            Cardinality(approvers \cap s.config.guardians) >= s.config.quorum
       /\ HasZk(s.config) => "zk" \in approvers

(* The adapter accepts a proof for the enrolled factor: its leaf is in the *)
(* pool, and the prover holds its secret. Its nullifier is unspent.        *)
VerifyZk(s) == s.config.zk \in leaves /\ s.config.zk \notin s.nullifiers

-----------------------------------------------------------------------------
(* Attempts: T1 begin, T2/T3 evidence, T4 promotion, T6/T7 cancellation.   *)

(* Mutant of CancelUntil: the completion window is not covered.            *)
CancelUntilExecutable(config, deadline) == deadline + config.delay

CancelUntil(config, deadline) == deadline + config.delay + config.expiry

Begin(c, action, r) ==
    LET s == ctl[c]
        source == IF action = "Compromise" THEN s.config.baseline ELSE applied.body
        target == DeriveTarget(source, applied.recovery, r)
        replaced == ReplacedCredentials(source, r)
        deadline == now + s.config.expiry
        cancelUntil == CancelUntil(s.config, deadline)
    IN /\ s.config # None
       /\ ~ AuthorizedLive(s)
       /\ HasZk(s.config) <=> r.zk # None
       /\ applied # None
       /\ action = "Compromise" =>
            s.config.baseline # None /\ s.config.baseline \in s.baselines
       /\ applied.recovery # None
       /\ DeriveOk(source, applied.recovery, action, r)
       /\ r.zk # None => ~ IsEnrolledId(r.zk.id)
       /\ \A k \in Fingerprints(target.body) : ~ IsRevoked(k)
       /\ ReplacedCredentialsLeave(replaced, Fingerprints(target.body))
       /\ Fits(deadline) /\ Fits(cancelUntil)
       /\ s.nextAttempt < MaxAttempts
       /\ ctl' = [ctl EXCEPT ![c] =
            Save([s EXCEPT !.nextAttempt = @ + 1], s.nextAttempt,
                 [action |-> action, epoch |-> s.epoch,
                  evidenceDeadline |-> deadline, cancelUntil |-> cancelUntil,
                  executableAfter |-> 0, expiresAt |-> 0,
                  source |-> IF action = "Compromise" THEN source ELSE applied,
                  target |-> target, replaced |-> replaced, state |-> "Collecting",
                  guardians |-> {}, nullifier |-> None,
                  cancelGuardians |-> {}, cancelZk |-> FALSE, persistent |-> FALSE])]
       /\ UNCHANGED <<now, accountView>>

(* Mutant of RcvGate: a cancelled attempt leaves its freeze behind.        *)
RcvGateSetOnly(c, id, until) ==
    /\ adopted = c
    /\ gate' = IF until # 0 THEN [attempt |-> id, until |-> until] ELSE gate

(* The adopted controller sets (until > 0) or clears the freeze mirror.    *)
RcvGate(c, id, until) ==
    /\ adopted = c
    /\ gate' = IF until # 0 THEN [attempt |-> id, until |-> until]
               ELSE IF gate # None /\ gate.attempt = id THEN None ELSE gate

(* Mutant of Stale: the source is not compared at promotion.               *)
NeverStale(a) == FALSE

(* The account moved off the document a lost-key attempt started from.     *)
Stale(a) == a.action = "LostKey" /\ applied # a.source

Promote(c, id, a) ==
    LET s == ctl[c]
        executableAfter == now + s.config.delay
        expiresAt == executableAfter + s.config.expiry
    IN /\ ~ AuthorizedLive(s)
       /\ \/ /\ Stale(a)
             /\ ctl' = [ctl EXCEPT ![c] = Save(s, id, [a EXCEPT !.state = "Invalidated"])]
             /\ UNCHANGED gate
          \/ /\ ~ Stale(a)
             /\ Fits(executableAfter) /\ Fits(expiresAt)
             /\ ctl' = [ctl EXCEPT ![c] =
                  Save([s EXCEPT !.invalidateBelow = s.nextAttempt, !.authorized = id], id,
                       [a EXCEPT !.state = "Authorized",
                                 !.executableAfter = executableAfter,
                                 !.expiresAt = expiresAt])]
             /\ IF s.config.profile = "Protected"
                THEN RcvGate(c, id, expiresAt) ELSE UNCHANGED gate

Cancel(c, id, a, counted) ==
    LET s == ctl[c]
        wasAuthorized == a.state = "Authorized"
        counts == counted /\ wasAuthorized
    IN /\ counts => s.cancels < s.config.maxCancels
       /\ ctl' = [ctl EXCEPT ![c] =
            Save([s EXCEPT !.cancels = IF counts THEN @ + 1 ELSE @,
                           !.authorized = IF wasAuthorized THEN None ELSE @],
                 id, [a EXCEPT !.state = "Cancelled"])]
       /\ IF wasAuthorized /\ s.config.profile = "Protected"
          THEN RcvGate(c, id, 0) ELSE UNCHANGED gate

(* Record evidence, then promote or cancel if the condition is now met.    *)
AfterEvidence(c, id, a, domain) ==
    LET s == ctl[c]
        met == IF domain = "Initiate" THEN InitiationMet(s.config, a)
                                      ELSE CancellationMet(s.config, a)
    IN /\ \/ /\ ~ met
             /\ ctl' = [ctl EXCEPT ![c] = Save(s, id, a)]
             /\ UNCHANGED gate
          \/ met /\ domain = "Initiate" /\ Promote(c, id, a)
          \/ met /\ domain = "Cancel" /\ Cancel(c, id, a, TRUE)
       /\ UNCHANGED <<now, applied, adopted, revoked, enrolledIds, leaves>>

(* Evidence is taken for a live attempt, while its statement is fresh;     *)
(* initiation evidence only while the attempt collects.                    *)
Accepts(s, id, domain) ==
    /\ s.config # None
    /\ IsLive(s, id)
    /\ \/ domain = "Initiate" /\ s.attempts[id].state = "Collecting"
                              /\ now <= s.attempts[id].evidenceDeadline
       \/ domain = "Cancel" /\ now <= s.attempts[id].cancelUntil

SubmitGuardian(c, id, domain, g) ==
    LET s == ctl[c]
        a == s.attempts[id]
    IN /\ Accepts(s, id, domain)
       /\ HasGuardians(s.config)
       /\ g \in s.config.guardians
       /\ \/ /\ domain = "Initiate"
             /\ g \notin a.guardians
             /\ AfterEvidence(c, id, [a EXCEPT !.guardians = @ \cup {g}], domain)
          \/ /\ domain = "Cancel"
             /\ g \notin a.cancelGuardians
             /\ AfterEvidence(c, id, [a EXCEPT !.cancelGuardians = @ \cup {g}], domain)

SubmitZk(c, id, domain) ==
    LET s == ctl[c]
        a == s.attempts[id]
    IN /\ Accepts(s, id, domain)
       /\ HasZk(s.config)
       /\ VerifyZk(s)
       /\ \/ /\ domain = "Initiate"
             /\ a.nullifier = None
             /\ AfterEvidence(c, id, [a EXCEPT !.nullifier = s.config.zk], domain)
          \/ /\ domain = "Cancel"
             /\ ~ a.cancelZk
             /\ AfterEvidence(c, id, [a EXCEPT !.cancelZk = TRUE], domain)

-----------------------------------------------------------------------------
(* Reconfiguration and upgrade evidence, the baseline, and storage expiry. *)

RecordApproval(c, by, subject, until) ==
    LET s == ctl[c]
        statement == ChangeStatement(s, subject, until)
        approval == [statement |-> statement, by |-> by]
    IN /\ s.config # None
       /\ ~ AuthorizedLive(s)
       /\ CheckFresh(statement, now)
       /\ approval \notin s.approvals
       /\ ctl' = [ctl EXCEPT ![c].approvals = @ \cup {approval}]
       /\ UNCHANGED <<now, accountView>>

ApproveChange(c, subject, until, g) ==
    /\ ctl[c].config # None
    /\ HasGuardians(ctl[c].config)
    /\ g \in ctl[c].config.guardians
    /\ RecordApproval(c, g, subject, until)

SubmitZkChange(c, subject, until) ==
    /\ ctl[c].config # None
    /\ HasZk(ctl[c].config)
    /\ VerifyZk(ctl[c])
    /\ RecordApproval(c, "zk", subject, until)

PublishBaseline(c) ==
    LET s == ctl[c] IN
    /\ s.config # None
    /\ s.config.baseline # None
    /\ Compiles([body |-> s.config.baseline, recovery |-> None])
    /\ AdminSurvives(s.config.baseline)
    /\ ctl' = [ctl EXCEPT ![c].baselines = @ \cup {s.config.baseline}]
    /\ UNCHANGED <<now, accountView>>

(* The host drops a temporary entry whose time to live ran out.            *)
EvictCollecting(c, id) ==
    LET a == ctl[c].attempts[id] IN
    /\ a # None
    /\ ~ a.persistent
    /\ now > a.evidenceDeadline + 1
    /\ ctl' = [ctl EXCEPT ![c].attempts[id] = None]
    /\ UNCHANGED <<now, accountView>>

-----------------------------------------------------------------------------
(* The hooks: what each accepts of state s at controller c, and the state  *)
(* it leaves.                                                              *)

(* T5, enforce: the context is apply_doc of the authorized attempt's exact *)
(* target, inside the completion window.                                   *)
CompletionAuthorized(s, doc) ==
    /\ s.config # None
    /\ AuthorizedLive(s)
    /\ now >= s.attempts[s.authorized].executableAfter
    /\ doc = s.attempts[s.authorized].target

MarkCompleting(s) ==
    [s EXCEPT !.completing = [attempt |-> s.authorized,
                              target |-> s.attempts[s.authorized].target,
                              ledger |-> now]]

(* A marker counts for its document, in its ledger, while its attempt is   *)
(* the authorized one.                                                     *)
MarkerCurrent(s, doc) ==
    /\ s.completing # None
    /\ s.completing.target = doc
    /\ s.completing.ledger = now
    /\ AuthorizedLive(s)
    /\ s.authorized = s.completing.attempt

Change(recovery) ==
    IF recovery = None THEN [change |-> "Remove"]
                       ELSE [change |-> "Set", config |-> recovery]

Outcomes == {"Completed", "Unchanged", "Enrolled", "Reconfigured", "Removed"}

(* How rcv_sync classifies applying doc, if it does not refuse it.         *)
RcvSync(s, c, doc, until, outcome) ==
    LET new == doc.recovery
        here == new # None /\ new.controller = c
        allowed == s.config.profile = "Protected" => RequireCondition(s, Change(new), until)
    IN \/ /\ outcome = "Completed"
          /\ MarkerCurrent(s, doc)
          /\ doc = s.attempts[s.authorized].target
          /\ here
          /\ new = s.attempts[s.authorized].target.recovery
          /\ s.attempts[s.authorized].nullifier \notin s.nullifiers
       \/ /\ ~ MarkerCurrent(s, doc)
          /\ ~ AuthorizedLive(s)
          /\ \/ outcome = "Unchanged" /\ s.config = None /\ new = None
             \/ /\ outcome = "Enrolled" /\ s.config = None /\ here
                /\ CheckConfig(new) /\ CheckZkWiring(None, ZkOf(new))
             \/ outcome = "Unchanged" /\ s.config # None /\ here /\ new = s.config
             \/ /\ outcome = "Reconfigured" /\ s.config # None /\ here /\ new # s.config
                /\ allowed
                /\ CheckConfig(new) /\ CheckZkWiring(ZkOf(s.config), ZkOf(new))
             \/ outcome = "Removed" /\ s.config # None /\ ~ here /\ allowed

Complete(s, doc) ==
    LET a == s.attempts[s.authorized]
        saved == Save(s, s.authorized, [a EXCEPT !.state = "Completed"])
    IN StoreConfig([saved EXCEPT
                      !.nullifiers = IF a.nullifier = None THEN @ ELSE @ \cup {a.nullifier},
                      !.authorized = None],
                   doc.recovery)

(* Mutant of Synced: a controller the account left keeps its record.       *)
SyncedKeepsRecord(s, doc, outcome) ==
    LET t == [s EXCEPT !.completing = None] IN
    CASE outcome = "Completed" -> Complete(t, doc)
      [] outcome = "Unchanged" -> t
      [] outcome \in {"Enrolled", "Reconfigured"} -> StoreConfig(t, doc.recovery)
      [] outcome = "Removed" -> BumpEpoch([t EXCEPT !.authorized = None])

(* The state rcv_sync leaves; a marker is consumed whatever the outcome.   *)
Synced(s, doc, outcome) ==
    LET t == [s EXCEPT !.completing = None] IN
    CASE outcome = "Completed" -> Complete(t, doc)
      [] outcome = "Unchanged" -> t
      [] outcome \in {"Enrolled", "Reconfigured"} -> StoreConfig(t, doc.recovery)
      [] outcome = "Removed" -> BumpEpoch([t EXCEPT !.config = None, !.authorized = None])

RcvCancel(c, id) ==
    /\ ctl[c].config # None
    /\ ctl[c].config.profile = "Loss"
    /\ IsLive(ctl[c], id)
    /\ Cancel(c, id, ctl[c].attempts[id], FALSE)

UpgradeScheduleAllowed(s, subject, until) ==
    /\ s.config # None
    /\ ~ AuthorizedLive(s)
    /\ s.config.profile = "Protected" => RequireCondition(s, subject, until)

UpgradeExecuteAllowed(s, epoch) ==
    /\ s.config # None
    /\ ~ AuthorizedLive(s)
    /\ epoch = s.epoch
=============================================================================
