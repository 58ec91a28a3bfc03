---------------------------- MODULE RecoveryData ----------------------------
(***************************************************************************)
(* The data the recovery controller and the smart account exchange, and    *)
(* the pure rules over it: documents, compiled recovery configurations,    *)
(* ZK factors, attempts, change statements, target derivation.             *)
(*                                                                         *)
(* Hashes are the values they identify: doc_hash is the document,          *)
(* config_hash the configuration, a statement digest the statement, a      *)
(* credential fingerprint the key.                                         *)
(***************************************************************************)
EXTENDS Integers, FiniteSets

CONSTANTS
    Controllers,   \* recovery controller instances
    Guardians,     \* guardian addresses a configuration may name
    ThisAccount,   \* the account's own address
    Slots,         \* signer ids a document may declare
    Keys,          \* credentials, by fingerprint
    KeyKind,       \* [Keys -> "delegated" or the verifier of an external key]
    EnrollIds,     \* ZK enrollment ids
    Commitments,   \* ZK commitments
    Wired,         \* factors whose adapter and pool agree (circuit id, depth)
    Wasms,         \* account Wasm hashes
    None,          \* the absent value of every option
    LedgerMax,     \* stands for u32::MAX
    MaxTtl,        \* longest life of a temporary storage entry, in ledgers
    UpgradeDelay,  \* ACCOUNT_UPGRADE_DELAY_LEDGERS
    MaxAttempts    \* bound: attempt ids per controller

Ledgers == 0 .. LedgerMax

AttemptIds == 0 .. MaxAttempts - 1

Profiles == {"Loss", "Protected"}

Modes == {"GuardianOnly", "ZkOnly", "Combined"}

Factors == [id : EnrollIds, commitment : Commitments]

(* A document's signers and rules. Only two facts about the rules matter    *)
(* here: which credential each declared signer id holds, and which signers *)
(* hold a policy-free, unbounded self-admin rule.                          *)
Bodies == [signers : [Slots -> Keys \cup {None}], admin : SUBSET Slots]

Configs == [controller : Controllers,
            profile : Profiles,
            mode : Modes,
            guardians : SUBSET Guardians,
            quorum : Nat,
            zk : Factors \cup {None},
            baseline : Bodies \cup {None},
            replaceable : SUBSET Slots,
            delay : Nat,
            expiry : Nat,
            maxCancels : Nat]

Docs == [body : Bodies, recovery : Configs \cup {None}]

AttemptStates == {"Collecting", "Authorized", "Completed", "Cancelled", "Invalidated"}

Attempts == [action : {"LostKey", "Compromise"},
             epoch : Nat,
             evidenceDeadline : Ledgers,
             cancelUntil : Ledgers,
             executableAfter : Ledgers,
             expiresAt : Ledgers,
             source : Bodies \cup Docs,
             target : Docs,
             replaced : SUBSET Keys,
             state : AttemptStates,
             guardians : SUBSET Guardians,
             nullifier : Factors \cup {None},
             cancelGuardians : SUBSET Guardians,
             cancelZk : BOOLEAN,
             persistent : BOOLEAN]

Markers == [attempt : AttemptIds, target : Docs, ledger : Ledgers]

Subjects == [change : {"Set"}, config : Configs]
            \cup [change : {"Remove"}]
            \cup [request : Nat, wasm : Wasms]

(* A Reconfigure or Upgrade statement. Account, network and controller are *)
(* fixed by whose state it is recorded in.                                 *)
Statements == [epoch : Nat, config : Configs, until : Ledgers, subject : Subjects]

(* Recorded evidence for a statement: one record per approver.             *)
Approvals == [statement : Statements, by : Guardians \cup {"zk"}]

ASSUME DataAssumption ==
    /\ LedgerMax \in Nat
    /\ MaxTtl \in Nat \ {0}
    /\ UpgradeDelay \in Nat
    /\ MaxAttempts \in Nat \ {0}
    /\ IsFiniteSet(Guardians)
    /\ "zk" \notin Guardians
    /\ None \notin Controllers \cup Keys \cup Factors \cup Bodies \cup Configs
                   \cup Docs \cup Attempts \cup Markers \cup Nat

-----------------------------------------------------------------------------

HasGuardians(config) == config.mode # "ZkOnly"

HasZk(config) == config.mode # "GuardianOnly"

(* The ZK factor a compiled recovery member carries, if it has one.        *)
ZkOf(recovery) == IF recovery # None /\ HasZk(recovery) THEN recovery.zk ELSE None

Fingerprints(body) == {body.signers[s] : s \in Slots} \ {None}

AdminSurvives(body) == \E s \in body.admin : body.signers[s] # None

(* Mutant of Fits: an unchecked add.                                       *)
FitsAlways(ledger) == TRUE

(* checked_add on u32: a sum above LedgerMax is LedgerOverflow.            *)
Fits(ledger) == ledger <= LedgerMax

(* Mutant of ZkFactorTransitionOk: a factor may change in place.           *)
ZkFactorAnyTransition(old, new) == TRUE

ZkFactorTransitionOk(old, new) ==
    old # None /\ new # None => old = new \/ old.id # new.id

LeafToInsert(old, new) ==
    IF new = None \/ (old # None /\ old.id = new.id) THEN None ELSE new

Revocations(replaced, current, target) == replaced \cup (current \ target)

(* Mutant of ReplacedCredentialsLeave: swaps are accepted.                 *)
ReplacedCredentialsMayStay(replaced, target) == TRUE

ReplacedCredentialsLeave(replaced, target) == replaced \cap target = {}

(* No credential is declared under two signer ids.                         *)
DistinctKeys(signers) ==
    \A s, t \in Slots : s # t /\ signers[s] # None => signers[s] # signers[t]

(* A recovery member names declared signers, has usable terms, and has the *)
(* factors of its mode.                                                    *)
ValidRecovery(recovery, signers) ==
    /\ recovery.replaceable # {}
    /\ \A s \in recovery.replaceable : signers[s] # None
    /\ recovery.delay # 0 /\ recovery.expiry # 0 /\ recovery.maxCancels # 0
    /\ HasGuardians(recovery) => recovery.quorum \in 1 .. Cardinality(recovery.guardians)
    /\ HasZk(recovery) <=> recovery.zk # None

Compiles(doc) ==
    /\ DistinctKeys(doc.body.signers)
    /\ doc.recovery # None => ValidRecovery(doc.recovery, doc.body.signers)

(* A configuration the controller can serve.                               *)
CheckConfig(config) ==
    /\ config.delay # 0 /\ config.expiry # 0 /\ config.maxCancels # 0
    /\ HasGuardians(config) =>
         /\ ThisAccount \notin config.guardians
         /\ config.quorum # 0
         /\ config.quorum <= Cardinality(config.guardians)

(* A changed factor carries a new enrollment id and is provable at all.    *)
CheckZkWiring(old, new) ==
    /\ ZkFactorTransitionOk(old, new)
    /\ new \notin {None, old} => new \in Wired

(* Mutant of CheckFresh: expired evidence still counts.                    *)
CheckNotTooFar(statement, ledger) == statement.until - ledger <= statement.config.expiry

(* Evidence for a change is fresh, and reaches no further than the expiry. *)
CheckFresh(statement, ledger) ==
    /\ ledger <= statement.until
    /\ statement.until - ledger <= statement.config.expiry

(* A replacement set: the key each replaced signer id gets, None where the *)
(* id is not replaced, and the fresh ZK enrollment, if any.                *)
Replacements == [keys : [Slots -> Keys \cup {None}], zk : Factors \cup {None}]

Replaces(r) == {s \in Slots : r.keys[s] # None}

DeriveTarget(source, recovery, r) ==
    [body |-> [source EXCEPT !.signers =
                 [s \in Slots |-> IF s \in Replaces(r) THEN r.keys[s] ELSE source.signers[s]]],
     recovery |-> IF HasZk(recovery) THEN [recovery EXCEPT !.zk = r.zk] ELSE recovery]

(* What a replacement set may replace: replaceable, declared signers, each *)
(* by a credential of its kind, with a ZK rotation iff the mode has one.   *)
ReplacementsAllowed(source, recovery, action, r) ==
    /\ action = "LostKey" => Replaces(r) # {}
    /\ Replaces(r) \subseteq recovery.replaceable
    /\ \A s \in Replaces(r) :
         /\ source.signers[s] # None
         /\ KeyKind[r.keys[s]] = KeyKind[source.signers[s]]
    /\ HasZk(recovery) <=> r.zk # None

(* Mutant of DeriveOk: the derived target is not compiled again.           *)
DeriveUnchecked(source, recovery, action, r) ==
    ReplacementsAllowed(source, recovery, action, r)

DeriveOk(source, recovery, action, r) ==
    LET target == DeriveTarget(source, recovery, r) IN
    /\ ReplacementsAllowed(source, recovery, action, r)
    /\ Compiles(target)
    /\ AdminSurvives(target.body)

ReplacedCredentials(source, r) == {source.signers[s] : s \in Replaces(r)}
=============================================================================
