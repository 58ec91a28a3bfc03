------------------------- MODULE PerchAccountProofs -------------------------
(***************************************************************************)
(* Machine-checked proofs about PerchAccount, for every value of its       *)
(* constants: any controllers, guardians, documents, keys and bounds. Its  *)
(* state is always of its type, and what each operation of the recovery    *)
(* controller does to its book of attempts, AttemptBooks, and to the       *)
(* authorized attempt is stated here once for the modules that follow.     *)
(***************************************************************************)
EXTENDS PerchAccount, TLAPS

-----------------------------------------------------------------------------
(* Types of the pure operations.                                           *)

LEMMA SaveType ==
    ASSUME NEW s \in States, NEW id \in AttemptIds, NEW a \in Attempts
    PROVE  Save(s, id, a) \in States
  <1> DEFINE p == \/ a.state \in {"Authorized", "Completed"}
                  \/ a.evidenceDeadline - now + 1 > MaxTtl
                  \/ s.attempts[id] # None /\ s.attempts[id].persistent
  <1>1. [a EXCEPT !.persistent = p] \in Attempts
    <2>1. p \in BOOLEAN
      BY Zenon
    <2> QED BY <2>1, Zenon DEF Attempts
  <1> QED BY <1>1, Zenon DEF Save, States

LEMMA BumpEpochType ==
    ASSUME NEW s \in States
    PROVE  BumpEpoch(s) \in States
  BY DEF BumpEpoch, States

LEMMA StoreConfigType ==
    ASSUME NEW s \in States, NEW config \in Configs
    PROVE  StoreConfig(s, config) \in States
  <1>1. [s EXCEPT !.config = config] \in States
    BY Zenon DEF States
  <1> QED BY <1>1, BumpEpochType, Zenon DEF StoreConfig

LEMMA DeriveTargetType ==
    ASSUME NEW source \in Bodies, NEW recovery \in Configs, NEW r \in Replacements
    PROVE  DeriveTarget(source, recovery, r) \in Docs
  <1> DEFINE signers == [s \in Slots |-> IF s \in Replaces(r) THEN r.keys[s] ELSE source.signers[s]]
             body == [source EXCEPT !.signers = signers]
             member == IF HasZk(recovery) THEN [recovery EXCEPT !.zk = r.zk] ELSE recovery
  <1>1. signers \in [Slots -> Keys \cup {None}]
    BY Zenon DEF Replaces, Replacements, Bodies
  <1>2. body \in Bodies
    BY <1>1, Zenon DEF Bodies
  <1>3. member \in Configs
    BY Zenon DEF Configs, Replacements
  <1> QED BY <1>2, <1>3, Zenon DEF DeriveTarget, Docs

LEMMA ReplacedCredentialsType ==
    ASSUME NEW source \in Bodies, NEW recovery, NEW action, NEW r \in Replacements,
           DeriveOk(source, recovery, action, r)
    PROVE  ReplacedCredentials(source, r) \subseteq Keys
  <1>1. \A s \in Replaces(r) : s \in Slots /\ source.signers[s] # None
    BY Zenon DEF DeriveOk, ReplacementsAllowed, Replaces
  <1> QED BY <1>1, Zenon DEF ReplacedCredentials, Bodies

LEMMA CompleteType ==
    ASSUME NEW s \in States, NEW doc \in Docs, doc.recovery # None,
           s.authorized # None, s.attempts[s.authorized] # None
    PROVE  Complete(s, doc) \in States
  <1> DEFINE a == s.attempts[s.authorized]
             saved == Save(s, s.authorized, [a EXCEPT !.state = "Completed"])
             t == [saved EXCEPT !.nullifiers = IF a.nullifier = None THEN @ ELSE @ \cup {a.nullifier},
                                !.authorized = None]
  <1>1. s.authorized \in AttemptIds /\ a \in Attempts
    BY Zenon DEF States
  <1>2. [a EXCEPT !.state = "Completed"] \in Attempts
    BY <1>1, Zenon DEF Attempts, AttemptStates
  <1>3. saved \in States
    BY <1>1, <1>2, SaveType, Zenon
  <1>4. a.nullifier \in Factors \cup {None}
    BY <1>1, Zenon DEF Attempts
  <1>5. t \in States
    BY <1>3, <1>4, Zenon DEF States
  <1>6. doc.recovery \in Configs
    BY Zenon DEF Docs
  <1> QED BY <1>5, <1>6, StoreConfigType, Zenon DEF Complete

LEMMA SyncedType ==
    ASSUME NEW c \in Controllers, NEW s \in States, NEW doc \in Docs,
           NEW until, NEW outcome \in Outcomes, RcvSync(s, c, doc, until, outcome)
    PROVE  Synced(s, doc, outcome) \in States
  <1> DEFINE t == [s EXCEPT !.completing = None]
  <1>1. t \in States
    BY Zenon DEF States
  <1>2. CASE outcome = "Completed"
    <2>1. t.authorized # None /\ t.attempts[t.authorized] # None /\ doc.recovery # None
      BY <1>2, Zenon DEF RcvSync, MarkerCurrent, AuthorizedLive, States
    <2> QED BY <1>1, <1>2, <2>1, CompleteType, Zenon DEF Synced
  <1>3. CASE outcome = "Unchanged"
    BY <1>1, <1>3, Zenon DEF Synced
  <1>4. CASE outcome \in {"Enrolled", "Reconfigured"}
    <2>1. doc.recovery \in Configs
      BY <1>4, Zenon DEF RcvSync, Docs
    <2> QED BY <1>1, <1>4, <2>1, StoreConfigType, Zenon DEF Synced
  <1>5. CASE outcome = "Removed"
    <2>1. [t EXCEPT !.config = None, !.authorized = None] \in States
      BY <1>1, Zenon DEF States
    <2> QED BY <1>5, <2>1, BumpEpochType, Zenon DEF Synced
  <1> QED BY <1>2, <1>3, <1>4, <1>5, Zenon DEF Outcomes

-----------------------------------------------------------------------------
(* Types across the controller's steps.                                    *)

LEMMA BeginAttemptType ==
    ASSUME TypeOK, NEW c \in Controllers, NEW action \in {"LostKey", "Compromise"},
           NEW r \in Replacements, Begin(c, action, r)
    PROVE  LET s == ctl[c]
               source == IF action = "Compromise" THEN s.config.baseline ELSE applied.body
               deadline == now + s.config.expiry
           IN [action |-> action, epoch |-> s.epoch,
               evidenceDeadline |-> deadline,
               cancelUntil |-> CancelUntil(s.config, deadline),
               executableAfter |-> 0, expiresAt |-> 0,
               source |-> IF action = "Compromise" THEN source ELSE applied,
               target |-> DeriveTarget(source, applied.recovery, r),
               replaced |-> ReplacedCredentials(source, r), state |-> "Collecting",
               guardians |-> {}, nullifier |-> None,
               cancelGuardians |-> {}, cancelZk |-> FALSE, persistent |-> FALSE] \in Attempts
  <1> DEFINE s == ctl[c]
             source == IF action = "Compromise" THEN s.config.baseline ELSE applied.body
             target == DeriveTarget(source, applied.recovery, r)
             replaced == ReplacedCredentials(source, r)
             deadline == now + s.config.expiry
             cancelUntil == CancelUntil(s.config, deadline)
  <1>1. s \in States /\ s.config \in Configs
    BY Zenon DEF TypeOK, Begin, States
  <1>2. applied \in Docs /\ applied.recovery \in Configs /\ applied.body \in Bodies
    BY Zenon DEF TypeOK, Begin, Docs
  <1>3. source \in Bodies
    BY <1>1, <1>2, Zenon DEF Begin, Configs
  <1>4. target \in Docs
    BY <1>2, <1>3, DeriveTargetType, Zenon
  <1>5. replaced \subseteq Keys
    BY <1>3, ReplacedCredentialsType, Zenon DEF Begin
  <1>6. deadline \in Ledgers /\ cancelUntil \in Ledgers /\ 0 \in Ledgers
    BY <1>1, DataAssumption DEF TypeOK, Begin, Fits, Ledgers, Configs, CancelUntil
  <1>7. s.epoch \in Nat
    BY <1>1, Zenon DEF States
  <1> QED BY <1>2, <1>3, <1>4, <1>5, <1>6, <1>7, Zenon DEF Attempts, AttemptStates

LEMMA BeginType ==
    ASSUME TypeOK, NEW c \in Controllers, NEW action \in {"LostKey", "Compromise"},
           NEW r \in Replacements, Begin(c, action, r)
    PROVE  ctl' \in [Controllers -> States]
  <1> DEFINE s == ctl[c]
             source == IF action = "Compromise" THEN s.config.baseline ELSE applied.body
             deadline == now + s.config.expiry
             a == [action |-> action, epoch |-> s.epoch,
                   evidenceDeadline |-> deadline,
                   cancelUntil |-> CancelUntil(s.config, deadline),
                   executableAfter |-> 0, expiresAt |-> 0,
                   source |-> IF action = "Compromise" THEN source ELSE applied,
                   target |-> DeriveTarget(source, applied.recovery, r),
                   replaced |-> ReplacedCredentials(source, r), state |-> "Collecting",
                   guardians |-> {}, nullifier |-> None,
                   cancelGuardians |-> {}, cancelZk |-> FALSE, persistent |-> FALSE]
             t == [s EXCEPT !.nextAttempt = @ + 1]
  <1>1. s \in States /\ s.nextAttempt < MaxAttempts
    BY Zenon DEF TypeOK, Begin
  <1>2. s.nextAttempt \in AttemptIds
    BY <1>1, DataAssumption DEF States, AttemptIds
  <1>3. t \in States
    <2>1. s.nextAttempt + 1 \in 0 .. MaxAttempts
      BY <1>2, DataAssumption DEF AttemptIds
    <2> QED BY <1>1, <2>1, Zenon DEF States
  <1>4. a \in Attempts
    BY BeginAttemptType
  <1>5. ctl' = [ctl EXCEPT ![c] = Save(t, s.nextAttempt, a)]
    BY Zenon DEF Begin
  <1> HIDE DEF a, t
  <1>6. Save(t, s.nextAttempt, a) \in States
    BY <1>2, <1>3, <1>4, SaveType, Zenon
  <1> QED BY <1>5, <1>6, Zenon DEF TypeOK

LEMMA PromoteType ==
    ASSUME TypeOK, NEW c \in Controllers, ctl[c].config # None,
           NEW id \in AttemptIds, NEW a \in Attempts, Promote(c, id, a)
    PROVE  ctl' \in [Controllers -> States] /\ gate' \in Gates \cup {None}
  <1> DEFINE s == ctl[c]
             executableAfter == now + s.config.delay
             expiresAt == executableAfter + s.config.expiry
             t == [s EXCEPT !.invalidateBelow = s.nextAttempt, !.authorized = id]
             b == [a EXCEPT !.state = "Authorized",
                            !.executableAfter = executableAfter,
                            !.expiresAt = expiresAt]
  <1>1. s \in States /\ s.config \in Configs
    BY Zenon DEF TypeOK, States
  <1>2. CASE Stale(a)
    <2>1. [a EXCEPT !.state = "Invalidated"] \in Attempts
      BY Zenon DEF Attempts, AttemptStates
    <2>2. Save(s, id, [a EXCEPT !.state = "Invalidated"]) \in States
      BY <1>1, <2>1, SaveType, Zenon
    <2> QED BY <1>2, <2>2, Zenon DEF TypeOK, Promote
  <1>3. CASE ~ Stale(a)
    <2>1. executableAfter \in Ledgers /\ expiresAt \in Ledgers
      BY <1>1, <1>3, DataAssumption DEF TypeOK, Promote, Fits, Ledgers, Configs
    <2>2. b \in Attempts
      BY <2>1, Zenon DEF Attempts, AttemptStates
    <2>3. t \in States
      BY <1>1, Zenon DEF States
    <2>4. Save(t, id, b) \in States
      BY <2>2, <2>3, SaveType, Zenon
    <2>5. ctl' = [ctl EXCEPT ![c] = Save(t, id, b)]
      BY <1>3, Zenon DEF Promote
    <2>6. gate' \in Gates \cup {None}
      BY <1>3, <2>1 DEF Promote, RcvGate, Gates, TypeOK
    <2> QED BY <2>4, <2>5, <2>6, Zenon DEF TypeOK
  <1> QED BY <1>2, <1>3, Zenon

LEMMA CancelType ==
    ASSUME TypeOK, NEW c \in Controllers, NEW id \in AttemptIds, NEW a \in Attempts,
           NEW counted \in BOOLEAN, Cancel(c, id, a, counted)
    PROVE  ctl' \in [Controllers -> States] /\ gate' \in Gates \cup {None}
  <1> DEFINE s == ctl[c]
             wasAuthorized == a.state = "Authorized"
             counts == counted /\ wasAuthorized
             t == [s EXCEPT !.cancels = IF counts THEN @ + 1 ELSE @,
                            !.authorized = IF wasAuthorized THEN None ELSE @]
             b == [a EXCEPT !.state = "Cancelled"]
  <1>1. s \in States
    BY Zenon DEF TypeOK
  <1>2. t \in States
    <2>1. (IF counts THEN s.cancels + 1 ELSE s.cancels) \in Nat
      BY <1>1 DEF States
    <2>2. (IF wasAuthorized THEN None ELSE s.authorized) \in AttemptIds \cup {None}
      BY <1>1, Zenon DEF States
    <2> HIDE DEF counts, wasAuthorized
    <2> QED BY <1>1, <2>1, <2>2, Zenon DEF States
  <1>3. b \in Attempts
    BY Zenon DEF Attempts, AttemptStates
  <1>4. Save(t, id, b) \in States
    BY <1>2, <1>3, SaveType, Zenon
  <1>5. ctl' = [ctl EXCEPT ![c] = Save(t, id, b)]
    BY Zenon DEF Cancel
  <1>6. gate' \in Gates \cup {None}
    BY Zenon DEF Cancel, RcvGate, TypeOK
  <1> QED BY <1>4, <1>5, <1>6, Zenon DEF TypeOK

LEMMA AfterEvidenceType ==
    ASSUME TypeOK, NEW c \in Controllers, ctl[c].config # None,
           NEW id \in AttemptIds, NEW a \in Attempts, NEW domain,
           AfterEvidence(c, id, a, domain)
    PROVE  ctl' \in [Controllers -> States] /\ gate' \in Gates \cup {None}
  <1>1. CASE Promote(c, id, a)
    BY <1>1, PromoteType, Zenon
  <1>2. CASE Cancel(c, id, a, TRUE)
    BY <1>2, CancelType, Zenon
  <1>3. CASE ctl' = [ctl EXCEPT ![c] = Save(ctl[c], id, a)] /\ UNCHANGED gate
    <2>1. Save(ctl[c], id, a) \in States
      BY SaveType, Zenon DEF TypeOK
    <2> QED BY <1>3, <2>1, Zenon DEF TypeOK
  <1> QED BY <1>1, <1>2, <1>3, Zenon DEF AfterEvidence

LEMMA EvidenceType ==
    ASSUME TypeOK, NEW c \in Controllers, NEW id \in AttemptIds, NEW domain,
           \/ SubmitZk(c, id, domain)
           \/ \E g \in Guardians : SubmitGuardian(c, id, domain, g)
    PROVE  ctl' \in [Controllers -> States] /\ gate' \in Gates \cup {None}
  <1> DEFINE s == ctl[c]
             a == s.attempts[id]
  <1>1. s \in States /\ s.config \in Configs /\ s.config # None /\ a \in Attempts
    BY Zenon DEF TypeOK, SubmitZk, SubmitGuardian, Accepts, IsLive, States
  <1>2. CASE SubmitZk(c, id, domain)
    <2>1. HasZk(s.config)
      BY <1>2, Zenon DEF SubmitZk
    <2>2. s.config.zk \in Factors \cup {None}
      BY <1>1, Zenon DEF Configs
    <2>3. /\ [a EXCEPT !.nullifier = s.config.zk] \in Attempts
          /\ [a EXCEPT !.cancelZk = TRUE] \in Attempts
      BY <1>1, <2>2, Zenon DEF Attempts
    <2> QED BY <1>1, <1>2, <2>3, AfterEvidenceType, Zenon DEF SubmitZk
  <1>3. ASSUME NEW g \in Guardians, SubmitGuardian(c, id, domain, g)
        PROVE  ctl' \in [Controllers -> States] /\ gate' \in Gates \cup {None}
    <2>1. /\ [a EXCEPT !.guardians = @ \cup {g}] \in Attempts
          /\ [a EXCEPT !.cancelGuardians = @ \cup {g}] \in Attempts
      BY <1>1, Zenon DEF Attempts
    <2> QED BY <1>1, <1>3, <2>1, AfterEvidenceType, Zenon DEF SubmitGuardian
  <1> QED BY <1>2, <1>3, Zenon

LEMMA RecordApprovalType ==
    ASSUME TypeOK, NEW c \in Controllers, NEW by \in Guardians \cup {"zk"},
           NEW subject \in Subjects, NEW until \in Ledgers,
           RecordApproval(c, by, subject, until)
    PROVE  ctl' \in [Controllers -> States]
  <1> DEFINE s == ctl[c]
             approval == [statement |-> ChangeStatement(s, subject, until), by |-> by]
  <1>1. s \in States /\ s.config \in Configs /\ s.epoch \in Nat
    BY Zenon DEF TypeOK, RecordApproval, States
  <1>2. ChangeStatement(s, subject, until) \in Statements
    BY <1>1, Zenon DEF ChangeStatement, Statements
  <1>3. approval \in Approvals
    BY <1>2, Zenon DEF Approvals
  <1>4. [s EXCEPT !.approvals = @ \cup {approval}] \in States
    BY <1>1, <1>3, Zenon DEF States
  <1>5. ctl' = [ctl EXCEPT ![c] = [s EXCEPT !.approvals = @ \cup {approval}]]
    BY Zenon DEF RecordApproval, TypeOK
  <1> QED BY <1>4, <1>5, Zenon DEF TypeOK

LEMMA PublishBaselineType ==
    ASSUME TypeOK, NEW c \in Controllers, PublishBaseline(c)
    PROVE  ctl' \in [Controllers -> States]
  <1> DEFINE s == ctl[c]
             t == [s EXCEPT !.baselines = @ \cup {s.config.baseline}]
  <1>1. s \in States /\ s.config.baseline \in Bodies
    BY Zenon DEF TypeOK, PublishBaseline, States, Configs
  <1>2. t \in States
    BY <1>1, Zenon DEF States
  <1>3. ctl' = [ctl EXCEPT ![c] = t]
    BY Zenon DEF PublishBaseline, TypeOK
  <1> QED BY <1>2, <1>3, Zenon DEF TypeOK

LEMMA EvictCollectingType ==
    ASSUME TypeOK, NEW c \in Controllers, NEW id \in AttemptIds, EvictCollecting(c, id)
    PROVE  ctl' \in [Controllers -> States]
  <1> DEFINE t == [ctl[c] EXCEPT !.attempts[id] = None]
  <1>1. t \in States
    <2>1. ctl[c] \in States
      BY Zenon DEF TypeOK
    <2>2. PICK attempts : attempts = [ctl[c].attempts EXCEPT ![id] = None]
      BY Zenon
    <2>3. attempts \in [AttemptIds -> Attempts \cup {None}]
      BY <2>1, <2>2, Zenon DEF States
    <2>4. t = [ctl[c] EXCEPT !.attempts = attempts]
      BY <2>1, <2>2, Zenon DEF States
    <2> QED BY <2>1, <2>3, <2>4, Zenon DEF States
  <1>2. ctl' = [ctl EXCEPT ![c] = t]
    BY Zenon DEF EvictCollecting, TypeOK
  <1> QED BY <1>1, <1>2, Zenon DEF TypeOK

-----------------------------------------------------------------------------
(* Types across the account's steps.                                       *)

LEMMA SubmittableType ==
    ASSUME TypeOK
    PROVE  Submittable \subseteq Docs
  <1>1. \A c \in Controllers, id \in AttemptIds :
          ctl[c].attempts[id] # None => ctl[c].attempts[id].target \in Docs
    BY DEF TypeOK, States, Attempts
  <1> QED BY <1>1, AccountAssumption DEF Submittable

LEMMA MarkCompletingType ==
    ASSUME TypeOK, NEW doc, RecoveryAuthorized(doc)
    PROVE  [ctl EXCEPT ![adopted] = MarkCompleting(@)] \in [Controllers -> States]
  <1> DEFINE s == ctl[adopted]
  <1>1. s \in States /\ s.authorized \in AttemptIds /\ s.attempts[s.authorized] \in Attempts
    BY Zenon DEF TypeOK, RecoveryAuthorized, CompletionAuthorized, AuthorizedLive, States
  <1>2. s.attempts[s.authorized].target \in Docs
    BY <1>1, Zenon DEF Attempts
  <1>3. [attempt |-> s.authorized, target |-> s.attempts[s.authorized].target,
         ledger |-> now] \in Markers
    BY <1>1, <1>2, Zenon DEF Markers, TypeOK
  <1>4. MarkCompleting(s) \in States
    BY <1>1, <1>3, Zenon DEF MarkCompleting, States
  <1> QED BY <1>4, Zenon DEF TypeOK

LEMMA SyncBothType ==
    ASSUME TypeOK, NEW st \in [Controllers -> States], NEW doc \in Docs, NEW until,
           NEW old \in Outcomes, NEW new \in Outcomes, SyncBoth(st, doc, until, old, new)
    PROVE  ctl' \in [Controllers -> States]
  <1> DEFINE named == IF doc.recovery = None THEN None ELSE doc.recovery.controller
  <1>1. ASSUME NEW c \in Controllers, c = adopted
        PROVE  Synced(st[c], doc, old) \in States
    <2>1. adopted # None
      BY <1>1, DataAssumption, Zenon
    <2>2. RcvSync(st[c], c, doc, until, old)
      BY <1>1, <2>1, Zenon DEF SyncBoth
    <2> QED BY <2>2, SyncedType, Zenon
  <1>2. ASSUME NEW c \in Controllers, c # adopted, c = named
        PROVE  Synced(st[c], doc, new) \in States
    <2>1. named # None
      BY <1>2, DataAssumption, Zenon
    <2>2. RcvSync(st[c], c, doc, until, new)
      BY <1>2, <2>1, Zenon DEF SyncBoth
    <2> QED BY <2>2, SyncedType, Zenon
  <1>3. ctl' = [c \in Controllers |-> IF c = adopted THEN Synced(st[c], doc, old)
                                     ELSE IF c = named THEN Synced(st[c], doc, new)
                                     ELSE st[c]]
    BY Zenon DEF SyncBoth
  <1> QED BY <1>1, <1>2, <1>3, Zenon

LEMMA ApplyType ==
    ASSUME TypeOK, NEW st \in [Controllers -> States], NEW doc \in Docs, NEW until,
           NEW expected, Apply(st, doc, until, expected)
    PROVE  TypeOK'
  <1> DEFINE newZk == ZkOf(doc.recovery)
             leaf == LeafToInsert(currentZk, newZk)
             named == IF doc.recovery = None THEN None ELSE doc.recovery.controller
  <1>1. newZk \in Factors \cup {None} /\ named \in Controllers \cup {None}
    BY Zenon DEF ZkOf, HasZk, Docs, Configs
  <1>2. leaf \in Factors \cup {None}
    BY <1>1, Zenon DEF LeafToInsert
  <1>3. PICK old \in Outcomes, new \in Outcomes :
          /\ SyncBoth(st, doc, until, old, new)
          /\ generation' = generation + Bump(old) + Bump(new)
          /\ IF old = "Completed"
             THEN CompleteRecovery(st[adopted].attempts[st[adopted].authorized].replaced, doc)
             ELSE UNCHANGED <<revoked, gate, pending>>
    BY Zenon DEF Apply
  <1>4. ctl' \in [Controllers -> States]
    BY <1>3, SyncBothType, Zenon
  <1>5. generation' \in Nat
    BY <1>3 DEF Bump, TypeOK
  <1>6. \A body \in Bodies : Fingerprints(body) \subseteq Keys
    BY Zenon DEF Fingerprints, Bodies
  <1>7. /\ revoked' \subseteq Keys
        /\ gate' \in Gates \cup {None} /\ pending' \in Requests \cup {None}
    <2>1. CASE old = "Completed"
      <3> DEFINE s == st[adopted]
                 replaced == s.attempts[s.authorized].replaced
                 before == IF applied = None THEN {} ELSE Fingerprints(applied.body)
      <3>1. adopted \in Controllers
        BY <1>3, <2>1, Zenon DEF TypeOK, SyncBoth
      <3>2. MarkerCurrent(s, doc)
        BY <1>3, <2>1, <3>1, DataAssumption, Zenon DEF SyncBoth, RcvSync
      <3>3. s.attempts[s.authorized] \in Attempts
        BY <3>1, <3>2 DEF MarkerCurrent, AuthorizedLive, States
      <3>4. replaced \subseteq Keys
        BY <3>3, Zenon DEF Attempts
      <3>5. before \subseteq Keys
        BY <1>6, Zenon DEF TypeOK, Docs
      <3>6. revoked' = revoked \cup Revocations(replaced, before, Fingerprints(doc.body))
        BY <1>3, <2>1, Zenon DEF CompleteRecovery
      <3>7. revoked' \subseteq Keys
        BY <3>4, <3>5, <3>6, Zenon DEF Revocations, TypeOK
      <3> QED BY <1>3, <2>1, <3>7, Zenon DEF CompleteRecovery
    <2>2. CASE old # "Completed"
      BY <1>3, <2>2, Zenon DEF TypeOK
    <2> QED BY <2>1, <2>2, Zenon
  <1>8. leaves' \subseteq Factors /\ enrolledIds' \subseteq EnrollIds
    <2>1. leaf # None => leaf.id \in EnrollIds
      BY <1>2, Zenon DEF Factors
    <2> QED BY <1>2, <2>1, Zenon DEF Apply, TypeOK
  <1>9. /\ currentZk' \in Factors \cup {None} /\ adopted' \in Controllers \cup {None}
        /\ applied' \in Docs \cup {None}
    BY <1>1, Zenon DEF Apply
  <1>10. now' \in Ledgers /\ revision' \in Nat /\ nextUpgrade' \in Nat /\ wasm' \in Wasms
    BY DEF Apply, TypeOK
  <1> QED BY <1>4, <1>5, <1>7, <1>8, <1>9, <1>10, Zenon DEF TypeOK

LEMMA InitType == Init => TypeOK
  <1> SUFFICES ASSUME Init PROVE TypeOK
    BY Zenon
  <1>1. EmptyState \in States
    BY DataAssumption DEF EmptyState, States
  <1>2. 0 \in Ledgers
    BY DataAssumption DEF Ledgers
  <1> QED BY <1>1, <1>2, Zenon DEF Init, TypeOK

LEMMA ControllerStepType ==
    ASSUME TypeOK, NEW c \in Controllers, ControllerStep(c)
    PROVE  TypeOK'
  <1>1. ASSUME NEW action \in {"LostKey", "Compromise"},
               NEW keys \in [Slots -> NewKeys \cup {None}], NEW zk \in Rotations \cup {None},
               Begin(c, action, [keys |-> keys, zk |-> zk]), UNCHANGED accountOnly
        PROVE  TypeOK'
    <2>1. [keys |-> keys, zk |-> zk] \in Replacements
      BY AccountAssumption, Zenon DEF Replacements
    <2>2. ctl' \in [Controllers -> States]
      BY <1>1, <2>1, BeginType, Zenon
    <2>3. UNCHANGED <<now, accountView>>
      BY <1>1, Zenon DEF Begin
    <2> QED BY <1>1, <2>2, <2>3, Zenon DEF TypeOK, accountOnly, accountView
  <1>2. ASSUME NEW id \in AttemptIds, NEW domain \in {"Initiate", "Cancel"},
               \/ SubmitZk(c, id, domain)
               \/ \E g \in Guardians : SubmitGuardian(c, id, domain, g),
               UNCHANGED accountOnly
        PROVE  TypeOK'
    <2>1. ctl' \in [Controllers -> States] /\ gate' \in Gates \cup {None}
      BY <1>2, EvidenceType, Zenon
    <2>2. UNCHANGED <<now, applied, adopted, revoked, enrolledIds, leaves>>
      BY <1>2, Zenon DEF SubmitZk, SubmitGuardian, AfterEvidence
    <2> QED BY <1>2, <2>1, <2>2, Zenon DEF TypeOK, accountOnly
  <1>3. ASSUME NEW subject \in Asked, NEW until \in Deadlines,
               \/ SubmitZkChange(c, subject, until)
               \/ \E g \in Guardians : ApproveChange(c, subject, until, g),
               UNCHANGED accountOnly
        PROVE  TypeOK'
    <2>1. PICK by \in Guardians \cup {"zk"} : RecordApproval(c, by, subject, until)
      BY <1>3, Zenon DEF SubmitZkChange, ApproveChange
    <2>2. ctl' \in [Controllers -> States]
      BY <2>1, RecordApprovalType, AccountAssumption, Zenon
    <2>3. UNCHANGED <<now, accountView>>
      BY <2>1, Zenon DEF RecordApproval
    <2> QED BY <1>3, <2>2, <2>3, Zenon DEF TypeOK, accountOnly, accountView
  <1>4. CASE PublishBaseline(c) /\ UNCHANGED accountOnly
    <2>1. ctl' \in [Controllers -> States]
      BY <1>4, PublishBaselineType, Zenon
    <2>2. UNCHANGED <<now, accountView>>
      BY <1>4, Zenon DEF PublishBaseline
    <2> QED BY <1>4, <2>1, <2>2, Zenon DEF TypeOK, accountOnly, accountView
  <1>5. ASSUME NEW id \in AttemptIds, EvictCollecting(c, id), UNCHANGED accountOnly
        PROVE  TypeOK'
    <2>1. ctl' \in [Controllers -> States]
      BY <1>5, EvictCollectingType, Zenon
    <2>2. UNCHANGED <<now, accountView>>
      BY <1>5, Zenon DEF EvictCollecting
    <2> QED BY <1>5, <2>1, <2>2, Zenon DEF TypeOK, accountOnly, accountView
  <1> QED BY <1>1, <1>2, <1>3, <1>4, <1>5, Zenon DEF ControllerStep

LEMMA UpgradeType ==
    ASSUME TypeOK,
           \/ \E w \in Wasms, until \in Deadlines \cup {0} : ScheduleUpgrade(w, until)
           \/ \E id \in 0 .. MaxUpgrades - 1 : ExecuteUpgrade(id)
           \/ CancelUpgrade
    PROVE  TypeOK'
  <1>1. ASSUME NEW w \in Wasms, NEW until \in Deadlines \cup {0}, ScheduleUpgrade(w, until)
        PROVE  TypeOK'
    <2>1. now + UpgradeDelay \in Ledgers
      BY <1>1, DataAssumption DEF ScheduleUpgrade, Fits, Ledgers, TypeOK
    <2>2. (IF adopted = None THEN None ELSE ctl[adopted].epoch) \in Nat \cup {None}
      BY Zenon DEF TypeOK, States
    <2>3. pending' \in Requests
      BY <1>1, <2>1, <2>2, Zenon DEF ScheduleUpgrade, Requests, TypeOK
    <2>4. nextUpgrade' \in Nat
      BY <1>1 DEF ScheduleUpgrade, TypeOK
    <2> QED BY <1>1, <2>3, <2>4, Zenon DEF ScheduleUpgrade, TypeOK, accountView
  <1>2. ASSUME NEW id \in 0 .. MaxUpgrades - 1, ExecuteUpgrade(id)
        PROVE  TypeOK'
    <2>1. ctl' \in [Controllers -> States]
      BY <1>2, BumpEpochType DEF ExecuteUpgrade, TypeOK
    <2>2. wasm' \in Wasms
      BY <1>2, Zenon DEF ExecuteUpgrade, TypeOK, Requests
    <2> QED BY <1>2, <2>1, <2>2 DEF ExecuteUpgrade, TypeOK, accountView
  <1>3. CASE CancelUpgrade
    BY <1>3, Zenon DEF CancelUpgrade, TypeOK, accountView
  <1> QED BY <1>1, <1>2, <1>3, Zenon

LEMMA AccountStepType ==
    ASSUME TypeOK, AccountStep
    PROVE  TypeOK'
  <1>1. ASSUME NEW doc \in Submittable, NEW until, NEW expected,
               ApplyDoc(doc, until, expected) \/ CompleteDoc(doc, until, expected)
        PROVE  TypeOK'
    <2>1. doc \in Docs
      BY SubmittableType, Zenon
    <2>2. CASE ApplyDoc(doc, until, expected)
      BY <2>1, <2>2, ApplyType, Zenon DEF ApplyDoc, TypeOK
    <2>3. CASE CompleteDoc(doc, until, expected)
      BY <2>1, <2>3, ApplyType, MarkCompletingType, Zenon DEF CompleteDoc
    <2> QED BY <1>1, <2>2, <2>3, Zenon
  <1>2. ASSUME NEW doc \in Submittable, EnforceOnly(doc)
        PROVE  TypeOK'
    <2>1. ctl' \in [Controllers -> States]
      BY <1>2, MarkCompletingType, Zenon DEF EnforceOnly
    <2> QED BY <1>2, <2>1, Zenon DEF EnforceOnly, TypeOK, accountView, accountOnly
  <1>3. ASSUME NEW id \in AttemptIds, CancelRecovery(id)
        PROVE  TypeOK'
    <2>1. adopted \in Controllers /\ ctl[adopted].attempts[id] \in Attempts
      BY <1>3, Zenon DEF CancelRecovery, RcvCancel, IsLive, TypeOK, States
    <2>2. ctl' \in [Controllers -> States] /\ gate' \in Gates \cup {None}
      BY <1>3, <2>1, CancelType, Zenon DEF CancelRecovery, RcvCancel
    <2> QED BY <1>3, <2>2, Zenon DEF CancelRecovery, TypeOK, accountOnly
  <1> QED BY <1>1, <1>2, <1>3, UpgradeType, Zenon DEF AccountStep

(* Type correctness: every entry the account and its controllers store has *)
(* its declared type in every reachable state, each ledger fits u32.       *)
THEOREM TypeCorrect == Spec => []TypeOK
  <1>1. ASSUME TypeOK, [Next]_vars PROVE TypeOK'
    <2>1. CASE CloseLedger
      BY <1>1, <2>1, DataAssumption
      DEF CloseLedger, TypeOK, accountView, accountOnly, Ledgers
    <2>2. CASE UNCHANGED vars
      BY <1>1, <2>2, Zenon DEF vars, TypeOK, accountView, accountOnly
    <2> QED BY <1>1, <2>1, <2>2, ControllerStepType, AccountStepType, Zenon DEF Next
  <1> QED BY <1>1, InitType, PTL DEF Spec

-----------------------------------------------------------------------------
(* One controller's record.                                                *)

(* Saving attempt a touches no other attempt and no counter.               *)
LEMMA SaveEffect ==
    ASSUME NEW s \in States, NEW id \in AttemptIds, NEW a \in Attempts
    PROVE  LET t == Save(s, id, a) IN
           /\ t \in States
           /\ t.config = s.config /\ t.epoch = s.epoch /\ t.nextAttempt = s.nextAttempt
           /\ t.invalidateBelow = s.invalidateBelow /\ t.authorized = s.authorized
           /\ \A i \in AttemptIds : i # id => t.attempts[i] = s.attempts[i]
  <1>1. PICK b : Save(s, id, a) = [s EXCEPT !.attempts[id] = b]
    BY Zenon DEF Save
  <1>2. Save(s, id, a) \in States
    BY SaveType, Zenon
  <1> QED BY <1>1, <1>2, Zenon DEF States

(* It stores a, persistently if a is authorized or completed.              *)
LEMMA SavedAttempt ==
    ASSUME NEW s \in States, NEW id \in AttemptIds, NEW a \in Attempts
    PROVE  LET b == Save(s, id, a).attempts[id] IN
           /\ b \in Attempts /\ b # None
           /\ b.action = a.action /\ b.epoch = a.epoch /\ b.state = a.state
           /\ b.evidenceDeadline = a.evidenceDeadline /\ b.cancelUntil = a.cancelUntil
           /\ b.expiresAt = a.expiresAt /\ b.source = a.source
           /\ b.guardians = a.guardians /\ b.nullifier = a.nullifier
           /\ a.state \in {"Authorized", "Completed"} => b.persistent
  <1> DEFINE p == \/ a.state \in {"Authorized", "Completed"}
                  \/ a.evidenceDeadline - now + 1 > MaxTtl
                  \/ s.attempts[id] # None /\ s.attempts[id].persistent
             b == [a EXCEPT !.persistent = p]
  <1>1. p \in BOOLEAN /\ (a.state \in {"Authorized", "Completed"} => p)
    BY Zenon
  <1>2. Save(s, id, a).attempts[id] = b
    BY Zenon DEF Save, States
  <1> HIDE DEF p
  <1>3. b \in Attempts
    BY <1>1, Zenon DEF Attempts
  <1>4. b # None
    BY <1>3, DataAssumption, Zenon
  <1>5. /\ b.action = a.action /\ b.epoch = a.epoch /\ b.state = a.state
        /\ b.evidenceDeadline = a.evidenceDeadline /\ b.cancelUntil = a.cancelUntil
        /\ b.expiresAt = a.expiresAt /\ b.source = a.source
        /\ b.guardians = a.guardians /\ b.nullifier = a.nullifier
        /\ b.persistent = p
    BY Zenon DEF Attempts
  <1> QED BY <1>1, <1>2, <1>3, <1>4, <1>5, Zenon

(* A record that differs only in approvals, baselines, nullifiers, cancels *)
(* or the completion marker keeps its books.                               *)
LEMMA BooksOfSame ==
    ASSUME NEW s \in States, NEW t \in States, AttemptBooks(s),
           t.config = s.config, t.epoch = s.epoch, t.nextAttempt = s.nextAttempt,
           t.invalidateBelow = s.invalidateBelow, t.authorized = s.authorized,
           t.attempts = s.attempts
    PROVE  AttemptBooks(t) /\ (AuthorizedLive(t) <=> AuthorizedLive(s))
  BY DEF AttemptBooks, AttemptBook, AuthorizedLive, IsLive

(* A record whose epoch moved on, whatever its configuration: nothing in   *)
(* it is live any more.                                                    *)
LEMMA BooksOfLaterEpoch ==
    ASSUME NEW s \in States, NEW t \in States, AttemptBooks(s),
           t.epoch = s.epoch + 1, t.nextAttempt = s.nextAttempt,
           t.invalidateBelow = s.invalidateBelow, t.authorized \in {None, s.authorized},
           t.attempts = s.attempts
    PROVE  AttemptBooks(t) /\ ~ AuthorizedLive(t)
  <1>1. \A id \in AttemptIds : t.attempts[id] # None =>
          t.attempts[id].epoch \in Nat /\ t.attempts[id].epoch < t.epoch
    BY SMTT(20) DEF AttemptBooks, AttemptBook, States, Attempts
  <1>2. ~ AuthorizedLive(t)
    BY <1>1, SMTT(20) DEF AuthorizedLive, IsLive, States
  <1>3. \A id \in AttemptIds : t.attempts[id] # None => AttemptBook(t, id, t.attempts[id])
    BY <1>1 DEF AttemptBooks, AttemptBook, States, Attempts
  <1> QED BY <1>2, <1>3, Zenon DEF AttemptBooks

LEMMA NoConfigNotLive ==
    ASSUME NEW s \in States, AttemptBooks(s), AuthorizedLive(s)
    PROVE  s.config # None
  BY Zenon DEF AttemptBooks, AttemptBook, AuthorizedLive, IsLive, States

(* Saving an attempt that keeps to the books, under the counters of s.     *)
LEMMA BooksOfSaved ==
    ASSUME NEW s \in States, NEW id \in AttemptIds, NEW a \in Attempts,
           s.invalidateBelow <= s.nextAttempt,
           \A i \in AttemptIds : i # id /\ s.attempts[i] # None
                                   => AttemptBook(s, i, s.attempts[i]),
           AttemptBook(s, id, a),
           s.authorized # None => \/ s.authorized = id /\ a.state = "Authorized"
                                  \/ /\ s.authorized # id
                                     /\ s.attempts[s.authorized] # None
                                     /\ s.attempts[s.authorized].state = "Authorized"
                                     /\ s.attempts[s.authorized].persistent,
           AuthorizedLive(Save(s, id, a)) => s.invalidateBelow = s.nextAttempt
    PROVE  AttemptBooks(Save(s, id, a))
  <1> DEFINE t == Save(s, id, a)
  <1>1. /\ t \in States
        /\ t.config = s.config /\ t.epoch = s.epoch /\ t.nextAttempt = s.nextAttempt
        /\ t.invalidateBelow = s.invalidateBelow /\ t.authorized = s.authorized
        /\ \A i \in AttemptIds : i # id => t.attempts[i] = s.attempts[i]
    BY SaveEffect, SMTT(20)
  <1> DEFINE b == t.attempts[id]
  <1>2. /\ b # None
        /\ b.epoch = a.epoch /\ b.state = a.state
        /\ b.evidenceDeadline = a.evidenceDeadline /\ b.cancelUntil = a.cancelUntil
        /\ b.expiresAt = a.expiresAt
        /\ b.guardians = a.guardians /\ b.nullifier = a.nullifier
        /\ a.state = "Authorized" => b.persistent
    BY SavedAttempt
  <1> HIDE DEF t
  <1>4. AttemptBook(t, id, b)
    BY <1>1, <1>2, Zenon DEF AttemptBook, InitiationMet
  <1>5. ASSUME NEW i \in AttemptIds, t.attempts[i] # None
        PROVE  AttemptBook(t, i, t.attempts[i])
    <2>1. CASE i = id
      BY <1>4, <2>1, Zenon
    <2>2. CASE i # id
      BY <1>1, <1>5, <2>2, SMTT(20) DEF AttemptBook
    <2> QED BY <2>1, <2>2, Zenon
  <1>6. t.authorized # None => /\ t.attempts[t.authorized] # None
                               /\ t.attempts[t.authorized].state = "Authorized"
                               /\ t.attempts[t.authorized].persistent
    BY <1>1, <1>2 DEF States
  <1>7. t.invalidateBelow <= t.nextAttempt /\ (AuthorizedLive(t) => t.invalidateBelow = t.nextAttempt)
    BY <1>1, Zenon DEF t
  <1> QED BY <1>5, <1>6, <1>7, Zenon DEF AttemptBooks, t

(* What saving attempt a under its id does to the authorized attempt.      *)
LEMMA SavedLive ==
    ASSUME NEW s \in States, NEW id \in AttemptIds, NEW a \in Attempts,
           s.authorized = id => a.state # "Collecting"
    PROVE  AuthorizedLive(Save(s, id, a)) <=>
             IF s.authorized = id
             THEN a.epoch = s.epoch /\ a.state = "Authorized" /\ now < a.expiresAt
             ELSE AuthorizedLive(s)
  <1> DEFINE t == Save(s, id, a)
  <1>1. /\ t.epoch = s.epoch /\ t.invalidateBelow = s.invalidateBelow
        /\ t.authorized = s.authorized
        /\ \A i \in AttemptIds : i # id => t.attempts[i] = s.attempts[i]
    BY SaveEffect
  <1> DEFINE b == t.attempts[id]
  <1>2. /\ b # None
        /\ b.epoch = a.epoch /\ b.state = a.state /\ b.expiresAt = a.expiresAt
        /\ a.state = "Authorized" => b.persistent
    BY SavedAttempt
  <1>3. id # None
    BY DataAssumption DEF AttemptIds
  <1> HIDE DEF t
  <1>4. CASE s.authorized = id
    <2>1. AuthorizedLive(t) <=>
            a.epoch = s.epoch /\ a.state = "Authorized" /\ now < a.expiresAt
      BY <1>1, <1>2, <1>3, <1>4 DEF AuthorizedLive, IsLive
    <2> QED BY <1>4, <2>1, Zenon DEF t
  <1>5. CASE s.authorized # id
    <2>1. AuthorizedLive(t) <=> AuthorizedLive(s)
      BY <1>1, <1>5 DEF AuthorizedLive, IsLive, States
    <2> QED BY <1>5, <2>1, Zenon DEF t
  <1> QED BY <1>4, <1>5, Zenon

-----------------------------------------------------------------------------
(* The controllers' steps, on one record.                                  *)

(* Evidence that decides nothing yet.                                      *)
LEMMA BooksOfEvidence ==
    ASSUME NEW s \in States, AttemptBooks(s), NEW id \in AttemptIds, NEW a \in Attempts,
           s.attempts[id] # None, AttemptBook(s, id, a),
           a.state = s.attempts[id].state, a.epoch = s.attempts[id].epoch,
           a.expiresAt = s.attempts[id].expiresAt
    PROVE  /\ AttemptBooks(Save(s, id, a))
           /\ AuthorizedLive(Save(s, id, a)) <=> AuthorizedLive(s)
  <1>1. s.authorized = id => a.state = "Authorized"
    BY DataAssumption DEF AttemptBooks, AttemptIds
  <1>2. AuthorizedLive(Save(s, id, a)) <=>
             IF s.authorized = id
             THEN a.epoch = s.epoch /\ a.state = "Authorized" /\ now < a.expiresAt
             ELSE AuthorizedLive(s)
    BY <1>1, SavedLive
  <1>3. s.authorized = id => (AuthorizedLive(s) <=> a.epoch = s.epoch /\ now < a.expiresAt)
    BY DataAssumption DEF AuthorizedLive, IsLive, AttemptBooks, AttemptIds
  <1>4. AuthorizedLive(Save(s, id, a)) <=> AuthorizedLive(s)
    BY <1>1, <1>2, <1>3, ZenonT(40)
  <1>5. AttemptBooks(Save(s, id, a))
    BY <1>1, <1>4, BooksOfSaved DEF AttemptBooks
  <1> QED BY <1>4, <1>5, Zenon

(* A new collecting attempt, or the invalidation of a stale one: an        *)
(* attempt that is neither authorized nor named so.                        *)
LEMMA BooksOfOther ==
    ASSUME NEW s \in States, AttemptBooks(s), NEW id \in AttemptIds, NEW a \in Attempts,
           s.authorized # id, AttemptBook(s, id, a)
    PROVE  /\ AttemptBooks(Save(s, id, a))
           /\ AuthorizedLive(Save(s, id, a)) <=> AuthorizedLive(s)
  <1>1. AuthorizedLive(Save(s, id, a)) <=> AuthorizedLive(s)
    BY SavedLive, Zenon
  <1>2. AttemptBooks(Save(s, id, a))
    BY <1>1, BooksOfSaved, Zenon DEF AttemptBooks
  <1> QED BY <1>1, <1>2, Zenon

(* T1: an attempt begun while none is authorized.                          *)
LEMMA BooksOfBegun ==
    ASSUME NEW s \in States, AttemptBooks(s), s.config # None, ~ AuthorizedLive(s),
           s.nextAttempt < MaxAttempts, NEW a \in Attempts,
           a.epoch = s.epoch, a.state = "Collecting",
           a.cancelUntil = CancelUntil(s.config, a.evidenceDeadline),
           a.guardians = {}, a.nullifier = None
    PROVE  LET t == Save([s EXCEPT !.nextAttempt = @ + 1], s.nextAttempt, a) IN
           AttemptBooks(t) /\ ~ AuthorizedLive(t)
  <1> DEFINE t == [s EXCEPT !.nextAttempt = @ + 1]
             id == s.nextAttempt
  <1>1. id \in AttemptIds /\ id + 1 \in 0 .. MaxAttempts
    BY DataAssumption DEF States, AttemptIds
  <1>2. /\ t \in States
        /\ t.config = s.config /\ t.epoch = s.epoch /\ t.nextAttempt = id + 1
        /\ t.invalidateBelow = s.invalidateBelow /\ t.authorized = s.authorized
        /\ t.attempts = s.attempts
    BY <1>1 DEF States
  <1>3. t.authorized # id
    <2>1. id # None /\ ~ (id < s.nextAttempt)
      BY <1>1, DataAssumption DEF AttemptIds
    <2> QED BY <1>1, <1>2, <2>1 DEF AttemptBooks, AttemptBook
  <1> HIDE DEF t
  <1>4. ~ AuthorizedLive(t)
    BY <1>2, Zenon DEF AuthorizedLive, IsLive
  <1>5. \A i \in AttemptIds : t.attempts[i] # None => AttemptBook(t, i, t.attempts[i])
    BY <1>1, <1>2 DEF AttemptBooks, AttemptBook, AttemptIds
  <1>6. t.invalidateBelow <= t.nextAttempt
    BY <1>1, <1>2 DEF AttemptBooks, States
  <1>7. AttemptBooks(t)
    BY <1>2, <1>4, <1>5, <1>6, Zenon DEF AttemptBooks
  <1>8. AttemptBook(t, id, a)
    <2>1. id < t.nextAttempt
      BY <1>1, <1>2 DEF AttemptIds
    <2>2. a.epoch <= t.epoch
      BY <1>2 DEF States
    <2> QED BY <1>2, <2>1, <2>2, Zenon DEF AttemptBook
  <1>9. AttemptBooks(Save(t, id, a)) /\ ~ AuthorizedLive(Save(t, id, a))
    BY <1>1, <1>2, <1>3, <1>4, <1>7, <1>8, BooksOfOther, Zenon
  <1> QED BY <1>9, Zenon DEF t

(* T4: a promotion retires every sibling.                                  *)
LEMMA BooksOfPromoted ==
    ASSUME NEW s \in States, AttemptBooks(s), NEW id \in AttemptIds, NEW b \in Attempts,
           AttemptBook(s, id, b), b.state = "Authorized", b.epoch = s.epoch
    PROVE  LET t == Save([s EXCEPT !.invalidateBelow = s.nextAttempt, !.authorized = id],
                         id, b)
           IN AttemptBooks(t) /\ (AuthorizedLive(t) <=> now < b.expiresAt)
  <1> DEFINE t == [s EXCEPT !.invalidateBelow = s.nextAttempt, !.authorized = id]
  <1>1. /\ t \in States
        /\ t.config = s.config /\ t.epoch = s.epoch /\ t.nextAttempt = s.nextAttempt
        /\ t.invalidateBelow = s.nextAttempt /\ t.authorized = id
        /\ t.attempts = s.attempts
    BY Zenon DEF States
  <1> HIDE DEF t
  <1>2. AuthorizedLive(Save(t, id, b)) <=> now < b.expiresAt
    BY <1>1, SavedLive, ZenonT(40)
  <1>3. /\ \A i \in AttemptIds : i # id /\ t.attempts[i] # None
                                   => AttemptBook(t, i, t.attempts[i])
        /\ AttemptBook(t, id, b)
        /\ t.invalidateBelow <= t.nextAttempt
    BY <1>1 DEF AttemptBooks, AttemptBook, States
  <1>4. AttemptBooks(Save(t, id, b))
    BY <1>1, <1>3, BooksOfSaved, Zenon
  <1> QED BY <1>2, <1>4, Zenon DEF t

(* T6 and T7: a live attempt is cancelled.                                 *)
LEMMA BooksOfCancelled ==
    ASSUME NEW s \in States, AttemptBooks(s), NEW id \in AttemptIds, NEW a \in Attempts,
           s.attempts[id] # None, a.state = s.attempts[id].state, IsLive(s, id),
           AttemptBook(s, id, a), NEW cancels \in Nat
    PROVE  LET was == a.state = "Authorized"
               t == Save([s EXCEPT !.cancels = cancels,
                                   !.authorized = IF was THEN None ELSE @],
                         id, [a EXCEPT !.state = "Cancelled"])
           IN AttemptBooks(t) /\ (AuthorizedLive(t) <=> AuthorizedLive(s) /\ ~ was)
  <1> DEFINE was == a.state = "Authorized"
             authorized == IF was THEN None ELSE s.authorized
             t == [s EXCEPT !.cancels = cancels, !.authorized = authorized]
             b == [a EXCEPT !.state = "Cancelled"]
  <1>1. id # None /\ authorized \in AttemptIds \cup {None}
    BY DataAssumption DEF AttemptIds, States
  <1>2. b \in Attempts /\ b.state = "Cancelled"
    BY Zenon DEF Attempts, AttemptStates
  <1>3. AttemptBook(s, id, b)
    BY Zenon DEF AttemptBook, Attempts
  <1>4. was => s.authorized = id
    BY Zenon DEF IsLive
  <1>5. ~ was => s.authorized # id
    BY <1>1, Zenon DEF AttemptBooks
  <1>6. authorized # id
    BY <1>1, <1>5, Zenon
  <1>7. authorized = s.authorized \/ (authorized = None /\ s.authorized = id /\ was)
    BY <1>4, Zenon
  <1>8. authorized = s.authorized => ~ was
    BY <1>1, <1>4, <1>5, Zenon
  <1> HIDE DEF authorized, was, b
  <1>9. /\ t \in States
        /\ t.config = s.config /\ t.epoch = s.epoch /\ t.nextAttempt = s.nextAttempt
        /\ t.invalidateBelow = s.invalidateBelow /\ t.authorized = authorized
        /\ t.attempts = s.attempts
    BY <1>1, Zenon DEF States
  <1> HIDE DEF t
  <1>10. AuthorizedLive(t) <=> AuthorizedLive(s) /\ ~ was
    <2>1. CASE authorized = s.authorized
      <3>1. ~ was
        BY <1>8, <2>1, Zenon
      <3> QED BY <1>9, <2>1, <3>1, Zenon DEF AuthorizedLive, IsLive
    <2>2. CASE authorized = None /\ was
      BY <1>9, <2>2, ZenonT(40) DEF AuthorizedLive
    <2> QED BY <1>7, <2>1, <2>2, Zenon
  <1>11. AttemptBooks(t)
    BY <1>7, <1>9, <1>10 DEF AttemptBooks, AttemptBook
  <1>12. AttemptBook(t, id, b)
    BY <1>3, <1>9, Zenon DEF AttemptBook
  <1>13. AttemptBooks(Save(t, id, b)) /\ (AuthorizedLive(Save(t, id, b)) <=> AuthorizedLive(t))
    BY <1>2, <1>6, <1>9, <1>11, <1>12, BooksOfOther, Zenon
  <1> QED BY <1>10, <1>13, Zenon DEF t, b, was, authorized

(* T5, rcv_sync's half: a completion.                                      *)
LEMMA BooksOfComplete ==
    ASSUME NEW s \in States, AttemptBooks(s), AuthorizedLive(s),
           NEW doc \in Docs, doc.recovery # None
    PROVE  LET t == Complete(s, doc) IN
           AttemptBooks(t) /\ ~ AuthorizedLive(t) /\ t.config = doc.recovery
  <1> DEFINE id == s.authorized
             a == s.attempts[id]
             b == [a EXCEPT !.state = "Completed"]
             r == [s EXCEPT !.authorized = None]
             saved == Save(s, id, b)
             u == [saved EXCEPT !.nullifiers = IF a.nullifier = None THEN @ ELSE @ \cup {a.nullifier},
                                !.authorized = None]
  <1>1. id \in AttemptIds /\ a \in Attempts /\ a # None
    BY Zenon DEF AuthorizedLive, States
  <1>2. b \in Attempts
    BY <1>1, Zenon DEF Attempts, AttemptStates
  <1>3. /\ r \in States
        /\ r.config = s.config /\ r.epoch = s.epoch /\ r.nextAttempt = s.nextAttempt
        /\ r.invalidateBelow = s.invalidateBelow /\ r.authorized = None
        /\ r.attempts = s.attempts
    BY Zenon DEF States
  <1>4. AttemptBook(s, id, b)
    BY <1>1, Zenon DEF AttemptBooks, AttemptBook, Attempts
  <1>5. AttemptBooks(Save(r, id, b))
    <2>1. AttemptBook(r, id, b)
      BY <1>3, <1>4, Zenon DEF AttemptBook
    <2>2. AttemptBooks(r)
      BY <1>3 DEF AttemptBooks, AttemptBook, AuthorizedLive
    <2>3. r.authorized # id
      BY <1>1, <1>3, DataAssumption DEF AttemptIds
    <2> QED BY <1>1, <1>2, <1>3, <2>1, <2>2, <2>3, BooksOfOther, Zenon
  <1>6. saved \in States /\ Save(r, id, b) \in States
    BY <1>1, <1>2, <1>3, SaveType, Zenon
  <1>7. a.nullifier \in Factors \cup {None}
    BY <1>1, Zenon DEF Attempts
  <1>8. Save(r, id, b).attempts = saved.attempts
    BY <1>1, <1>3, Zenon DEF Save, States
  <1>9. /\ saved.config = s.config /\ saved.epoch = s.epoch
        /\ saved.nextAttempt = s.nextAttempt /\ saved.invalidateBelow = s.invalidateBelow
    BY <1>1, <1>2, SaveEffect
  <1>10. LET v == Save(r, id, b) IN
        /\ v.config = s.config /\ v.epoch = s.epoch /\ v.authorized = None
        /\ v.nextAttempt = s.nextAttempt /\ v.invalidateBelow = s.invalidateBelow
    BY <1>1, <1>2, <1>3, SaveEffect, ZenonT(40)
  <1> HIDE DEF saved
  <1>11. /\ u \in States
         /\ u.config = s.config /\ u.epoch = s.epoch /\ u.nextAttempt = s.nextAttempt
         /\ u.invalidateBelow = s.invalidateBelow /\ u.authorized = None
         /\ u.attempts = saved.attempts
    BY <1>6, <1>7, <1>9, Zenon DEF States
  <1> HIDE DEF u, r, b, id, a
  <1>12. AttemptBooks(u)
    BY <1>5, <1>6, <1>8, <1>10, <1>11, BooksOfSame, Zenon
  <1>13. Complete(s, doc) = StoreConfig(u, doc.recovery)
    BY Zenon DEF Complete, u, saved, b, id, a
  <1>14. doc.recovery \in Configs
    BY Zenon DEF Docs
  <1>15. StoreConfig(u, doc.recovery) \in States
    BY <1>11, <1>14, StoreConfigType, Zenon
  <1>16. LET t == StoreConfig(u, doc.recovery) IN
         /\ t.config = doc.recovery /\ t.epoch = u.epoch + 1
         /\ t.nextAttempt = u.nextAttempt /\ t.invalidateBelow = u.invalidateBelow
         /\ t.authorized = u.authorized /\ t.attempts = u.attempts
    BY <1>11, Zenon DEF StoreConfig, BumpEpoch, States
  <1>17. AttemptBooks(StoreConfig(u, doc.recovery)) /\ ~ AuthorizedLive(StoreConfig(u, doc.recovery))
    BY <1>11, <1>12, <1>15, <1>16, BooksOfLaterEpoch, Zenon
  <1> QED BY <1>13, <1>16, <1>17, Zenon

(* What rcv_sync leaves, whatever it decided: the books hold, nothing is   *)
(* authorized any more, and the configuration stored is the document's     *)
(* recovery member if that names this controller, and none otherwise.      *)
LEMMA BooksOfSynced ==
    ASSUME NEW c \in Controllers, NEW s \in States, AttemptBooks(s), NEW doc \in Docs,
           NEW until, NEW outcome \in Outcomes, RcvSync(s, c, doc, until, outcome)
    PROVE  LET t == Synced(s, doc, outcome) IN
           /\ AttemptBooks(t)
           /\ ~ AuthorizedLive(t)
           /\ t.config = IF doc.recovery # None /\ doc.recovery.controller = c
                         THEN doc.recovery ELSE None
  <1> DEFINE t == [s EXCEPT !.completing = None]
  <1>1. /\ t \in States
        /\ t.config = s.config /\ t.epoch = s.epoch /\ t.nextAttempt = s.nextAttempt
        /\ t.invalidateBelow = s.invalidateBelow /\ t.authorized = s.authorized
        /\ t.attempts = s.attempts
    BY Zenon DEF States
  <1> HIDE DEF t
  <1>2. AttemptBooks(t) /\ (AuthorizedLive(t) <=> AuthorizedLive(s))
    BY <1>1, BooksOfSame, Zenon
  <1>3. CASE outcome = "Completed"
    <2>1. AuthorizedLive(s) /\ doc.recovery # None /\ doc.recovery.controller = c
      BY <1>3, Zenon DEF RcvSync, MarkerCurrent
    <2>2. Synced(s, doc, outcome) = Complete(t, doc)
      BY <1>3, Zenon DEF Synced, t
    <2> QED BY <1>1, <1>2, <2>1, <2>2, BooksOfComplete, Zenon
  <1>4. CASE outcome = "Unchanged"
    <2>1. ~ AuthorizedLive(s)
      BY <1>4, Zenon DEF RcvSync
    <2>2. Synced(s, doc, outcome) = t
      BY <1>4, Zenon DEF Synced, t
    <2>3. s.config = IF doc.recovery # None /\ doc.recovery.controller = c
                     THEN doc.recovery ELSE None
      BY <1>4, Zenon DEF RcvSync
    <2> QED BY <1>1, <1>2, <2>1, <2>2, <2>3, Zenon
  <1>5. CASE outcome \in {"Enrolled", "Reconfigured"}
    <2>1. doc.recovery \in Configs /\ doc.recovery # None /\ doc.recovery.controller = c
      BY <1>5, Zenon DEF RcvSync, Docs
    <2>2. Synced(s, doc, outcome) = StoreConfig(t, doc.recovery)
      BY <1>5, Zenon DEF Synced, t
    <2>3. StoreConfig(t, doc.recovery) \in States
      BY <1>1, <2>1, StoreConfigType, Zenon
    <2>4. LET v == StoreConfig(t, doc.recovery) IN
          /\ v.config = doc.recovery /\ v.epoch = t.epoch + 1
          /\ v.nextAttempt = t.nextAttempt /\ v.invalidateBelow = t.invalidateBelow
          /\ v.authorized = t.authorized /\ v.attempts = t.attempts
      BY <1>1, Zenon DEF StoreConfig, BumpEpoch, States
    <2> QED BY <1>1, <1>2, <2>1, <2>2, <2>3, <2>4, BooksOfLaterEpoch
  <1>6. CASE outcome = "Removed"
    <2> DEFINE v == BumpEpoch([t EXCEPT !.config = None, !.authorized = None])
    <2>1. Synced(s, doc, outcome) = v
      BY <1>6, Zenon DEF Synced, t
    <2>2. [t EXCEPT !.config = None, !.authorized = None] \in States
      BY <1>1, Zenon DEF States
    <2>3. v \in States
      BY <2>2, BumpEpochType, Zenon
    <2>4. /\ v.config = None /\ v.epoch = t.epoch + 1
          /\ v.nextAttempt = t.nextAttempt /\ v.invalidateBelow = t.invalidateBelow
          /\ v.authorized = None /\ v.attempts = t.attempts
      BY <1>1, Zenon DEF BumpEpoch, States
    <2>5. ~ (doc.recovery # None /\ doc.recovery.controller = c)
      BY <1>6, Zenon DEF RcvSync
    <2> HIDE DEF v
    <2> QED BY <1>1, <1>2, <2>1, <2>3, <2>4, <2>5, BooksOfLaterEpoch, Zenon
  <1> QED BY <1>3, <1>4, <1>5, <1>6, Zenon DEF Outcomes

(* T5's marker is no part of the books.                                    *)
LEMMA MarkedBooks ==
    ASSUME RecoveryInv, NEW doc, RecoveryAuthorized(doc)
    PROVE  LET t == MarkCompleting(ctl[adopted]) IN
           /\ adopted \in Controllers /\ t \in States
           /\ t.config = ctl[adopted].config /\ t.epoch = ctl[adopted].epoch
           /\ t.nextAttempt = ctl[adopted].nextAttempt
           /\ t.invalidateBelow = ctl[adopted].invalidateBelow
           /\ t.authorized = ctl[adopted].authorized
           /\ t.attempts = ctl[adopted].attempts
           /\ t.cancels = ctl[adopted].cancels
           /\ t.nullifiers = ctl[adopted].nullifiers
           /\ t.approvals = ctl[adopted].approvals
  <1>1. adopted \in Controllers /\ ctl[adopted] \in States
    BY Zenon DEF RecoveryInv, TypeOK, RecoveryAuthorized
  <1>2. MarkCompleting(ctl[adopted]) \in States
    BY <1>1, MarkCompletingType, Zenon DEF RecoveryAuthorized, RecoveryInv, TypeOK
  <1> QED BY <1>1, <1>2, Zenon DEF MarkCompleting, States
=============================================================================
