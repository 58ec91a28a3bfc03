------------------------ MODULE RecoveryHistoryProofs -----------------------
(***************************************************************************)
(* Recovery over time, proved: HistoryInv, what the controllers' records   *)
(* say of the past, is inductive beside RecoveryInv. From the two follow   *)
(* the cap on cancellations, that revoked credentials and spent factors    *)
(* stay out, that an authorized recovery can complete, and what no step    *)
(* may do: revive an attempt, move a Protected enrollment without its      *)
(* condition, or upgrade past a reconfiguration.                           *)
(***************************************************************************)
EXTENDS AttemptHistoryProofs, RecoveryProofs

-----------------------------------------------------------------------------
(* The account's steps.                                                    *)

(* apply_doc, from records st that differ from the controllers' at most in *)
(* a marker.                                                               *)
LEMMA ApplyHistory ==
    ASSUME RecoveryInv, HistoryInv, NEW st \in [Controllers -> States],
           \A c \in Controllers :
             /\ AttemptBooks(st[c]) /\ RecordHistory(c, st[c], revoked, enrolledIds)
             /\ st[c].config = ctl[c].config /\ st[c].nullifiers = ctl[c].nullifiers
             /\ \A id \in AttemptIds : IsLive(st[c], id) <=> IsLive(ctl[c], id)
             /\ st[c].nextAttempt = ctl[c].nextAttempt,
           NEW doc \in Docs, NEW until, NEW expected, Apply(st, doc, until, expected)
    PROVE  HistoryInv' /\ NeverRevives /\ RetiringUpgrade
  <1> DEFINE named == IF doc.recovery = None THEN None ELSE doc.recovery.controller
             newZk == ZkOf(doc.recovery)
             leaf == LeafToInsert(currentZk, newZk)
  <1>1. /\ adopted' = named /\ applied' = doc /\ currentZk' = newZk
        /\ now' = now /\ wasm' = wasm
        /\ Compiles(doc) /\ \A k \in Fingerprints(doc.body) : k \notin revoked
        /\ ZkFactorTransitionOk(currentZk, newZk)
        /\ leaf # None => leaf.id \notin enrolledIds
        /\ leaves' = IF leaf = None THEN leaves ELSE leaves \cup {leaf}
        /\ enrolledIds' = IF leaf = None THEN enrolledIds ELSE enrolledIds \cup {leaf.id}
    BY Zenon DEF Apply, IsRevoked, IsEnrolledId
  <1>2. PICK old \in Outcomes, new \in Outcomes :
          /\ SyncBoth(st, doc, until, old, new)
          /\ generation' = generation + Bump(old) + Bump(new)
          /\ IF old = "Completed"
             THEN CompleteRecovery(st[adopted].attempts[st[adopted].authorized].replaced, doc)
             ELSE UNCHANGED <<revoked, gate, pending>>
    BY Zenon DEF Apply
  <1>3. /\ adopted \in Controllers \cup {None} /\ None \notin Controllers
        /\ named \in Controllers \cup {None} /\ doc # None
        /\ currentZk \in Factors \cup {None} /\ newZk \in Factors \cup {None}
        /\ None \notin Factors
    BY DataAssumption, Zenon DEF RecoveryInv, TypeOK, Docs, Configs, ZkOf
  <1> DEFINE s == st[adopted]
             a == s.attempts[s.authorized]
  <1>4. adopted # None =>
          /\ RcvSync(s, adopted, doc, until, old)
          /\ s.config = Enrolled /\ Enrolled # None /\ Enrolled.controller = adopted
    BY <1>2, <1>3, Zenon DEF SyncBoth, RecoveryInv, EnrollmentAgrees
  <1>5. ZkOf(Enrolled) = currentZk /\ (Enrolled # None => (currentZk # None => currentZk = Enrolled.zk)
                                        /\ (Enrolled.zk # None => currentZk = Enrolled.zk))
    BY Zenon DEF RecoveryInv, EnrollmentAgrees, HistoryInv, Enrolled, Compiles, ValidRecovery, ZkOf
  (* A completion's attempt keeps to its history, and spends the enrolled  *)
  (* factor.                                                               *)
  <1>6. old = "Completed" =>
          /\ adopted \in Controllers /\ doc = a.target
          /\ AttemptHistory(adopted, s, a, revoked, enrolledIds) /\ a.epoch = s.epoch
          /\ a.nullifier \in {None, currentZk}
    <2> SUFFICES ASSUME old = "Completed"
                 PROVE  /\ adopted \in Controllers /\ doc = a.target
                        /\ AttemptHistory(adopted, s, a, revoked, enrolledIds)
                        /\ a.epoch = s.epoch /\ a.nullifier \in {None, currentZk}
      BY Zenon
    <2>1. adopted \in Controllers
      BY <1>2, <1>3, Zenon DEF SyncBoth
    <2>2. AuthorizedLive(s) /\ doc = a.target
      BY <1>3, <1>4, <2>1, Zenon DEF RcvSync, MarkerCurrent
    <2>3. s \in States /\ AttemptBooks(s) /\ RecordHistory(adopted, s, revoked, enrolledIds)
      BY <2>1, Zenon
    <2>4. s.authorized \in AttemptIds /\ a # None /\ a.epoch = s.epoch
      BY <2>2, <2>3, Zenon DEF AuthorizedLive, IsLive, States
    <2>5. a.nullifier \in {None, s.config.zk}
      BY <2>3, <2>4, Zenon DEF AttemptBooks, AttemptBook
    <2>6. AttemptHistory(adopted, s, a, revoked, enrolledIds)
      BY <2>3, <2>4, Zenon DEF RecordHistory
    <2> QED BY <1>3, <1>4, <1>5, <2>1, <2>2, <2>4, <2>5, <2>6, Zenon
  <1>7. currentZk # None => currentZk \in leaves /\ currentZk.id \in enrolledIds
    BY Zenon DEF HistoryInv, EnrolledFactorProvable
  <1>8. enrolledIds \subseteq enrolledIds'
    BY <1>1, Zenon
  <1>9. newZk # None => leaf = newZk \/ (leaf = None /\ newZk = currentZk)
    BY <1>1, <1>3, Zenon DEF LeafToInsert, ZkFactorTransitionOk
  <1>10. old = "Completed" /\ newZk # None => newZk.id \notin enrolledIds
    <2>1. old = "Completed" /\ HasZk(doc.recovery) => doc.recovery.zk.id \notin enrolledIds
      BY <1>6, Zenon DEF AttemptHistory
    <2>2. newZk # None => HasZk(doc.recovery) /\ newZk = doc.recovery.zk
      BY Zenon DEF ZkOf
    <2> QED BY <2>1, <2>2, Zenon
  <1>11. adopted # None /\ old = "Unchanged" =>
           doc.recovery = Enrolled /\ revoked' = revoked /\ enrolledIds' = enrolledIds
    <2> SUFFICES ASSUME adopted # None, old = "Unchanged"
                 PROVE  doc.recovery = Enrolled /\ revoked' = revoked /\ enrolledIds' = enrolledIds
      BY Zenon
    <2>1. doc.recovery = Enrolled
      BY <1>4, Zenon DEF RcvSync
    <2>2. leaf = None
      BY <1>5, <2>1, Zenon DEF LeafToInsert
    <2> QED BY <1>1, <1>2, <2>1, <2>2, Zenon
  (* Each record.                                                          *)
  <1> HIDE DEF newZk, leaf
  <1>12. ASSUME NEW c \in Controllers
         PROVE  /\ RecordHistory(c, ctl'[c], revoked', enrolledIds')
                /\ NoRevival(st[c], ctl'[c])
                /\ ctl'[c].nullifiers \subseteq
                     IF old = "Completed" THEN ctl[c].nullifiers \cup {None, currentZk}
                                          ELSE ctl[c].nullifiers
    <2>1. /\ st[c] \in States /\ AttemptBooks(st[c])
          /\ RecordHistory(c, st[c], revoked, enrolledIds)
          /\ st[c].config = ctl[c].config /\ st[c].nullifiers = ctl[c].nullifiers
      BY Zenon
    <2>2. c # adopted => st[c].config = None
      BY <2>1, Zenon DEF RecoveryInv, EnrollmentAgrees
    <2>3. CASE c = adopted
      <3>1. RcvSync(st[c], c, doc, until, old) /\ ctl'[c] = Synced(st[c], doc, old)
        BY <1>2, <1>3, <2>3, Zenon DEF SyncBoth
      <3>2. old = "Unchanged" => revoked' = revoked /\ enrolledIds' = enrolledIds
        BY <1>3, <1>11, <2>3, Zenon
      <3>3. PICK spent \in {None, currentZk} :
              old = "Completed" => /\ spent = st[c].attempts[st[c].authorized].nullifier
                                   /\ spent # None => spent.id \in enrolledIds'
        BY <1>6, <1>7, <1>8, <2>3, Zenon
      <3>4. SyncKeeps(c, st[c], doc, old, revoked', enrolledIds', spent)
        BY <1>8, <2>1, <3>1, <3>2, <3>3, HistoryOfSynced, Zenon
      <3> QED BY <2>1, <3>1, <3>3, <3>4, Zenon DEF SyncKeeps
    <2>4. CASE c # adopted /\ c = named
      <3>1. RcvSync(st[c], c, doc, until, new) /\ ctl'[c] = Synced(st[c], doc, new)
        BY <1>2, <1>3, <2>4, Zenon DEF SyncBoth
      <3>2. new # "Completed"
        BY <2>1, <2>2, <2>4, <3>1, NoConfigNotLive, Zenon DEF RcvSync, MarkerCurrent
      <3>3. SyncKeeps(c, st[c], doc, new, revoked', enrolledIds', None)
        BY <1>8, <2>1, <2>2, <2>4, <3>1, <3>2, HistoryOfSynced, ZenonT(40)
      <3> QED BY <2>1, <3>1, <3>2, <3>3, Zenon DEF SyncKeeps
    <2>5. CASE c # adopted /\ c # named
      <3>1. ctl'[c] = st[c]
        BY <1>2, <2>5, Zenon DEF SyncBoth
      <3>2. Past(st[c], st[c].epoch)
        BY <2>1, <2>2, <2>5, PastEpochs, Zenon DEF RecordHistory
      <3>3. \A f \in st[c].nullifiers : f.id \in enrolledIds'
        BY <1>8, <2>1, Zenon DEF RecordHistory
      <3>4. RecordHistory(c, st[c], revoked', enrolledIds')
        BY <2>1, <3>2, <3>3, HistoryOfPast, Zenon
      <3> QED BY <2>1, <3>1, <3>4, Zenon DEF NoRevival
    <2> QED BY <2>3, <2>4, <2>5, Zenon
  <1>13. \A l \in leaves' : l.id \in enrolledIds'
    BY <1>1, <1>8, Zenon DEF HistoryInv
  <1>14. currentZk' # None => /\ currentZk' \in leaves'
                              /\ \A c \in Controllers : currentZk' \notin ctl'[c].nullifiers
    <2> SUFFICES ASSUME newZk # None
                 PROVE  newZk \in leaves' /\ \A c \in Controllers : newZk \notin ctl'[c].nullifiers
      BY <1>1, Zenon
    <2>1. newZk \in leaves'
      BY <1>1, <1>7, <1>9, SMTT(20)
    <2>2. \A c \in Controllers : newZk.id \notin enrolledIds => newZk \notin ctl[c].nullifiers
      BY Zenon DEF HistoryInv, RecordHistory
    <2>3. newZk.id \notin enrolledIds => newZk # currentZk
      BY <1>7, Zenon
    <2>4. newZk = currentZk => \A c \in Controllers : newZk \notin ctl[c].nullifiers
      BY Zenon DEF HistoryInv, EnrolledFactorProvable
    <2>5. old # "Completed" => \A c \in Controllers : newZk \notin ctl[c].nullifiers
      BY <1>1, <1>9, <2>2, <2>4, Zenon
    <2> QED BY <1>10, <1>12, <2>1, <2>2, <2>3, <2>5, Zenon
  <1>15. Fingerprints(doc.body) \cap revoked' = {}
    <2>1. CASE old = "Completed"
      <3>1. a.replaced \cap Fingerprints(doc.body) = {}
        BY <1>6, <2>1, Zenon DEF AttemptHistory
      <3> QED BY <1>1, <1>2, <2>1, <3>1, Zenon DEF CompleteRecovery, Revocations
    <2>2. CASE old # "Completed"
      BY <1>1, <1>2, <2>2, Zenon
    <2> QED BY <2>1, <2>2, Zenon
  <1>16. pending' # None =>
           /\ pending'.generation <= generation'
           /\ pending'.generation = generation' /\ adopted' = None => pending'.epoch = None
    <2>1. CASE old = "Completed"
      BY <1>2, <2>1, Zenon DEF CompleteRecovery
    <2>2. CASE old # "Completed"
      <3> SUFFICES ASSUME pending # None
                   PROVE  /\ pending.generation <= generation'
                          /\ pending.generation = generation' /\ adopted' = None =>
                               pending.epoch = None
        BY <1>2, <2>2, Zenon
      <3>1. /\ generation \in Nat /\ pending.generation \in Nat
            /\ pending.generation <= generation
            /\ pending.generation = generation /\ adopted = None => pending.epoch = None
        BY Zenon DEF RecoveryInv, TypeOK, HistoryInv, PendingHistory, Requests
      <3>2. adopted' = None /\ old = "Unchanged" => adopted = None
        BY <1>1, <1>3, <1>4, <1>11, Zenon
      <3>3. generation' >= generation /\ generation' \in Nat
            /\ (generation' = generation => old = "Unchanged")
        BY <1>2, <3>1 DEF Bump
      <3> QED BY <3>1, <3>2, <3>3, SMTT(20)
    <2> QED BY <2>1, <2>2, Zenon
  <1>17. HistoryInv'
    BY <1>1, <1>12, <1>13, <1>14, <1>15, <1>16, Zenon
       DEF HistoryInv, EnrolledFactorProvable, RevokedNeverApplied, PendingHistory
  <1>18. NeverRevives
    BY <1>1, <1>12, ZenonT(40) DEF NeverRevives, NoRevival, IsLive
  <1>19. RetiringUpgrade
    BY <1>1, Zenon DEF RetiringUpgrade
  <1> QED BY <1>17, <1>18, <1>19, Zenon

(* An owner's document moves a Protected enrollment only with fresh        *)
(* approvals of that change, for the account would be frozen if an attempt *)
(* were authorized.                                                        *)
LEMMA ApplyDocStep ==
    ASSUME RecoveryInv, HistoryInv, NEW doc \in Docs, NEW until \in Ledgers, NEW expected,
           ApplyDoc(doc, until, expected)
    PROVE  HistoryStep
  <1>1. /\ ctl \in [Controllers -> States] /\ Apply(ctl, doc, until, expected)
        /\ \A c \in Controllers : AttemptBooks(ctl[c])
                                  /\ RecordHistory(c, ctl[c], revoked, enrolledIds)
    BY Zenon DEF RecoveryInv, HistoryInv, TypeOK, ApplyDoc
  <1>2. HistoryInv' /\ NeverRevives /\ RetiringUpgrade
    BY <1>1, ApplyHistory, Zenon
  <1>3. ASSUME NEW c \in Controllers, ctl[c].config # None,
               ctl[c].config.profile = "Protected", ctl'[c].config # ctl[c].config
        PROVE  ~ AuthorizedLive(ctl[c]) /\ ConditionRecorded(ctl[c], Change(applied'.recovery))
    <2> DEFINE s == ctl[c]
    <2>1. c = adopted /\ s \in States
      BY <1>1, <1>3, Zenon DEF RecoveryInv, EnrollmentAgrees
    <2>2. adopted # None
      BY <2>1, DataAssumption, Zenon
    <2>3. PICK old \in Outcomes : RcvSync(s, c, doc, until, old) /\ ctl'[c] = Synced(s, doc, old)
      BY <1>1, <2>1, <2>2, Zenon DEF Apply, SyncBoth
    <2>4. applied' = doc
      BY <1>1, Zenon DEF Apply
    <2>5. ~ AuthorizedLive(s)
      BY <1>3, <2>1, <2>2, Zenon DEF ApplyDoc, OwnerAuthorized, RecoveryInv, FreezeMirror
    <2>6. old # "Unchanged"
      BY <1>3, <2>1, <2>3, Zenon DEF Synced, States
    <2>7. RequireCondition(s, Change(doc.recovery), until)
      BY <1>3, <2>3, <2>5, <2>6, ZenonT(40) DEF RcvSync, MarkerCurrent
    <2>8. until \in now .. LedgerMax
      BY <2>7, DataAssumption, SMTT(20)
         DEF RequireCondition, CheckFresh, ChangeStatement, RecoveryInv, TypeOK, Ledgers
    <2>9. ConditionRecorded(s, Change(doc.recovery))
      BY <2>7, <2>8, Zenon DEF ConditionRecorded, RequireCondition, ChangeStatement
    <2> QED BY <2>4, <2>5, <2>9, Zenon
  <1> QED BY <1>2, <1>3, Zenon DEF HistoryStep, ConditionedChange

(* A completion moves it with the document the attempt authorized, once    *)
(* its delay has run out.                                                  *)
LEMMA CompleteDocStep ==
    ASSUME RecoveryInv, HistoryInv, NEW doc \in Docs, NEW until, NEW expected,
           CompleteDoc(doc, until, expected)
    PROVE  HistoryStep
  <1> DEFINE s == ctl[adopted]
             t == MarkCompleting(s)
             st == [ctl EXCEPT ![adopted] = t]
  <1>1. /\ ctl \in [Controllers -> States]
        /\ \A c \in Controllers : AttemptBooks(ctl[c])
                                  /\ RecordHistory(c, ctl[c], revoked, enrolledIds)
        /\ adopted \in Controllers /\ RecoveryAuthorized(doc)
    BY MarkedBooks, Zenon DEF RecoveryInv, HistoryInv, TypeOK, CompleteDoc
  <1>2. Apply(st, doc, until, expected)
    BY <1>1, Zenon DEF CompleteDoc
  <1>3. /\ t \in States /\ t.config = s.config /\ t.epoch = s.epoch
        /\ t.nextAttempt = s.nextAttempt /\ t.invalidateBelow = s.invalidateBelow
        /\ t.authorized = s.authorized /\ t.attempts = s.attempts
        /\ t.cancels = s.cancels /\ t.nullifiers = s.nullifiers
        /\ t.approvals = s.approvals
    BY <1>1, MarkedBooks, Zenon
  <1> HIDE DEF t
  <1>4. AttemptBooks(t)
    BY <1>1, <1>3, BooksOfSame, ZenonT(40)
  <1>5. ApprovalHistory(t)
    BY <1>1, <1>3, Zenon DEF RecordHistory, ApprovalHistory
  <1>6. RecordHistory(adopted, t, revoked, enrolledIds)
    BY <1>1, <1>3, <1>5, HistoryOfSame, Zenon
  <1>7. \A id \in AttemptIds : IsLive(t, id) <=> IsLive(s, id)
    BY <1>3, Zenon DEF IsLive
  <1>8. /\ st \in [Controllers -> States] /\ st[adopted] = t
        /\ \A c \in Controllers : c # adopted => st[c] = ctl[c]
    BY <1>1, <1>3, Zenon
  <1> HIDE DEF st
  <1>9. \A c \in Controllers :
          /\ AttemptBooks(st[c]) /\ RecordHistory(c, st[c], revoked, enrolledIds)
          /\ st[c].config = ctl[c].config /\ st[c].nullifiers = ctl[c].nullifiers
          /\ \A id \in AttemptIds : IsLive(st[c], id) <=> IsLive(ctl[c], id)
          /\ st[c].nextAttempt = ctl[c].nextAttempt
    BY <1>1, <1>3, <1>4, <1>6, <1>7, <1>8, Zenon
  <1>10. HistoryInv' /\ NeverRevives /\ RetiringUpgrade
    BY <1>2, <1>8, <1>9, ApplyHistory, Zenon
  <1>11. applied' = doc
    BY <1>2, Zenon DEF Apply
  <1>12. \A c \in Controllers : ctl[c].config # None => c = adopted
    BY Zenon DEF RecoveryInv, EnrollmentAgrees
  <1>13. ConditionedChange
    BY <1>1, <1>11, <1>12, Zenon
       DEF ConditionedChange, RecoveryAuthorized, CompletionAuthorized
  <1> QED BY <1>10, <1>13, Zenon DEF HistoryStep

(* T5's marker is no part of the history.                                  *)
LEMMA EnforceOnlyStep ==
    ASSUME RecoveryInv, HistoryInv, NEW doc, EnforceOnly(doc)
    PROVE  HistoryStep
  <1> DEFINE t == MarkCompleting(ctl[adopted])
  <1>1. RecoveryAuthorized(doc) /\ UNCHANGED <<now, accountView, accountOnly>>
    BY Zenon DEF EnforceOnly
  <1>2. ctl' = [ctl EXCEPT ![adopted] = t]
    BY <1>1, MarkedBooks, Zenon DEF EnforceOnly, RecoveryInv, TypeOK
  <1>3. /\ adopted \in Controllers /\ t \in States
        /\ t.config = ctl[adopted].config /\ t.epoch = ctl[adopted].epoch
        /\ t.cancels = ctl[adopted].cancels /\ t.attempts = ctl[adopted].attempts
        /\ t.nullifiers = ctl[adopted].nullifiers
        /\ t.invalidateBelow = ctl[adopted].invalidateBelow
        /\ t.authorized = ctl[adopted].authorized
        /\ t.approvals = ctl[adopted].approvals
    BY <1>1, MarkedBooks, Zenon
  <1> HIDE DEF t
  <1>4. ApprovalHistory(t)
    BY <1>3, Zenon DEF HistoryInv, RecordHistory, ApprovalHistory
  <1> QED BY <1>1, <1>2, <1>3, <1>4, SameStep, Zenon

(* T7, the owner's cancellation: evidence had not met the condition.       *)
LEMMA CancelRecoveryStep ==
    ASSUME RecoveryInv, HistoryInv, NEW id \in AttemptIds, CancelRecovery(id)
    PROVE  HistoryStep
  <1> DEFINE s == ctl[adopted]
             a == s.attempts[id]
  <1>1. /\ adopted \in Controllers /\ s \in States /\ IsLive(s, id)
        /\ Cancel(adopted, id, a, FALSE) /\ RecordHistory(adopted, s, revoked, enrolledIds)
        /\ UNCHANGED <<now, applied, adopted, revoked, enrolledIds, leaves, currentZk,
                       pending, generation, wasm>>
    BY Zenon DEF RecoveryInv, HistoryInv, TypeOK, CancelRecovery, RcvCancel, accountOnly
  <1>2. a \in Attempts /\ a # None /\ a.state \in {"Collecting", "Authorized"}
    BY <1>1, Zenon DEF IsLive, States
  <1>3. ~ CancellationMet(a.target.recovery, a)
    BY <1>1, <1>2, Zenon DEF RecordHistory, AttemptHistory
  <1> QED BY <1>1, <1>2, <1>3, CancelStep, Zenon

(* A request records the generation and the epoch it is made under.        *)
LEMMA ScheduleUpgradeStep ==
    ASSUME RecoveryInv, HistoryInv, NEW w, NEW until, ScheduleUpgrade(w, until)
    PROVE  HistoryStep
  <1>1. generation' = generation /\ generation \in Nat /\ adopted' = adopted
    BY Zenon DEF ScheduleUpgrade, RecoveryInv, TypeOK, accountView
  <1>2. pending'.generation = generation /\ (adopted = None => pending'.epoch = None)
    BY Zenon DEF ScheduleUpgrade
  <1>3. PendingHistory'
    BY <1>1, <1>2 DEF PendingHistory
  <1> QED BY <1>3, UntouchedStep, Zenon DEF ScheduleUpgrade, accountView

(* An executed upgrade leaves every attempt and approval in the past: the  *)
(* adopted controller's epoch moves, and no other has any of its present   *)
(* one.                                                                    *)
LEMMA ExecuteUpgradeStep ==
    ASSUME RecoveryInv, HistoryInv, NEW id, ExecuteUpgrade(id)
    PROVE  HistoryStep
  <1>1. /\ UNCHANGED <<now, applied, adopted, revoked, enrolledIds, leaves, currentZk>>
        /\ pending' = None /\ pending # None /\ pending.generation = generation
    BY Zenon DEF ExecuteUpgrade, accountView
  <1>2. \/ adopted = None /\ ctl' = ctl
        \/ /\ adopted # None /\ UpgradeExecuteAllowed(ctl[adopted], pending.epoch)
           /\ ctl' = [ctl EXCEPT ![adopted] = BumpEpoch(@)]
    BY Zenon DEF ExecuteUpgrade
  <1>3. adopted \in Controllers \cup {None} /\ None \notin Controllers
    BY DataAssumption, Zenon DEF RecoveryInv, TypeOK
  <1>4. pending.epoch = IF adopted = None THEN None ELSE ctl[adopted].epoch
    BY <1>1, <1>2, Zenon DEF UpgradeExecuteAllowed, HistoryInv, PendingHistory
  <1>5. ASSUME NEW c \in Controllers
        PROVE  /\ RecordHistory(c, ctl'[c], revoked, enrolledIds)
               /\ \A i \in AttemptIds : ~ IsLive(ctl'[c], i)
               /\ \A p \in ctl[c].approvals : p.statement.epoch # ctl'[c].epoch
               /\ ctl'[c].config = ctl[c].config /\ ctl'[c].nullifiers = ctl[c].nullifiers
               /\ ~ AuthorizedLive(ctl[c])
    <2> DEFINE s == ctl[c]
               t == ctl'[c]
    <2>1. s \in States /\ AttemptBooks(s) /\ RecordHistory(c, s, revoked, enrolledIds)
      BY Zenon DEF RecoveryInv, HistoryInv, TypeOK
    <2>2. Past(s, s.epoch + 1) /\ (s.config = None => Past(s, s.epoch))
      BY <2>1, PastEpochs, Zenon DEF RecordHistory
    <2>3. /\ t \in States /\ t.config = s.config /\ Past(s, t.epoch)
          /\ t.attempts = s.attempts /\ t.cancels = s.cancels
          /\ t.approvals = s.approvals /\ t.nullifiers = s.nullifiers
      <3>1. CASE c = adopted
        <4>1. t = BumpEpoch(s)
          BY <1>2, <1>3, <3>1, Zenon DEF RecoveryInv, TypeOK
        <4> HIDE DEF t
        <4> QED BY <2>1, <2>2, <4>1, SMTT(20) DEF BumpEpoch, States
      <3>2. CASE c # adopted
        <4>1. t = s
          BY <1>2, <3>2, Zenon DEF RecoveryInv, TypeOK
        <4>2. s.config = None
          BY <3>2, Zenon DEF RecoveryInv, EnrollmentAgrees
        <4> HIDE DEF t
        <4> QED BY <2>1, <2>2, <4>1, <4>2, ZenonT(40)
      <3> QED BY <3>1, <3>2, Zenon
    <2>4. ~ AuthorizedLive(s)
      <3>1. CASE c = adopted
        BY <1>2, <1>3, <3>1, Zenon DEF UpgradeExecuteAllowed
      <3>2. CASE c # adopted
        BY <2>1, <3>2, NoConfigNotLive, Zenon DEF RecoveryInv, EnrollmentAgrees
      <3> QED BY <3>1, <3>2, Zenon
    <2> HIDE DEF t
    <2>5. RecordHistory(c, t, revoked, enrolledIds) /\ \A i \in AttemptIds : ~ IsLive(t, i)
      <3>1. \A f \in t.nullifiers : f.id \in enrolledIds
        BY <2>1, <2>3, Zenon DEF RecordHistory
      <3> QED BY <2>1, <2>3, <3>1, HistoryOfPast, Zenon
    <2>6. \A p \in s.approvals : p.statement.epoch \in Nat /\ t.epoch \in Nat
      BY <2>1, <2>3, ZenonT(40) DEF States, Approvals, Statements
    <2>7. \A p \in s.approvals : p.statement.epoch # t.epoch
      BY <2>3, <2>6 DEF Past
    <2> QED BY <2>3, <2>4, <2>5, <2>7, Zenon DEF t
  <1>6. HistoryInv'
    BY <1>1, <1>5, Zenon DEF HistoryInv, EnrolledFactorProvable, RevokedNeverApplied, PendingHistory
  <1>7. \A c \in Controllers, i \in AttemptIds : ~ IsLive(ctl[c], i)'
    BY <1>1, <1>5, Zenon DEF IsLive
  <1> QED BY <1>4, <1>5, <1>6, <1>7, Zenon
          DEF HistoryStep, NeverRevives, ConditionedChange, RetiringUpgrade

(* Every call of the account keeps the history.                            *)
LEMMA AccountHistory ==
    ASSUME RecoveryInv, HistoryInv, AccountStep
    PROVE  HistoryStep
  <1>1. Submittable \subseteq Docs
    BY SubmittableType, Zenon DEF RecoveryInv
  <1>2. Deadlines \cup {0} \subseteq Ledgers
    BY AccountAssumption, DataAssumption, SMTT(20) DEF Ledgers
  <1>3. ASSUME NEW doc \in Submittable, NEW until \in Deadlines \cup {0}, NEW expected,
               ApplyDoc(doc, until, expected) \/ CompleteDoc(doc, until, expected)
        PROVE  HistoryStep
    BY <1>1, <1>2, <1>3, ApplyDocStep, CompleteDocStep, Zenon
  <1>4. ASSUME NEW doc, EnforceOnly(doc) PROVE HistoryStep
    BY <1>4, EnforceOnlyStep, Zenon
  <1>5. ASSUME NEW id \in AttemptIds, CancelRecovery(id) PROVE HistoryStep
    BY <1>5, CancelRecoveryStep, Zenon
  <1>6. ASSUME NEW id, ExecuteUpgrade(id) PROVE HistoryStep
    BY <1>6, ExecuteUpgradeStep, Zenon
  <1>7. ASSUME NEW w, NEW until, ScheduleUpgrade(w, until) PROVE HistoryStep
    BY <1>7, ScheduleUpgradeStep, Zenon
  <1>8. ASSUME CancelUpgrade PROVE HistoryStep
    <2>1. PendingHistory'
      BY <1>8, Zenon DEF CancelUpgrade, PendingHistory
    <2> QED BY <1>8, <2>1, UntouchedStep, Zenon DEF CancelUpgrade, accountView
  <1> QED BY <1>3, <1>4, <1>5, <1>6, <1>7, <1>8, Zenon DEF AccountStep

(* So does every step, and the empty history is one.                       *)
LEMMA NextHistory ==
    ASSUME RecoveryInv, RecoveryInv', HistoryInv, [Next]_vars
    PROVE  HistoryStep
  <1>1. TypeOK'
    BY Zenon DEF RecoveryInv
  <1>2. CASE UNCHANGED vars
    BY <1>2, UntouchedStep, Zenon DEF vars, accountView, accountOnly
  <1> QED BY <1>1, <1>2, CloseLedgerStep, ControllerHistory, AccountHistory, Zenon DEF Next

LEMMA InitHistory ==
    ASSUME Init PROVE HistoryInv
  <1>1. \A c \in Controllers : ctl[c] = EmptyState
    BY Zenon DEF Init
  <1>2. \A c \in Controllers :
          /\ \A id \in AttemptIds : ctl[c].attempts[id] = None
          /\ ctl[c].approvals = {} /\ ctl[c].nullifiers = {} /\ ctl[c].cancels = 0
    BY <1>1 DEF EmptyState
  <1>3. ASSUME NEW c \in Controllers PROVE CancelHistory(ctl[c])
    <2>1. EvidenceCancelled(ctl[c]) = {}
      BY <1>2, Zenon DEF EvidenceCancelled
    <2>2. Cardinality(EvidenceCancelled(ctl[c])) = 0
      BY <2>1, FS_EmptySet, Zenon
    <2> QED BY <1>2, <2>1, <2>2, SMTT(20) DEF CancelHistory
  <1>4. \A c \in Controllers : RecordHistory(c, ctl[c], revoked, enrolledIds)
    BY <1>2, <1>3, Zenon DEF RecordHistory, ApprovalHistory
  <1> QED BY <1>4, Zenon
          DEF Init, HistoryInv, EnrolledFactorProvable, RevokedNeverApplied, PendingHistory

-----------------------------------------------------------------------------

(* The second inductive invariant holds of every behaviour, and every step *)
(* of the account and of its controllers keeps to HistoryStep.             *)
THEOREM HistoryInvariant == Spec => []HistoryInv /\ [][HistoryStep]_vars
  <1>1. RecoveryInv /\ RecoveryInv' /\ HistoryInv /\ [Next]_vars => HistoryStep
    BY NextHistory, Zenon
  <1>2. HistoryStep => HistoryInv'
    BY Zenon DEF HistoryStep
  <1>3. Init => HistoryInv
    BY InitHistory, Zenon
  <1> QED BY <1>1, <1>2, <1>3, RecoveryInvariant, PTL DEF Spec

(* Evidence never cancels more authorized attempts than the cap in force   *)
(* at the last of them (cancel counts, store_config keeps the count).      *)
THEOREM CancellationsStayCapped == Spec => []LifetimeCancelCap
  <1>1. RecoveryInv /\ HistoryInv => LifetimeCancelCap
    <2> SUFFICES ASSUME RecoveryInv, HistoryInv, NEW c \in Controllers,
                        EvidenceCancelled(ctl[c]) # {}
                 PROVE  \E id \in EvidenceCancelled(ctl[c]) :
                          Cardinality(EvidenceCancelled(ctl[c]))
                            <= ctl[c].attempts[id].target.recovery.maxCancels
      BY Zenon DEF LifetimeCancelCap
    <2> DEFINE s == ctl[c]
    <2>1. s \in States /\ CancelHistory(s)
      BY Zenon DEF RecoveryInv, TypeOK, HistoryInv, RecordHistory
    <2>2. Cardinality(EvidenceCancelled(s)) <= s.cancels /\ s.cancels \in Nat
          /\ Cardinality(EvidenceCancelled(s)) \in Nat
      BY <2>1, EvidenceCancelledFinite, Zenon DEF CancelHistory, States
    <2>3. PICK id \in EvidenceCancelled(s) :
            s.cancels <= s.attempts[id].target.recovery.maxCancels
      BY <2>1, Zenon DEF CancelHistory
    <2>4. id \in AttemptIds /\ s.attempts[id] # None
      BY <2>3, Zenon DEF EvidenceCancelled
    <2>5. s.attempts[id].target.recovery # None /\ s.attempts[id] \in Attempts
      <3>1. RecordHistory(c, s, revoked, enrolledIds) /\ s.attempts[id] \in Attempts \cup {None}
        BY <2>1, <2>4, Zenon DEF HistoryInv, States
      <3> QED BY <2>4, <3>1, Zenon DEF RecordHistory, AttemptHistory
    <2>6. s.attempts[id].target.recovery.maxCancels \in Nat
      BY <2>4, <2>5, Zenon DEF Attempts, Docs, Configs
    <2> QED BY <2>2, <2>3, <2>6, SMTT(20)
  <1> QED BY <1>1, HistoryInvariant, RecoveryInvariant, PTL

(* A credential a completion revoked is in no document applied since       *)
(* (apply_doc refuses it, and begin a target that keeps what it replaces). *)
THEOREM RevokedStaysOut == Spec => []RevokedNeverApplied
  <1>1. HistoryInv => RevokedNeverApplied
    BY Zenon DEF HistoryInv
  <1> QED BY <1>1, HistoryInvariant, PTL

(* The enrolled ZK factor's leaf is in the pool and its nullifier is       *)
(* unspent (apply_doc inserts the leaf, a completion rotates the factor).  *)
THEOREM FactorStaysProvable == Spec => []EnrolledFactorProvable
  <1>1. HistoryInv => EnrolledFactorProvable
    BY Zenon DEF HistoryInv
  <1> QED BY <1>1, HistoryInvariant, PTL

(* Nothing but expiry can refuse the completion of an authorized attempt   *)
(* after its delay: begin's checks of the target still hold then.          *)
THEOREM AuthorizedCanComplete == Spec => []AuthorizedCompletable
  <1>1. RecoveryInv /\ HistoryInv => AuthorizedCompletable
    <2> SUFFICES ASSUME RecoveryInv, HistoryInv, NEW c \in Controllers, AuthorizedLive(ctl[c])
                 PROVE  LET a == ctl[c].attempts[ctl[c].authorized]
                            leaf == LeafToInsert(currentZk, ZkOf(a.target.recovery))
                        IN /\ adopted = c
                           /\ a.target.recovery # None
                           /\ a.target.recovery.controller = c
                           /\ Compiles(a.target) /\ AdminSurvives(a.target.body)
                           /\ Fingerprints(a.target.body) \cap revoked = {}
                           /\ ZkFactorTransitionOk(currentZk, ZkOf(a.target.recovery))
                           /\ leaf # None => /\ leaf.id \notin enrolledIds
                                             /\ \A l \in leaves : l.id # leaf.id
                           /\ a.nullifier \notin ctl[c].nullifiers
      BY Zenon DEF AuthorizedCompletable
    <2> DEFINE s == ctl[c]
               a == s.attempts[s.authorized]
               zk == ZkOf(a.target.recovery)
    <2>1. s \in States /\ AttemptBooks(s) /\ RecordHistory(c, s, revoked, enrolledIds)
      BY Zenon DEF RecoveryInv, TypeOK, HistoryInv
    <2>2. s.authorized \in AttemptIds /\ a # None /\ a.epoch = s.epoch
      BY <2>1, Zenon DEF AuthorizedLive, IsLive, States
    <2>3. AttemptBook(s, s.authorized, a) /\ AttemptHistory(c, s, a, revoked, enrolledIds)
      BY <2>1, <2>2, Zenon DEF AttemptBooks, RecordHistory
    <2>4. s.config # None /\ adopted = c /\ s.config = Enrolled
      BY <2>1, NoConfigNotLive, Zenon DEF RecoveryInv, EnrollmentAgrees
    <2>5. zk # None => zk.id \notin enrolledIds
      BY <2>2, <2>3, Zenon DEF AttemptHistory, ZkOf
    <2>6. currentZk # None => currentZk.id \in enrolledIds /\ currentZk \notin s.nullifiers
      BY Zenon DEF HistoryInv, EnrolledFactorProvable
    <2>7. \A l \in leaves : l.id \in enrolledIds
      BY Zenon DEF HistoryInv
    <2>8. ZkFactorTransitionOk(currentZk, zk)
      BY <2>5, <2>6, Zenon DEF ZkFactorTransitionOk
    <2>9. LET leaf == LeafToInsert(currentZk, zk) IN
          leaf # None => leaf.id \notin enrolledIds /\ \A l \in leaves : l.id # leaf.id
      <3>1. LeafToInsert(currentZk, zk) \in {None, zk}
        BY Zenon DEF LeafToInsert
      <3> HIDE DEF zk
      <3> QED BY <2>5, <2>7, <3>1, Zenon
    <2>10. a.nullifier \notin s.nullifiers
      <3>1. a.nullifier \in {None, s.config.zk} /\ None \notin s.nullifiers
        BY <2>1, <2>2, <2>3, DataAssumption, Zenon DEF AttemptBook, States
      <3>2. s.config.zk # None => currentZk = s.config.zk
        BY <2>4, Zenon DEF RecoveryInv, EnrollmentAgrees, HistoryInv, Enrolled, Compiles,
             ValidRecovery, ZkOf
      <3> QED BY <2>6, <3>1, <3>2, Zenon
    <2> QED BY <2>2, <2>3, <2>4, <2>8, <2>9, <2>10, Zenon DEF AttemptHistory
  <1> QED BY <1>1, HistoryInvariant, RecoveryInvariant, PTL

(* No call revives a dead attempt (is_live compares the epoch and          *)
(* invalidate_below, neither of which ever goes back).                     *)
THEOREM DeadAttemptsStayDead == Spec => DeadStaysDead
  <1>1. HistoryStep => NeverRevives
    BY Zenon DEF HistoryStep
  <1>2. DeadStaysDead <=> [][NeverRevives]_vars
    BY Zenon DEF DeadStaysDead, NeverRevives
  <1> QED BY <1>1, <1>2, HistoryInvariant, PTL

(* A Protected enrollment changes only by its condition or by a completion *)
(* (rcv_sync's check of the recorded approvals, enforce's of the delay).   *)
THEOREM ProtectedChangesAreConditioned == Spec => ProtectedChangeNeedsCondition
  <1>1. HistoryStep => ConditionedChange
    BY Zenon DEF HistoryStep
  <1>2. ProtectedChangeNeedsCondition <=> [][ConditionedChange]_vars
    BY Zenon DEF ProtectedChangeNeedsCondition, ConditionedChange
  <1> QED BY <1>1, <1>2, HistoryInvariant, PTL

(* Code changes only under the present epoch, and retires its evidence     *)
(* (execute_upgrade's generation and rcv_upgrade's epoch checks).          *)
THEOREM UpgradesRetireEvidence == Spec => UpgradeRetiresEvidence
  <1>1. HistoryStep => RetiringUpgrade
    BY Zenon DEF HistoryStep
  <1>2. UpgradeRetiresEvidence <=> [][RetiringUpgrade]_vars
    BY Zenon DEF UpgradeRetiresEvidence, RetiringUpgrade
  <1> QED BY <1>1, <1>2, HistoryInvariant, PTL
=============================================================================
