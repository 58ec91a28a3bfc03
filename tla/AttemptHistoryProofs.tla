------------------------ MODULE AttemptHistoryProofs ------------------------
(***************************************************************************)
(* What the controllers' records keep of the past: the history of one      *)
(* record under each thing a controller writes, and of all of them over    *)
(* the steps that save an attempt.                                         *)
(***************************************************************************)
EXTENDS PerchAccountProofs, FiniteSetTheorems

-----------------------------------------------------------------------------
(* The history a record keeps.                                             *)

(* No attempt begun in record s that is dead there is live in record t.    *)
NoRevival(s, t) ==
    \A id \in AttemptIds : id < s.nextAttempt /\ ~ IsLive(s, id) => ~ IsLive(t, id)

(* Every attempt and approval of record s is of another epoch than e.      *)
Past(s, e) ==
    /\ \A id \in AttemptIds : s.attempts[id] # None => s.attempts[id].epoch # e
    /\ \A p \in s.approvals : p.statement.epoch < e

(* What lies behind a delay is not zero.                                   *)
LEMMA AfterDelay ==
    ASSUME NEW ledger \in Nat, NEW delay \in Nat, NEW expiry \in Nat, delay # 0
    PROVE  ledger + delay + expiry # 0
  OBVIOUS

(* What Save leaves alone, beside what SaveEffect and SavedAttempt say.    *)
LEMMA SavedRest ==
    ASSUME NEW s \in States, NEW id \in AttemptIds, NEW a \in Attempts
    PROVE  LET t == Save(s, id, a)
               b == t.attempts[id]
           IN /\ t.cancels = s.cancels /\ t.nullifiers = s.nullifiers
              /\ t.approvals = s.approvals
              /\ b.target = a.target /\ b.replaced = a.replaced /\ b.epoch = a.epoch
              /\ b.cancelGuardians = a.cancelGuardians /\ b.cancelZk = a.cancelZk
              /\ s.attempts[id] # None /\ s.attempts[id].persistent => b.persistent
  <1> DEFINE p == \/ a.state \in {"Authorized", "Completed"}
                  \/ a.evidenceDeadline - now + 1 > MaxTtl
                  \/ s.attempts[id] # None /\ s.attempts[id].persistent
             b == [a EXCEPT !.persistent = p]
  <1>1. s.attempts[id] # None /\ s.attempts[id].persistent => p
    BY Zenon
  <1>2. Save(s, id, a) = [s EXCEPT !.attempts[id] = b]
    BY Zenon DEF Save
  <1> HIDE DEF p
  <1>3. /\ b.target = a.target /\ b.replaced = a.replaced /\ b.epoch = a.epoch
        /\ b.cancelGuardians = a.cancelGuardians /\ b.cancelZk = a.cancelZk
        /\ b.persistent = p
    BY Zenon DEF Attempts
  <1> HIDE DEF b
  <1>4. /\ Save(s, id, a).cancels = s.cancels /\ Save(s, id, a).nullifiers = s.nullifiers
        /\ Save(s, id, a).approvals = s.approvals /\ Save(s, id, a).attempts[id] = b
    BY <1>2, Zenon DEF States
  <1> QED BY <1>1, <1>3, <1>4, Zenon

(* The set of attempts evidence cancelled is finite.                       *)
LEMMA EvidenceCancelledFinite ==
    ASSUME NEW s
    PROVE  IsFiniteSet(EvidenceCancelled(s)) /\ Cardinality(EvidenceCancelled(s)) \in Nat
  <1>1. IsFiniteSet(AttemptIds)
    BY DataAssumption, FS_Interval DEF AttemptIds
  <1>2. EvidenceCancelled(s) \in SUBSET AttemptIds
    BY Zenon DEF EvidenceCancelled
  <1> QED BY <1>1, <1>2, FS_Subset, FS_CardinalityType, Zenon

(* The history of cancellations, if one attempt is stored under id, which  *)
(* evidence had not cancelled before: a cancellation by evidence raises    *)
(* the counter, and is within the cap of its target.                       *)
LEMMA CancelHistorySaved ==
    ASSUME NEW s, NEW t, NEW id \in AttemptIds, CancelHistory(s), s.cancels \in Nat,
           \A i \in AttemptIds : i # id => t.attempts[i] = s.attempts[i],
           id \notin EvidenceCancelled(s),
           \/ t.cancels = s.cancels /\ id \notin EvidenceCancelled(t)
           \/ /\ t.cancels = s.cancels + 1 /\ id \in EvidenceCancelled(t)
              /\ t.cancels <= t.attempts[id].target.recovery.maxCancels
    PROVE  CancelHistory(t)
  <1> DEFINE before == EvidenceCancelled(s)
             after == EvidenceCancelled(t)
  <1>1. IsFiniteSet(before) /\ Cardinality(before) \in Nat /\ Cardinality(before) <= s.cancels
    BY EvidenceCancelledFinite, Zenon DEF CancelHistory
  <1>2. \A i \in AttemptIds : i # id => (i \in before <=> i \in after)
    BY Zenon DEF EvidenceCancelled
  <1>3. before \subseteq AttemptIds /\ after \subseteq AttemptIds
    BY Zenon DEF EvidenceCancelled
  <1>4. CASE t.cancels = s.cancels /\ id \notin after
    <2>1. after = before
      BY <1>2, <1>3, <1>4, SMTT(20)
    <2>2. \A i \in after : t.attempts[i] = s.attempts[i]
      BY <1>3, <1>4, Zenon
    <2> HIDE DEF before, after
    <2> QED BY <1>4, <2>1, <2>2, Zenon DEF CancelHistory, before, after
  <1>5. CASE /\ t.cancels = s.cancels + 1 /\ id \in after
             /\ t.cancels <= t.attempts[id].target.recovery.maxCancels
    <2>1. after = before \cup {id}
      BY <1>2, <1>3, <1>5, Zenon
    <2>2. Cardinality(after) = Cardinality(before) + 1
      BY <1>1, <2>1, FS_AddElement, Zenon
    <2>3. Cardinality(after) <= t.cancels
      BY <1>1, <1>5, <2>2
    <2> HIDE DEF before, after
    <2> QED BY <1>5, <2>3, Zenon DEF CancelHistory, after
  <1> QED BY <1>4, <1>5, Zenon

(* What AttemptHistory reads of a record and of an attempt.                *)
LEMMA AttemptHistorySame ==
    ASSUME NEW c, NEW s, NEW t, NEW a, NEW b, NEW gone, NEW used,
           AttemptHistory(c, s, a, gone, used), t.epoch = s.epoch, t.config = s.config,
           b.target = a.target, b.replaced = a.replaced, b.state = a.state,
           b.expiresAt = a.expiresAt, b.epoch = a.epoch,
           b.cancelGuardians = a.cancelGuardians, b.cancelZk = a.cancelZk
    PROVE  AttemptHistory(c, t, b, gone, used)
  BY Zenon DEF AttemptHistory, CancellationMet

(* Saving attempt a, which keeps to its history, over an attempt evidence  *)
(* had not cancelled: u is the record with its counters already moved.     *)
LEMMA HistoryOfSaved ==
    ASSUME NEW c, NEW gone, NEW used, NEW s \in States, NEW u \in States,
           RecordHistory(c, s, gone, used),
           u.config = s.config, u.epoch = s.epoch, u.attempts = s.attempts,
           u.nullifiers = s.nullifiers, u.approvals = s.approvals,
           NEW id \in AttemptIds, NEW a \in Attempts,
           AttemptHistory(c, s, a, gone, used),
           s.attempts[id] # None => ~ CancelledByEvidence(s.attempts[id]),
           \/ a.expiresAt = 0
           \/ a.state = "Authorized"
           \/ s.attempts[id] # None /\ s.attempts[id].persistent,
           \/ u.cancels = s.cancels /\ ~ CancelledByEvidence(a)
           \/ /\ u.cancels = s.cancels + 1 /\ CancelledByEvidence(a)
              /\ u.cancels <= a.target.recovery.maxCancels
    PROVE  RecordHistory(c, Save(u, id, a), gone, used)
  <1> DEFINE t == Save(u, id, a)
             b == t.attempts[id]
  <1>1. /\ t \in States
        /\ t.config = s.config /\ t.epoch = s.epoch
        /\ \A i \in AttemptIds : i # id => t.attempts[i] = s.attempts[i]
    BY SaveEffect
  <1>2. /\ t.cancels = u.cancels /\ t.nullifiers = s.nullifiers
        /\ t.approvals = s.approvals
        /\ b.target = a.target /\ b.replaced = a.replaced
        /\ b.cancelGuardians = a.cancelGuardians /\ b.cancelZk = a.cancelZk
        /\ s.attempts[id] # None /\ s.attempts[id].persistent => b.persistent
    BY SavedRest
  <1>3. /\ b # None /\ b.state = a.state /\ b.expiresAt = a.expiresAt /\ b.epoch = a.epoch
        /\ a.state = "Authorized" => b.persistent
    BY SavedAttempt
  <1> HIDE DEF t
  <1>4. AttemptHistory(c, t, b, gone, used)
    BY <1>1, <1>2, <1>3, AttemptHistorySame
  <1>5. b.expiresAt # 0 => b.persistent
    BY <1>2, <1>3, Zenon
  <1>6. ASSUME NEW i \in AttemptIds, t.attempts[i] # None
        PROVE  /\ AttemptHistory(c, t, t.attempts[i], gone, used)
               /\ t.attempts[i].expiresAt # 0 => t.attempts[i].persistent
    <2>1. CASE i = id
      BY <1>4, <1>5, <2>1, Zenon
    <2>2. CASE i # id
      <3>1. /\ t.attempts[i] = s.attempts[i] /\ AttemptHistory(c, s, s.attempts[i], gone, used)
            /\ s.attempts[i].expiresAt # 0 => s.attempts[i].persistent
        BY <1>1, <1>6, <2>2, Zenon DEF RecordHistory
      <3> QED BY <1>1, <3>1, Zenon DEF AttemptHistory
    <2> QED BY <2>1, <2>2, Zenon
  <1>7. CancelledByEvidence(b) <=> CancelledByEvidence(a)
    BY <1>2, <1>3, Zenon DEF CancelledByEvidence, CancellationMet
  <1>8. id \notin EvidenceCancelled(s) /\ (id \in EvidenceCancelled(t) <=> CancelledByEvidence(a))
    BY <1>3, <1>7, Zenon DEF EvidenceCancelled
  <1>9. s.cancels \in Nat /\ CancelHistory(s)
    BY Zenon DEF States, RecordHistory
  <1>10. CancelHistory(t)
    BY <1>1, <1>2, <1>8, <1>9, CancelHistorySaved, Zenon
  <1>11. ApprovalHistory(t) /\ \A f \in t.nullifiers : f.id \in used
    BY <1>1, <1>2, Zenon DEF ApprovalHistory, RecordHistory
  <1> QED BY <1>6, <1>10, <1>11, Zenon DEF RecordHistory, t

(* Saving a live attempt, or one not begun before, revives none.           *)
LEMMA NoRevivalSaved ==
    ASSUME NEW s \in States, NEW u \in States, NEW id \in AttemptIds, NEW a \in Attempts,
           u.epoch = s.epoch, u.attempts = s.attempts,
           u.invalidateBelow = s.invalidateBelow \/ s.invalidateBelow <= u.invalidateBelow,
           u.authorized \in {s.authorized, None, id},
           IsLive(s, id) \/ id = s.nextAttempt
    PROVE  NoRevival(s, Save(u, id, a))
  <1> DEFINE t == Save(u, id, a)
  <1>1. /\ t.epoch = s.epoch /\ t.invalidateBelow = u.invalidateBelow
        /\ t.authorized = u.authorized
        /\ \A i \in AttemptIds : i # id => t.attempts[i] = s.attempts[i]
    BY SaveEffect
  <1> HIDE DEF t
  <1>2. SUFFICES ASSUME NEW i \in AttemptIds, i < s.nextAttempt, IsLive(t, i)
                 PROVE  IsLive(s, i)
    BY Zenon DEF NoRevival, t
  <1>3. CASE i = id
    <2>1. id # s.nextAttempt
      BY <1>2, <1>3 DEF States
    <2> QED BY <1>3, <2>1, Zenon
  <1>4. CASE i # id
    <2>1. i # None /\ i \in Nat /\ s.invalidateBelow \in Nat /\ u.invalidateBelow \in Nat
      BY DataAssumption DEF AttemptIds, States
    <2>2. i >= u.invalidateBelow => i >= s.invalidateBelow
      BY <2>1
    <2>3. u.authorized = i => s.authorized = i
      BY <1>4, <2>1, Zenon
    <2> QED BY <1>1, <1>2, <1>4, <2>2, <2>3, Zenon DEF IsLive
  <1> QED BY <1>3, <1>4, Zenon

(* A record that differs in its marker, its baselines or its approvals.    *)
LEMMA HistoryOfSame ==
    ASSUME NEW c, NEW gone, NEW used, NEW s \in States, NEW t \in States,
           RecordHistory(c, s, gone, used),
           t.config = s.config, t.epoch = s.epoch, t.attempts = s.attempts,
           t.cancels = s.cancels, t.nullifiers = s.nullifiers, ApprovalHistory(t),
           t.invalidateBelow = s.invalidateBelow, t.authorized = s.authorized
    PROVE  RecordHistory(c, t, gone, used) /\ NoRevival(s, t)
  <1>1. CancelHistory(t)
    BY Zenon DEF RecordHistory, CancelHistory, EvidenceCancelled
  <1>2. \A id \in AttemptIds : t.attempts[id] # None =>
          /\ AttemptHistory(c, t, t.attempts[id], gone, used)
          /\ t.attempts[id].expiresAt # 0 => t.attempts[id].persistent
    BY AttemptHistorySame DEF RecordHistory
  <1>3. RecordHistory(c, t, gone, used)
    BY <1>1, <1>2, Zenon DEF RecordHistory
  <1> QED BY <1>3, Zenon DEF NoRevival, IsLive

(* A record whose attempts and approvals are all of the past: whatever is  *)
(* revoked or enrolled since, and whatever its configuration.              *)
LEMMA HistoryOfPast ==
    ASSUME NEW c, NEW gone, NEW used, NEW gone2, NEW used2, NEW s \in States,
           NEW t \in States, RecordHistory(c, s, gone, used), Past(s, t.epoch),
           t.attempts = s.attempts, t.cancels = s.cancels, t.approvals = s.approvals,
           \A f \in t.nullifiers : f.id \in used2
    PROVE  /\ RecordHistory(c, t, gone2, used2)
           /\ \A id \in AttemptIds : ~ IsLive(t, id)
  <1>1. CancelHistory(t)
    BY Zenon DEF RecordHistory, CancelHistory, EvidenceCancelled
  <1>2. ApprovalHistory(t)
    <2>1. \A p \in t.approvals : p.statement.epoch \in Nat /\ t.epoch \in Nat
      BY Zenon DEF States, Approvals, Statements
    <2> QED BY <2>1 DEF ApprovalHistory, Past
  <1>3. \A id \in AttemptIds : t.attempts[id] # None =>
          /\ AttemptHistory(c, t, t.attempts[id], gone2, used2)
          /\ t.attempts[id].expiresAt # 0 => t.attempts[id].persistent
    <2> SUFFICES ASSUME NEW id \in AttemptIds, t.attempts[id] # None
                 PROVE  /\ AttemptHistory(c, t, t.attempts[id], gone2, used2)
                        /\ t.attempts[id].expiresAt # 0 => t.attempts[id].persistent
      BY Zenon
    <2>1. PICK a : a = t.attempts[id] /\ a = s.attempts[id]
      BY Zenon
    <2>2. AttemptHistory(c, s, a, gone, used) /\ (a.expiresAt # 0 => a.persistent)
      BY <2>1, Zenon DEF RecordHistory
    <2>3. a.epoch # t.epoch
      BY <2>1, Zenon DEF Past
    <2>4. AttemptHistory(c, t, a, gone2, used2)
      BY <2>2, <2>3, Zenon DEF AttemptHistory
    <2> QED BY <2>1, <2>2, <2>4, Zenon
  <1>4. \A id \in AttemptIds : ~ IsLive(t, id)
    BY Zenon DEF IsLive, Past
  <1> QED BY <1>1, <1>2, <1>3, <1>4, Zenon DEF RecordHistory

(* After the epoch moves on, and while nothing is enrolled, all is past.   *)
LEMMA PastEpochs ==
    ASSUME NEW s \in States, AttemptBooks(s), ApprovalHistory(s)
    PROVE  Past(s, s.epoch + 1) /\ (s.config = None => Past(s, s.epoch))
  <1>1. \A id \in AttemptIds : s.attempts[id] # None =>
          /\ s.attempts[id].epoch \in Nat /\ s.attempts[id].epoch <= s.epoch
          /\ s.attempts[id].epoch = s.epoch => s.config # None
    BY Zenon DEF AttemptBooks, AttemptBook, States, Attempts
  <1>2. \A p \in s.approvals :
          /\ p.statement.epoch \in Nat /\ p.statement.epoch <= s.epoch
          /\ p.statement.epoch = s.epoch => s.config # None
    BY Zenon DEF ApprovalHistory, States, Approvals, Statements
  <1>3. s.epoch \in Nat
    BY Zenon DEF States
  <1> QED BY <1>1, <1>2, <1>3 DEF Past

(* T5, rcv_sync's half: a completion spends the attempt's nullifier.       *)
LEMMA HistoryOfComplete ==
    ASSUME NEW c, NEW gone, NEW used, NEW gone2, NEW used2, NEW s \in States,
           AttemptBooks(s), RecordHistory(c, s, gone, used), AuthorizedLive(s),
           NEW doc \in Docs, doc.recovery # None, used \subseteq used2,
           LET spent == s.attempts[s.authorized].nullifier IN
             spent # None => spent.id \in used2
    PROVE  LET t == Complete(s, doc) IN
           /\ RecordHistory(c, t, gone2, used2)
           /\ \A id \in AttemptIds : ~ IsLive(t, id)
           /\ t.nullifiers \subseteq s.nullifiers \cup {s.attempts[s.authorized].nullifier}
  <1> DEFINE id == s.authorized
             a == s.attempts[id]
             b == [a EXCEPT !.state = "Completed"]
             saved == Save(s, id, b)
             spent == IF a.nullifier = None THEN saved.nullifiers
                      ELSE saved.nullifiers \cup {a.nullifier}
             t == [saved EXCEPT !.config = doc.recovery, !.epoch = s.epoch + 1,
                                !.nullifiers = spent, !.authorized = None]
  <1>1. id \in AttemptIds /\ a \in Attempts /\ a # None /\ a.state = "Authorized" /\ a.persistent
    BY Zenon DEF AuthorizedLive, AttemptBooks, States
  <1>2. /\ b \in Attempts /\ b.state = "Completed" /\ b.epoch = a.epoch
        /\ b.target = a.target /\ b.replaced = a.replaced /\ b.expiresAt = a.expiresAt
    BY <1>1, Zenon DEF Attempts, AttemptStates
  <1>3. AttemptHistory(c, s, a, gone, used)
    BY <1>1, Zenon DEF RecordHistory
  <1> HIDE DEF b
  <1>4. AttemptHistory(c, s, b, gone, used)
    BY <1>2, <1>3, Zenon DEF AttemptHistory
  <1>5. ~ CancelledByEvidence(a) /\ ~ CancelledByEvidence(b)
    BY <1>1, <1>2, Zenon DEF CancelledByEvidence
  <1> HIDE DEF id, a
  <1>6. RecordHistory(c, saved, gone, used)
    BY <1>1, <1>2, <1>4, <1>5, HistoryOfSaved, Zenon DEF a
  <1>7. /\ saved \in States /\ saved.epoch = s.epoch
        /\ \A i \in AttemptIds : i # id => saved.attempts[i] = s.attempts[i]
    BY <1>1, <1>2, SaveEffect, ZenonT(40)
  <1>8. /\ saved.nullifiers = s.nullifiers /\ saved.approvals = s.approvals
        /\ saved.attempts[id].epoch = b.epoch
    BY <1>1, <1>2, SavedRest, Zenon
  <1>9. saved.attempts[id].epoch = a.epoch
    BY <1>2, <1>8, Zenon
  <1>10. Complete(s, doc) = t
    <2>1. Complete(s, doc) =
            BumpEpoch([[saved EXCEPT !.nullifiers = spent, !.authorized = None]
                         EXCEPT !.config = doc.recovery])
      BY Zenon DEF Complete, StoreConfig, b, a, id
    <2> HIDE DEF saved, spent
    <2> QED BY <1>7, <2>1, Zenon DEF BumpEpoch, States
  <1> HIDE DEF saved
  <1>11. Past(saved, s.epoch + 1)
    <2>1. Past(s, s.epoch + 1)
      BY PastEpochs, Zenon DEF RecordHistory
    <2> QED BY <1>1, <1>7, <1>8, <1>9, <2>1, Zenon DEF Past, a
  <1>12. doc.recovery \in Configs /\ s.epoch + 1 \in Nat /\ spent \subseteq Factors
    <2>1. a.nullifier \in Factors \cup {None} /\ saved.nullifiers \subseteq Factors
      BY <1>1, <1>7, Zenon DEF Attempts, States
    <2>2. doc.recovery \in Configs /\ s.epoch + 1 \in Nat
      BY DEF Docs, States
    <2> QED BY <2>1, <2>2, Zenon
  <1>13. (\A f \in spent : f.id \in used2) /\ spent \subseteq s.nullifiers \cup {a.nullifier}
    BY <1>8, Zenon DEF RecordHistory, a, id
  <1> HIDE DEF spent
  <1>14. /\ t \in States /\ t.epoch = s.epoch + 1 /\ t.attempts = saved.attempts
         /\ t.cancels = saved.cancels /\ t.approvals = saved.approvals
         /\ t.nullifiers = spent
    BY <1>7, <1>12, Zenon DEF States
  <1> HIDE DEF t
  <1>15. Past(saved, t.epoch) /\ \A f \in t.nullifiers : f.id \in used2
    BY <1>11, <1>13, <1>14, Zenon
  <1>16. RecordHistory(c, t, gone2, used2) /\ \A i \in AttemptIds : ~ IsLive(t, i)
    BY <1>6, <1>7, <1>14, <1>15, HistoryOfPast, Zenon
  <1> QED BY <1>10, <1>13, <1>14, <1>16, Zenon DEF a, id

(* What rcv_sync keeps of record s, if gone are then the revoked           *)
(* credentials, used the enrolled ids, and spent is the factor a           *)
(* completion spends.                                                      *)
SyncKeeps(c, s, doc, outcome, gone, used, spent) ==
    LET t == Synced(s, doc, outcome) IN
    /\ RecordHistory(c, t, gone, used)
    /\ NoRevival(s, t)
    /\ t.nullifiers \subseteq s.nullifiers \cup {spent}
    /\ outcome # "Completed" => t.nullifiers \subseteq s.nullifiers

(* It keeps the history, whatever it decided, and whatever the account     *)
(* revoked and enrolled with it.                                           *)
LEMMA HistoryOfSynced ==
    ASSUME NEW c \in Controllers, NEW gone, NEW used, NEW gone2, NEW used2,
           NEW s \in States, AttemptBooks(s), RecordHistory(c, s, gone, used),
           NEW doc \in Docs, NEW until, NEW outcome \in Outcomes,
           RcvSync(s, c, doc, until, outcome), used \subseteq used2,
           outcome = "Unchanged" /\ s.config # None => gone2 = gone /\ used2 = used,
           NEW spent,
           outcome = "Completed" => /\ spent = s.attempts[s.authorized].nullifier
                                    /\ spent # None => spent.id \in used2
    PROVE  SyncKeeps(c, s, doc, outcome, gone2, used2, spent)
  <1> DEFINE t == [s EXCEPT !.completing = None]
  <1>1. /\ t \in States
        /\ t.config = s.config /\ t.epoch = s.epoch /\ t.nextAttempt = s.nextAttempt
        /\ t.invalidateBelow = s.invalidateBelow /\ t.authorized = s.authorized
        /\ t.attempts = s.attempts /\ t.cancels = s.cancels
        /\ t.nullifiers = s.nullifiers /\ t.approvals = s.approvals
    BY Zenon DEF States
  <1> HIDE DEF t
  <1>2. AttemptBooks(t) /\ (AuthorizedLive(t) <=> AuthorizedLive(s))
    BY <1>1, BooksOfSame, Zenon
  <1>3. ApprovalHistory(t) /\ Past(s, s.epoch + 1) /\ (s.config = None => Past(s, s.epoch))
    BY <1>1, PastEpochs, Zenon DEF RecordHistory, ApprovalHistory
  <1>4. RecordHistory(c, t, gone, used) /\ NoRevival(s, t)
    BY <1>1, <1>3, HistoryOfSame, Zenon
  <1>5. \A f \in s.nullifiers : f.id \in used2
    BY Zenon DEF RecordHistory
  <1>6. CASE outcome = "Completed"
    <2>1. AuthorizedLive(s) /\ doc.recovery # None
      BY <1>6, Zenon DEF RcvSync, MarkerCurrent
    <2>2. Synced(s, doc, outcome) = Complete(t, doc)
      BY <1>6, Zenon DEF Synced, t
    <2>3. /\ RecordHistory(c, Complete(t, doc), gone2, used2)
          /\ \A id \in AttemptIds : ~ IsLive(Complete(t, doc), id)
          /\ Complete(t, doc).nullifiers \subseteq s.nullifiers \cup {spent}
      <3>1. /\ spent = t.attempts[t.authorized].nullifier
            /\ LET null == t.attempts[t.authorized].nullifier IN
               null # None => null.id \in used2
        BY <1>1, <1>6, Zenon
      <3>2. AuthorizedLive(t)
        BY <1>2, <2>1, Zenon
      <3>3. /\ RecordHistory(c, Complete(t, doc), gone2, used2)
            /\ \A id \in AttemptIds : ~ IsLive(Complete(t, doc), id)
            /\ Complete(t, doc).nullifiers
                 \subseteq t.nullifiers \cup {t.attempts[t.authorized].nullifier}
        BY <1>1, <1>2, <1>4, <2>1, <3>1, <3>2, HistoryOfComplete, Zenon
      <3> QED BY <1>1, <3>1, <3>3, Zenon
    <2> QED BY <1>6, <2>2, <2>3, Zenon DEF NoRevival, SyncKeeps
  <1>7. CASE outcome = "Unchanged"
    <2>1. Synced(s, doc, outcome) = t
      BY <1>7, Zenon DEF Synced, t
    <2>2. RecordHistory(c, t, gone2, used2)
      <3>1. CASE s.config = None
        BY <1>1, <1>3, <1>5, <3>1, HistoryOfPast, Zenon
      <3>2. CASE s.config # None
        BY <1>4, <1>7, <3>2, Zenon
      <3> QED BY <3>1, <3>2, Zenon
    <2> QED BY <1>1, <1>4, <1>7, <2>1, <2>2, Zenon DEF SyncKeeps
  <1>8. ASSUME NEW v \in States, Synced(s, doc, outcome) = v, outcome # "Completed",
               v.epoch = s.epoch + 1, v.attempts = s.attempts, v.cancels = s.cancels,
               v.nullifiers = s.nullifiers, v.approvals = s.approvals
        PROVE  SyncKeeps(c, s, doc, outcome, gone2, used2, spent)
    <2>1. Past(s, v.epoch) /\ \A f \in v.nullifiers : f.id \in used2
      BY <1>3, <1>5, <1>8, Zenon
    <2>2. RecordHistory(c, v, gone2, used2) /\ \A id \in AttemptIds : ~ IsLive(v, id)
      BY <1>8, <2>1, HistoryOfPast, Zenon
    <2> QED BY <1>8, <2>2, Zenon DEF NoRevival, SyncKeeps
  <1>9. CASE outcome \in {"Enrolled", "Reconfigured"}
    <2> DEFINE v == StoreConfig(t, doc.recovery)
    <2>1. doc.recovery \in Configs
      BY <1>9, Zenon DEF RcvSync, Docs
    <2>2. Synced(s, doc, outcome) = v
      BY <1>9, Zenon DEF Synced, t
    <2>3. v \in States
      BY <1>1, <2>1, StoreConfigType, Zenon
    <2>4. /\ v.epoch = s.epoch + 1 /\ v.attempts = s.attempts /\ v.cancels = s.cancels
          /\ v.nullifiers = s.nullifiers /\ v.approvals = s.approvals
      BY <1>1, Zenon DEF StoreConfig, BumpEpoch, States
    <2> HIDE DEF v
    <2> QED BY <1>8, <1>9, <2>2, <2>3, <2>4, Zenon
  <1>10. CASE outcome = "Removed"
    <2> DEFINE r == [t EXCEPT !.config = None, !.authorized = None]
               v == BumpEpoch(r)
    <2>1. Synced(s, doc, outcome) = v
      BY <1>10, Zenon DEF Synced, t
    <2>2. /\ r \in States /\ r.epoch = s.epoch /\ r.attempts = s.attempts
          /\ r.cancels = s.cancels /\ r.nullifiers = s.nullifiers
          /\ r.approvals = s.approvals
      BY <1>1, Zenon DEF States
    <2> HIDE DEF r
    <2>3. v \in States
      BY <2>2, BumpEpochType, Zenon
    <2>4. /\ v.epoch = s.epoch + 1 /\ v.attempts = s.attempts /\ v.cancels = s.cancels
          /\ v.nullifiers = s.nullifiers /\ v.approvals = s.approvals
      BY <2>2, Zenon DEF BumpEpoch, States
    <2> HIDE DEF v
    <2> QED BY <1>8, <1>10, <2>1, <2>3, <2>4, Zenon
  <1> QED BY <1>6, <1>7, <1>9, <1>10, Zenon DEF Outcomes
-----------------------------------------------------------------------------
(* The controllers' steps, and the close of a ledger.                      *)

(* What the action properties DeadStaysDead,                               *)
NeverRevives ==
    \A c \in Controllers, id \in AttemptIds :
        id < ctl[c].nextAttempt /\ ~ IsLive(ctl[c], id) => ~ IsLive(ctl[c], id)'

(* ProtectedChangeNeedsCondition                                           *)
ConditionedChange ==
    \A c \in Controllers :
        LET s == ctl[c] IN
        /\ s.config # None /\ s.config.profile = "Protected"
        /\ ctl'[c].config # s.config
        => \/ /\ AuthorizedLive(s)
              /\ now >= s.attempts[s.authorized].executableAfter
              /\ applied' = s.attempts[s.authorized].target
           \/ ~ AuthorizedLive(s) /\ ConditionRecorded(s, Change(applied'.recovery))

(* and UpgradeRetiresEvidence say of one step.                             *)
RetiringUpgrade ==
    wasm' # wasm =>
        /\ pending.epoch = IF adopted = None THEN None ELSE ctl[adopted].epoch
        /\ \A c \in Controllers : ~ AuthorizedLive(ctl[c])
        /\ \A c \in Controllers, id \in AttemptIds : ~ IsLive(ctl[c], id)'
        /\ \A c \in Controllers : \A p \in ctl[c].approvals :
             p.statement.epoch # ctl'[c].epoch

(* A step that keeps the history and all three.                            *)
HistoryStep == HistoryInv' /\ NeverRevives /\ ConditionedChange /\ RetiringUpgrade

(* Record t keeps the history of controller c's record, its configuration  *)
(* and its nullifiers.                                                     *)
Kept(c, t) ==
    /\ t.config = ctl[c].config /\ t.nullifiers = ctl[c].nullifiers
    /\ RecordHistory(c, t, revoked, enrolledIds)
    /\ NoRevival(ctl[c], t)

(* A controller's record changes, the account does not.                    *)
LEMMA RecordStep ==
    ASSUME RecoveryInv, HistoryInv, NEW c \in Controllers, NEW t,
           ctl' = [ctl EXCEPT ![c] = t], Kept(c, t),
           UNCHANGED <<now, applied, adopted, revoked, enrolledIds, leaves, currentZk,
                       pending, generation, wasm>>
    PROVE  HistoryStep
  <1>1. ctl'[c] = t /\ \A d \in Controllers : d # c => ctl'[d] = ctl[d]
    BY Zenon DEF RecoveryInv, TypeOK
  <1>2. \A d \in Controllers :
          /\ RecordHistory(d, ctl'[d], revoked, enrolledIds)
          /\ ctl'[d].config = ctl[d].config /\ ctl'[d].nullifiers = ctl[d].nullifiers
    BY <1>1, Zenon DEF Kept, HistoryInv
  <1>3. \A d \in Controllers, id \in AttemptIds :
          id < ctl[d].nextAttempt /\ ~ IsLive(ctl[d], id) => ~ IsLive(ctl'[d], id)
    BY <1>1, Zenon DEF Kept, NoRevival
  <1>4. HistoryInv'
    BY <1>2, Zenon DEF HistoryInv, EnrolledFactorProvable, RevokedNeverApplied, PendingHistory
  <1>5. NeverRevives
    BY <1>3, Zenon DEF NeverRevives, IsLive
  <1> QED BY <1>2, <1>4, <1>5, Zenon DEF HistoryStep, ConditionedChange, RetiringUpgrade

(* Neither a controller's record nor what the account enrolled changes.    *)
LEMMA UntouchedStep ==
    ASSUME HistoryInv,
           UNCHANGED <<now, ctl, applied, adopted, revoked, enrolledIds, leaves, currentZk,
                       wasm>>,
           UNCHANGED <<pending, generation>> \/ PendingHistory'
    PROVE  HistoryStep
  <1>1. HistoryInv'
    BY Zenon DEF HistoryInv, EnrolledFactorProvable, RevokedNeverApplied, PendingHistory
  <1> QED BY <1>1, Zenon DEF HistoryStep, NeverRevives, IsLive, ConditionedChange, RetiringUpgrade

(* Time revives no attempt: deadlines and expiries only pass.              *)
LEMMA CloseLedgerStep ==
    ASSUME RecoveryInv, HistoryInv, CloseLedger
    PROVE  HistoryStep
  <1>1. now \in Nat /\ now' = now + 1
    BY DEF CloseLedger, RecoveryInv, TypeOK, Ledgers
  <1>2. UNCHANGED <<ctl, applied, adopted, revoked, enrolledIds, leaves, currentZk, wasm,
                    pending, generation>>
    BY Zenon DEF CloseLedger, accountView, accountOnly
  <1>3. HistoryInv'
    BY <1>2, Zenon DEF HistoryInv, EnrolledFactorProvable, RevokedNeverApplied, PendingHistory
  <1>4. NeverRevives
    <2> SUFFICES ASSUME NEW c \in Controllers, NEW id \in AttemptIds, IsLive(ctl[c], id)'
                 PROVE  IsLive(ctl[c], id)
      BY Zenon DEF NeverRevives
    <2>1. ctl[c].attempts[id] \in Attempts \cup {None}
      BY Zenon DEF RecoveryInv, TypeOK, States
    <2>2. ctl[c].attempts[id] # None =>
            ctl[c].attempts[id].evidenceDeadline \in Nat /\ ctl[c].attempts[id].expiresAt \in Nat
      BY <2>1 DEF Attempts, Ledgers
    <2>3. ctl' = ctl
      BY <1>2, Zenon
    <2> QED BY <1>1, <2>2, <2>3 DEF IsLive
  <1> QED BY <1>2, <1>3, <1>4, Zenon DEF HistoryStep, ConditionedChange, RetiringUpgrade

(* T1: the target's terms are the enrolled ones, its credentials and its   *)
(* factor are unused.                                                      *)
LEMMA BeginStep ==
    ASSUME RecoveryInv, HistoryInv, UNCHANGED accountOnly, NEW c \in Controllers,
           NEW action \in {"LostKey", "Compromise"}, NEW r \in Replacements,
           Begin(c, action, r)
    PROVE  HistoryStep
  <1> DEFINE s == ctl[c]
             source == IF action = "Compromise" THEN s.config.baseline ELSE applied.body
             deadline == now + s.config.expiry
             target == DeriveTarget(source, applied.recovery, r)
             a == [action |-> action, epoch |-> s.epoch,
                   evidenceDeadline |-> deadline,
                   cancelUntil |-> CancelUntil(s.config, deadline),
                   executableAfter |-> 0, expiresAt |-> 0,
                   source |-> IF action = "Compromise" THEN source ELSE applied,
                   target |-> target,
                   replaced |-> ReplacedCredentials(source, r), state |-> "Collecting",
                   guardians |-> {}, nullifier |-> None,
                   cancelGuardians |-> {}, cancelZk |-> FALSE, persistent |-> FALSE]
             u == [s EXCEPT !.nextAttempt = @ + 1]
             id == s.nextAttempt
  <1>1. ctl' = [ctl EXCEPT ![c] = Save(u, id, a)]
    BY Zenon DEF Begin
  <1>2. s \in States /\ AttemptBooks(s) /\ s.config # None /\ s.config \in Configs
        /\ id < MaxAttempts /\ RecordHistory(c, s, revoked, enrolledIds)
    BY Zenon DEF Begin, RecoveryInv, HistoryInv, TypeOK, States
  <1>3. a \in Attempts
    BY BeginAttemptType, ZenonT(40) DEF RecoveryInv
  <1>4. id \in AttemptIds /\ id + 1 \in 0 .. MaxAttempts /\ ~ (id < id)
    BY <1>2, DataAssumption DEF States, AttemptIds
  <1>5. s.attempts[id] = None
    BY <1>2, <1>4, Zenon DEF AttemptBooks, AttemptBook
  <1>6. s.config = applied.recovery /\ s.config.controller = c
    BY <1>2, DataAssumption, Zenon DEF RecoveryInv, EnrollmentAgrees, Enrolled
  <1>7. LET member == target.recovery IN
        /\ member # None /\ member.controller = c
        /\ member.mode = s.config.mode /\ member.quorum = s.config.quorum
        /\ member.delay = s.config.delay /\ member.maxCancels = s.config.maxCancels
        /\ HasZk(member) => member.zk = r.zk /\ r.zk # None
        /\ member.mode \in Modes
    <2>1. target.recovery = IF HasZk(s.config) THEN [s.config EXCEPT !.zk = r.zk] ELSE s.config
      BY <1>6, Zenon DEF DeriveTarget
    <2>2. target.recovery \in Configs
      BY <1>2, <2>1, SMTT(20) DEF Configs, Replacements
    <2>3. HasZk(s.config) <=> r.zk # None
      BY Zenon DEF Begin
    <2> QED BY <1>2, <1>6, <2>1, <2>2, <2>3, DataAssumption, SMTT(20) DEF Configs, HasZk
  <1>8. /\ Compiles(target) /\ AdminSurvives(target.body)
        /\ ReplacedCredentials(source, r) \cap Fingerprints(target.body) = {}
        /\ Fingerprints(target.body) \cap revoked = {}
        /\ r.zk # None => r.zk.id \notin enrolledIds
    BY Zenon DEF Begin, DeriveOk, ReplacedCredentialsLeave, IsRevoked, IsEnrolledId
  <1>9. /\ a.target = target /\ a.replaced = ReplacedCredentials(source, r)
        /\ a.state = "Collecting" /\ a.expiresAt = 0 /\ a.epoch = s.epoch
        /\ a.cancelGuardians = {} /\ a.cancelZk = FALSE
    BY Zenon
  <1>10. ~ CancelledByEvidence(a)
    BY <1>9, Zenon DEF CancelledByEvidence
  <1> HIDE DEF a, target, source, id
  <1>11. ~ CancellationMet(target.recovery, a)
    <2>1. HasGuardians(target.recovery) => target.recovery.quorum \in 1 .. Cardinality(target.recovery.guardians)
      BY <1>7, <1>8, Zenon DEF Compiles, ValidRecovery
    <2>2. HasGuardians(target.recovery) => ~ (Cardinality({}) >= target.recovery.quorum)
      BY <2>1, FS_EmptySet
    <2> QED BY <1>7, <1>9, <2>2, Zenon DEF CancellationMet, HasGuardians, HasZk, Modes
  <1>12. AttemptHistory(c, s, a, revoked, enrolledIds)
    BY <1>7, <1>8, <1>9, <1>11, Zenon DEF AttemptHistory
  <1>13. /\ u \in States /\ u.config = s.config /\ u.epoch = s.epoch
         /\ u.attempts = s.attempts /\ u.nullifiers = s.nullifiers
         /\ u.approvals = s.approvals /\ u.cancels = s.cancels
         /\ u.invalidateBelow = s.invalidateBelow /\ u.authorized = s.authorized
    BY <1>2, <1>4, Zenon DEF States, id
  <1> HIDE DEF u
  <1>14. RecordHistory(c, Save(u, id, a), revoked, enrolledIds)
    BY <1>2, <1>3, <1>4, <1>5, <1>9, <1>10, <1>12, <1>13, HistoryOfSaved, Zenon
  <1>15. NoRevival(s, Save(u, id, a))
    BY <1>2, <1>3, <1>4, <1>13, NoRevivalSaved, Zenon DEF id
  <1>16. Save(u, id, a).config = u.config /\ Save(u, id, a).nullifiers = u.nullifiers
    BY <1>3, <1>4, <1>13, SaveEffect, SavedRest, Zenon
  <1>17. Kept(c, Save(u, id, a))
    BY <1>13, <1>14, <1>15, <1>16, Zenon DEF Kept
  <1>18. UNCHANGED <<now, applied, adopted, revoked, enrolledIds, leaves, currentZk,
                     pending, generation, wasm>>
    BY Zenon DEF Begin, accountView, accountOnly
  <1> QED BY <1>1, <1>17, <1>18, RecordStep, Zenon

(* A live attempt is saved, under counters that moved as u says.           *)
LEMMA SaveStep ==
    ASSUME RecoveryInv, HistoryInv, NEW c \in Controllers, NEW id \in AttemptIds,
           NEW a \in Attempts, NEW u \in States, IsLive(ctl[c], id),
           LET s == ctl[c] IN
             /\ u.config = s.config /\ u.epoch = s.epoch /\ u.attempts = s.attempts
             /\ u.nullifiers = s.nullifiers /\ u.approvals = s.approvals
             /\ \/ u.invalidateBelow = s.invalidateBelow
                \/ s.invalidateBelow <= u.invalidateBelow
             /\ u.authorized \in {s.authorized, None, id}
             /\ AttemptHistory(c, s, a, revoked, enrolledIds)
             /\ a.state = "Authorized" \/ a.expiresAt = s.attempts[id].expiresAt
             /\ \/ u.cancels = s.cancels /\ ~ CancelledByEvidence(a)
                \/ /\ u.cancels = s.cancels + 1 /\ CancelledByEvidence(a)
                   /\ u.cancels <= a.target.recovery.maxCancels,
           ctl' = [ctl EXCEPT ![c] = Save(u, id, a)],
           UNCHANGED <<now, applied, adopted, revoked, enrolledIds, leaves, currentZk,
                       pending, generation, wasm>>
    PROVE  HistoryStep
  <1> DEFINE s == ctl[c]
             o == s.attempts[id]
  <1>1. s \in States /\ RecordHistory(c, s, revoked, enrolledIds)
    BY Zenon DEF RecoveryInv, TypeOK, HistoryInv
  <1>2. o # None /\ ~ CancelledByEvidence(o)
    BY Zenon DEF IsLive, CancelledByEvidence
  <1>3. o.expiresAt # 0 => o.persistent
    BY <1>1, <1>2, Zenon DEF RecordHistory
  <1>4. RecordHistory(c, Save(u, id, a), revoked, enrolledIds)
    BY <1>1, <1>2, <1>3, HistoryOfSaved, Zenon
  <1>5. NoRevival(s, Save(u, id, a))
    BY <1>1, NoRevivalSaved, Zenon
  <1>6. Save(u, id, a).config = u.config /\ Save(u, id, a).nullifiers = u.nullifiers
    BY SaveEffect, SavedRest, Zenon
  <1>7. Kept(c, Save(u, id, a))
    BY <1>4, <1>5, <1>6, Zenon DEF Kept
  <1> QED BY <1>7, RecordStep, Zenon

(* T6 and T7: the counter and the evidence agree. The owner's cancellation *)
(* is none by evidence, for evidence cancels as soon as it suffices.       *)
LEMMA CancelStep ==
    ASSUME RecoveryInv, HistoryInv, NEW c \in Controllers, NEW id \in AttemptIds,
           NEW a \in Attempts, NEW counted \in BOOLEAN, IsLive(ctl[c], id),
           LET o == ctl[c].attempts[id] IN
             /\ a.state = o.state /\ a.epoch = o.epoch /\ a.expiresAt = o.expiresAt
             /\ a.target = o.target /\ a.replaced = o.replaced,
           IF counted THEN CancellationMet(ctl[c].config, a)
                      ELSE ~ CancellationMet(a.target.recovery, a),
           Cancel(c, id, a, counted),
           UNCHANGED <<now, applied, adopted, revoked, enrolledIds, leaves, currentZk,
                       pending, generation, wasm>>
    PROVE  HistoryStep
  <1> DEFINE s == ctl[c]
             was == a.state = "Authorized"
             counts == counted /\ was
             cancels == IF counts THEN s.cancels + 1 ELSE s.cancels
             authorized == IF was THEN None ELSE s.authorized
             u == [s EXCEPT !.cancels = cancels, !.authorized = authorized]
             b == [a EXCEPT !.state = "Cancelled"]
  <1>1. ctl' = [ctl EXCEPT ![c] = Save(u, id, b)]
    BY Zenon DEF Cancel
  <1>2. /\ s \in States /\ RecordHistory(c, s, revoked, enrolledIds)
        /\ s.attempts[id] # None /\ s.attempts[id].epoch = s.epoch
        /\ a.state \in {"Collecting", "Authorized"}
    BY Zenon DEF RecoveryInv, TypeOK, HistoryInv, IsLive
  <1>3. AttemptHistory(c, s, s.attempts[id], revoked, enrolledIds)
    BY <1>2, Zenon DEF RecordHistory
  <1>4. /\ b \in Attempts /\ b.state = "Cancelled" /\ b.epoch = a.epoch
        /\ b.target = a.target /\ b.replaced = a.replaced /\ b.expiresAt = a.expiresAt
        /\ b.cancelGuardians = a.cancelGuardians /\ b.cancelZk = a.cancelZk
    BY Zenon DEF Attempts, AttemptStates
  <1>5. cancels \in Nat /\ authorized \in AttemptIds \cup {None}
    <2>1. s.cancels \in Nat /\ s.authorized \in AttemptIds \cup {None}
      BY <1>2, Zenon DEF States
    <2> QED BY <2>1
  <1>6. CancellationMet(b.target.recovery, b) <=> counted
    BY <1>2, <1>3, <1>4, Zenon DEF AttemptHistory, CancellationMet, HasGuardians, HasZk
  <1>7. a.expiresAt # 0 <=> was
    BY <1>2, <1>3, Zenon DEF AttemptHistory
  <1>8. CancelledByEvidence(b) <=> counts
    BY <1>4, <1>6, <1>7, Zenon DEF CancelledByEvidence
  <1>9. counts => cancels <= b.target.recovery.maxCancels
    <2> SUFFICES ASSUME counts PROVE cancels <= b.target.recovery.maxCancels
      BY Zenon
    <2>1. s.cancels < s.config.maxCancels /\ b.target.recovery.maxCancels = s.config.maxCancels
      BY <1>2, <1>3, <1>4, Zenon DEF AttemptHistory, Cancel
    <2>2. b.target.recovery.maxCancels \in Nat /\ s.cancels \in Nat
      <3>1. b.target.recovery \in Configs
        BY <1>3, <1>4, Zenon DEF AttemptHistory, Attempts, Docs
      <3> QED BY <1>2, <3>1, Zenon DEF Configs, States
    <2> QED BY <2>1, <2>2
  <1> HIDE DEF b
  <1>10. AttemptHistory(c, s, b, revoked, enrolledIds)
    BY <1>3, <1>4, Zenon DEF AttemptHistory
  <1>11. counts => cancels = s.cancels + 1
    BY Zenon
  <1>12. ~ counts => cancels = s.cancels
    BY Zenon
  <1>13. authorized \in {s.authorized, None, id}
    BY Zenon
  <1> HIDE DEF cancels, authorized, counts, was
  <1>14. /\ u \in States /\ u.config = s.config /\ u.epoch = s.epoch
         /\ u.attempts = s.attempts /\ u.nullifiers = s.nullifiers
         /\ u.approvals = s.approvals /\ u.cancels = cancels
         /\ u.invalidateBelow = s.invalidateBelow /\ u.authorized = authorized
    BY <1>2, <1>5, Zenon DEF States
  <1> HIDE DEF u
  <1>15. \/ u.cancels = s.cancels /\ ~ CancelledByEvidence(b)
         \/ /\ u.cancels = s.cancels + 1 /\ CancelledByEvidence(b)
            /\ u.cancels <= b.target.recovery.maxCancels
    BY <1>8, <1>9, <1>11, <1>12, <1>14, Zenon
  <1> QED BY <1>1, <1>4, <1>10, <1>13, <1>14, <1>15, SaveStep, Zenon

(* T4: an authorized attempt expires after ledger zero, for its delay is   *)
(* not zero.                                                               *)
LEMMA PromoteStep ==
    ASSUME RecoveryInv, HistoryInv, NEW c \in Controllers, NEW id \in AttemptIds,
           NEW a \in Attempts, IsLive(ctl[c], id), ctl[c].config # None,
           a.state = "Collecting", a.epoch = ctl[c].epoch,
           AttemptHistory(c, ctl[c], a, revoked, enrolledIds),
           a.expiresAt = ctl[c].attempts[id].expiresAt, Promote(c, id, a),
           UNCHANGED <<now, applied, adopted, revoked, enrolledIds, leaves, currentZk,
                       pending, generation, wasm>>
    PROVE  HistoryStep
  <1> DEFINE s == ctl[c]
             executableAfter == now + s.config.delay
             expiresAt == executableAfter + s.config.expiry
  <1>1. /\ s \in States /\ s.config \in Configs /\ now \in Nat
        /\ s.invalidateBelow <= s.nextAttempt
    BY DEF RecoveryInv, TypeOK, States, Ledgers, AttemptBooks
  <1>2. CASE Stale(a)
    <2> DEFINE b == [a EXCEPT !.state = "Invalidated"]
    <2>1. ctl' = [ctl EXCEPT ![c] = Save(s, id, b)]
      BY <1>2, Zenon DEF Promote
    <2>2. /\ b \in Attempts /\ b.state = "Invalidated" /\ b.epoch = a.epoch
          /\ b.target = a.target /\ b.replaced = a.replaced /\ b.expiresAt = a.expiresAt
      BY Zenon DEF Attempts, AttemptStates
    <2> HIDE DEF b
    <2>3. AttemptHistory(c, s, b, revoked, enrolledIds)
      BY <2>2, Zenon DEF AttemptHistory
    <2>4. ~ CancelledByEvidence(b)
      BY <2>2, Zenon DEF CancelledByEvidence
    <2> QED BY <1>1, <2>1, <2>2, <2>3, <2>4, SaveStep, Zenon
  <1>3. CASE ~ Stale(a)
    <2> DEFINE u == [s EXCEPT !.invalidateBelow = s.nextAttempt, !.authorized = id]
               b == [a EXCEPT !.state = "Authorized",
                              !.executableAfter = executableAfter,
                              !.expiresAt = expiresAt]
    <2>1. ctl' = [ctl EXCEPT ![c] = Save(u, id, b)]
      BY <1>3, Zenon DEF Promote
    <2>2. executableAfter \in Ledgers /\ expiresAt \in Ledgers
      BY <1>1, <1>3, DataAssumption DEF Promote, Fits, Ledgers, Configs
    <2>3. expiresAt # 0
      <3>1. s.config.delay # 0
        BY Zenon DEF AttemptHistory, Compiles, ValidRecovery
      <3>2. /\ s.config.delay \in Nat /\ s.config.expiry \in Nat
        BY <1>1, Zenon DEF Configs
      <3> QED BY <1>1, <3>1, <3>2, AfterDelay, Zenon
    <2> HIDE DEF executableAfter, expiresAt
    <2>4. /\ b \in Attempts /\ b.state = "Authorized" /\ b.epoch = a.epoch
          /\ b.target = a.target /\ b.replaced = a.replaced /\ b.expiresAt = expiresAt
          /\ b.cancelGuardians = a.cancelGuardians /\ b.cancelZk = a.cancelZk
      BY <2>2, Zenon DEF Attempts, AttemptStates
    <2>5. /\ u \in States /\ u.config = s.config /\ u.epoch = s.epoch
          /\ u.attempts = s.attempts /\ u.nullifiers = s.nullifiers
          /\ u.approvals = s.approvals /\ u.cancels = s.cancels
          /\ u.invalidateBelow = s.nextAttempt /\ u.authorized = id
      BY <1>1, Zenon DEF States
    <2> HIDE DEF b, u
    <2>6. AttemptHistory(c, s, b, revoked, enrolledIds)
      BY <2>3, <2>4, Zenon DEF AttemptHistory, CancellationMet
    <2>7. ~ CancelledByEvidence(b)
      BY <2>4, Zenon DEF CancelledByEvidence
    <2> QED BY <1>1, <2>1, <2>4, <2>5, <2>6, <2>7, SaveStep, Zenon
  <1> QED BY <1>2, <1>3, Zenon

(* T2 and T3: evidence for a live attempt.                                 *)
LEMMA AfterEvidenceStep ==
    ASSUME RecoveryInv, HistoryInv, UNCHANGED accountOnly, NEW c \in Controllers,
           NEW id \in AttemptIds, NEW a \in Attempts, NEW domain \in {"Initiate", "Cancel"},
           ctl[c].config # None, IsLive(ctl[c], id),
           LET o == ctl[c].attempts[id] IN
             /\ a.state = o.state /\ a.epoch = o.epoch /\ a.expiresAt = o.expiresAt
             /\ a.target = o.target /\ a.replaced = o.replaced
             /\ domain = "Initiate" => /\ o.state = "Collecting"
                                       /\ a.cancelGuardians = o.cancelGuardians
                                       /\ a.cancelZk = o.cancelZk,
           AfterEvidence(c, id, a, domain)
    PROVE  HistoryStep
  <1> DEFINE s == ctl[c]
             o == s.attempts[id]
  <1>1. /\ s \in States /\ RecordHistory(c, s, revoked, enrolledIds)
        /\ o # None /\ o.epoch = s.epoch /\ o.state \in {"Collecting", "Authorized"}
    BY Zenon DEF RecoveryInv, TypeOK, HistoryInv, IsLive
  <1>2. AttemptHistory(c, s, o, revoked, enrolledIds)
    BY <1>1, Zenon DEF RecordHistory
  <1>3. UNCHANGED <<now, applied, adopted, revoked, enrolledIds, leaves, currentZk,
                    pending, generation, wasm>>
    BY Zenon DEF AfterEvidence, accountOnly
  <1>4. ~ CancelledByEvidence(a)
    BY <1>1, Zenon DEF CancelledByEvidence
  <1>5. ~ CancellationMet(a.target.recovery, a) =>
          AttemptHistory(c, s, a, revoked, enrolledIds)
    BY <1>2, Zenon DEF AttemptHistory
  <1>6. CASE domain = "Initiate"
    <2>1. AttemptHistory(c, s, a, revoked, enrolledIds)
      BY <1>1, <1>2, <1>6, AttemptHistorySame, Zenon
    <2>2. CASE Promote(c, id, a)
      BY <1>1, <1>3, <1>6, <2>1, <2>2, PromoteStep, Zenon
    <2>3. CASE ctl' = [ctl EXCEPT ![c] = Save(s, id, a)]
      BY <1>1, <1>3, <1>4, <2>1, <2>3, SaveStep, Zenon
    <2> QED BY <1>6, <2>2, <2>3, Zenon DEF AfterEvidence
  <1>7. CASE domain = "Cancel"
    <2>1. CASE CancellationMet(s.config, a) /\ Cancel(c, id, a, TRUE)
      BY <1>3, <2>1, CancelStep, Zenon
    <2>2. CASE ~ CancellationMet(s.config, a) /\ ctl' = [ctl EXCEPT ![c] = Save(s, id, a)]
      <3>1. ~ CancellationMet(a.target.recovery, a)
        BY <1>1, <1>2, <2>2, Zenon DEF AttemptHistory, CancellationMet, HasGuardians, HasZk
      <3> QED BY <1>1, <1>3, <1>4, <1>5, <2>2, <3>1, SaveStep, Zenon
    <2> QED BY <1>7, <2>1, <2>2, Zenon DEF AfterEvidence
  <1> QED BY <1>6, <1>7, Zenon

(* Evidence changes neither the attempt's target nor what it replaces.     *)
LEMMA SubmitStep ==
    ASSUME RecoveryInv, HistoryInv, UNCHANGED accountOnly, NEW c \in Controllers,
           NEW id \in AttemptIds, NEW domain \in {"Initiate", "Cancel"},
           \/ \E g \in Guardians : SubmitGuardian(c, id, domain, g)
           \/ SubmitZk(c, id, domain)
    PROVE  HistoryStep
  <1> DEFINE s == ctl[c]
             o == s.attempts[id]
  <1>1. /\ s \in States /\ s.config # None /\ IsLive(s, id)
        /\ domain = "Initiate" => o.state = "Collecting"
    BY Zenon DEF RecoveryInv, TypeOK, SubmitGuardian, SubmitZk, Accepts
  <1>2. s.config \in Configs /\ o \in Attempts
    BY <1>1, Zenon DEF States, IsLive
  <1>3. PICK a \in Attempts :
          /\ a.state = o.state /\ a.epoch = o.epoch /\ a.expiresAt = o.expiresAt
          /\ a.target = o.target /\ a.replaced = o.replaced
          /\ domain = "Initiate" => /\ a.cancelGuardians = o.cancelGuardians
                                    /\ a.cancelZk = o.cancelZk
          /\ AfterEvidence(c, id, a, domain)
    <2>1. ASSUME NEW g \in Guardians PROVE
            /\ [o EXCEPT !.guardians = @ \cup {g}] \in Attempts
            /\ [o EXCEPT !.cancelGuardians = @ \cup {g}] \in Attempts
      BY <1>2, Zenon DEF Attempts
    <2>2. /\ [o EXCEPT !.nullifier = s.config.zk] \in Attempts
          /\ [o EXCEPT !.cancelZk = TRUE] \in Attempts
      BY <1>2, Zenon DEF Attempts, Configs
    <2>3. CASE \E g \in Guardians : SubmitGuardian(c, id, domain, g)
      <3>1. PICK g \in Guardians : SubmitGuardian(c, id, domain, g)
        BY <2>3, Zenon
      <3>2. CASE domain = "Initiate"
        <4>1. AfterEvidence(c, id, [o EXCEPT !.guardians = @ \cup {g}], domain)
          BY <3>1, <3>2, Zenon DEF SubmitGuardian
        <4> QED BY <1>2, <2>1, <4>1, Zenon DEF Attempts
      <3>3. CASE domain = "Cancel"
        <4>1. AfterEvidence(c, id, [o EXCEPT !.cancelGuardians = @ \cup {g}], domain)
          BY <3>1, <3>3, Zenon DEF SubmitGuardian
        <4> QED BY <1>2, <2>1, <3>3, <4>1, Zenon DEF Attempts
      <3> QED BY <3>2, <3>3, Zenon
    <2>4. CASE SubmitZk(c, id, domain)
      <3>2. CASE domain = "Initiate"
        <4>1. AfterEvidence(c, id, [o EXCEPT !.nullifier = s.config.zk], domain)
          BY <2>4, <3>2, Zenon DEF SubmitZk
        <4> QED BY <1>2, <2>2, <4>1, Zenon DEF Attempts
      <3>3. CASE domain = "Cancel"
        <4>1. AfterEvidence(c, id, [o EXCEPT !.cancelZk = TRUE], domain)
          BY <2>4, <3>3, Zenon DEF SubmitZk
        <4> QED BY <1>2, <2>2, <3>3, <4>1, Zenon DEF Attempts
      <3> QED BY <3>2, <3>3, Zenon
    <2> QED BY <2>3, <2>4, Zenon
  <1> QED BY <1>1, <1>3, AfterEvidenceStep, Zenon

(* A step of one record that touches neither attempts nor counters.        *)
LEMMA SameStep ==
    ASSUME RecoveryInv, HistoryInv, NEW c \in Controllers, NEW t \in States,
           ctl' = [ctl EXCEPT ![c] = t],
           t.config = ctl[c].config, t.epoch = ctl[c].epoch, t.cancels = ctl[c].cancels,
           t.attempts = ctl[c].attempts, t.nullifiers = ctl[c].nullifiers,
           t.invalidateBelow = ctl[c].invalidateBelow, t.authorized = ctl[c].authorized,
           ApprovalHistory(t), UNCHANGED <<now, accountView, accountOnly>>
    PROVE  HistoryStep
  <1>1. ctl[c] \in States /\ RecordHistory(c, ctl[c], revoked, enrolledIds)
    BY Zenon DEF RecoveryInv, TypeOK, HistoryInv
  <1>2. Kept(c, t)
    BY <1>1, HistoryOfSame, Zenon DEF Kept
  <1> QED BY <1>2, RecordStep, Zenon DEF accountView, accountOnly

(* An approval is recorded under the present epoch, while one is enrolled. *)
LEMMA RecordApprovalStep ==
    ASSUME RecoveryInv, HistoryInv, UNCHANGED accountOnly, NEW c \in Controllers,
           NEW by, NEW subject, NEW until, RecordApproval(c, by, subject, until),
           ctl' \in [Controllers -> States]
    PROVE  HistoryStep
  <1> DEFINE s == ctl[c]
             x == s.approvals \cup
                    {[statement |-> ChangeStatement(s, subject, until), by |-> by]}
             t == [s EXCEPT !.approvals = x]
  <1>1. /\ ctl' = [ctl EXCEPT ![c] = t] /\ UNCHANGED <<now, accountView>>
        /\ s.config # None /\ s \in States /\ ApprovalHistory(s)
    BY Zenon DEF RecordApproval, RecoveryInv, TypeOK, States, HistoryInv, RecordHistory
  <1>2. /\ t.config = s.config /\ t.epoch = s.epoch /\ t.cancels = s.cancels
        /\ t.attempts = s.attempts /\ t.nullifiers = s.nullifiers
        /\ t.invalidateBelow = s.invalidateBelow /\ t.authorized = s.authorized
        /\ t.approvals = x
    BY <1>1, Zenon DEF States
  <1>3. t \in States
    BY <1>1, Zenon DEF RecoveryInv, TypeOK
  <1> HIDE DEF t
  <1>4. ApprovalHistory(t)
    BY <1>1, <1>2 DEF ApprovalHistory, ChangeStatement, States
  <1> QED BY <1>1, <1>2, <1>3, <1>4, SameStep, Zenon

(* A published baseline is no part of the history.                         *)
LEMMA PublishBaselineStep ==
    ASSUME RecoveryInv, HistoryInv, UNCHANGED accountOnly, NEW c \in Controllers,
           PublishBaseline(c), ctl' \in [Controllers -> States]
    PROVE  HistoryStep
  <1> DEFINE s == ctl[c]
             x == s.baselines \cup {s.config.baseline}
             t == [s EXCEPT !.baselines = x]
  <1>1. /\ ctl' = [ctl EXCEPT ![c] = t] /\ UNCHANGED <<now, accountView>>
        /\ s \in States /\ ApprovalHistory(s)
    BY Zenon DEF PublishBaseline, RecoveryInv, TypeOK, States, HistoryInv, RecordHistory
  <1>2. /\ t.config = s.config /\ t.epoch = s.epoch /\ t.cancels = s.cancels
        /\ t.attempts = s.attempts /\ t.nullifiers = s.nullifiers
        /\ t.invalidateBelow = s.invalidateBelow /\ t.authorized = s.authorized
        /\ t.approvals = s.approvals
    BY <1>1, Zenon DEF States
  <1>3. t \in States
    BY <1>1, Zenon DEF RecoveryInv, TypeOK
  <1> HIDE DEF t
  <1>4. ApprovalHistory(t)
    BY <1>1, <1>2, Zenon DEF ApprovalHistory
  <1> QED BY <1>1, <1>2, <1>3, <1>4, SameStep, Zenon

(* Storage expiry takes only attempts that were never authorized.          *)
LEMMA EvictCollectingStep ==
    ASSUME RecoveryInv, HistoryInv, UNCHANGED accountOnly, NEW c \in Controllers,
           NEW id \in AttemptIds, EvictCollecting(c, id)
    PROVE  HistoryStep
  <1> DEFINE s == ctl[c]
             kept == [s.attempts EXCEPT ![id] = None]
             t == [s EXCEPT !.attempts = kept]
  <1>1. s \in States /\ RecordHistory(c, s, revoked, enrolledIds)
    BY Zenon DEF RecoveryInv, TypeOK, HistoryInv
  <1>2. ctl' = [ctl EXCEPT ![c] = t] /\ UNCHANGED <<now, accountView>>
    BY <1>1, Zenon DEF EvictCollecting, RecoveryInv, TypeOK, States
  <1>3. /\ t.config = s.config /\ t.epoch = s.epoch /\ t.cancels = s.cancels
        /\ t.nullifiers = s.nullifiers /\ t.approvals = s.approvals
        /\ t.invalidateBelow = s.invalidateBelow /\ t.authorized = s.authorized
        /\ t.attempts = kept
    BY <1>1, Zenon DEF States
  <1>4. t.attempts[id] = None /\ \A i \in AttemptIds : i # id => t.attempts[i] = s.attempts[i]
    BY <1>1, <1>3, Zenon DEF States
  <1>5. s.attempts[id].expiresAt = 0
    BY <1>1, Zenon DEF EvictCollecting, RecordHistory
  <1> HIDE DEF t, kept
  <1>6. id \notin EvidenceCancelled(s) /\ id \notin EvidenceCancelled(t)
    BY <1>3, <1>4, <1>5, Zenon DEF EvidenceCancelled, CancelledByEvidence
  <1>7. s.cancels \in Nat /\ CancelHistory(s)
    BY <1>1, Zenon DEF States, RecordHistory
  <1>8. CancelHistory(t)
    BY <1>3, <1>4, <1>6, <1>7, CancelHistorySaved, Zenon
  <1>9. ASSUME NEW i \in AttemptIds, t.attempts[i] # None
        PROVE  /\ AttemptHistory(c, t, t.attempts[i], revoked, enrolledIds)
               /\ t.attempts[i].expiresAt # 0 => t.attempts[i].persistent
    <2>1. t.attempts[i] = s.attempts[i]
      BY <1>3, <1>4, <1>9, Zenon
    <2>2. /\ AttemptHistory(c, s, s.attempts[i], revoked, enrolledIds)
          /\ s.attempts[i].expiresAt # 0 => s.attempts[i].persistent
      BY <1>1, <1>9, <2>1, Zenon DEF RecordHistory
    <2> QED BY <1>3, <2>1, <2>2, Zenon DEF AttemptHistory
  <1>10. RecordHistory(c, t, revoked, enrolledIds)
    BY <1>1, <1>3, <1>8, <1>9, ZenonT(40) DEF RecordHistory, ApprovalHistory
  <1>11. NoRevival(s, t)
    BY <1>3, <1>4 DEF NoRevival, IsLive
  <1>12. Kept(c, t)
    BY <1>3, <1>10, <1>11, Zenon DEF Kept
  <1> QED BY <1>2, <1>12, RecordStep, Zenon DEF accountView, accountOnly

(* Every entry point of a controller keeps the history.                    *)
LEMMA ControllerHistory ==
    ASSUME RecoveryInv, HistoryInv, TypeOK', NEW c \in Controllers, ControllerStep(c)
    PROVE  HistoryStep
  <1> ctl' \in [Controllers -> States]
    BY Zenon DEF TypeOK
  <1>1. ASSUME NEW action \in {"LostKey", "Compromise"},
               NEW keys \in [Slots -> NewKeys \cup {None}], NEW zk \in Rotations \cup {None},
               Begin(c, action, [keys |-> keys, zk |-> zk]), UNCHANGED accountOnly
        PROVE  HistoryStep
    <2>1. [keys |-> keys, zk |-> zk] \in Replacements
      BY AccountAssumption, Zenon DEF Replacements
    <2> QED BY <1>1, <2>1, BeginStep, Zenon
  <1>2. ASSUME NEW id \in AttemptIds, NEW domain \in {"Initiate", "Cancel"},
               \/ \E g \in Guardians : SubmitGuardian(c, id, domain, g)
               \/ SubmitZk(c, id, domain),
               UNCHANGED accountOnly
        PROVE  HistoryStep
    BY <1>2, SubmitStep, Zenon
  <1>3. ASSUME NEW subject, NEW until, UNCHANGED accountOnly,
               \/ \E g \in Guardians : ApproveChange(c, subject, until, g)
               \/ SubmitZkChange(c, subject, until)
        PROVE  HistoryStep
    BY <1>3, RecordApprovalStep, Zenon DEF ApproveChange, SubmitZkChange
  <1>4. ASSUME PublishBaseline(c), UNCHANGED accountOnly PROVE HistoryStep
    BY <1>4, PublishBaselineStep, Zenon
  <1>5. ASSUME NEW id \in AttemptIds, EvictCollecting(c, id), UNCHANGED accountOnly
        PROVE  HistoryStep
    BY <1>5, EvictCollectingStep, Zenon
  <1> QED BY <1>1, <1>2, <1>3, <1>4, <1>5, Zenon DEF ControllerStep
=============================================================================
