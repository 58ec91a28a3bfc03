--------------------------- MODULE RecoveryProofs ---------------------------
(***************************************************************************)
(* The safety of recovery, proved: RecoveryInv is inductive, and from it   *)
(* follow the agreement of account and controllers, the exact freeze, the  *)
(* evidence behind an authorized attempt, the death of its siblings and    *)
(* the cancellation window.                                                *)
(***************************************************************************)
EXTENDS PerchAccountProofs

-----------------------------------------------------------------------------
(* The controllers' steps, and the close of a ledger.                      *)

(* Most steps happen within one ledger: the invariant's next value, read   *)
(* at the present ledger.                                                  *)
LEMMA WithinLedger ==
    ASSUME now' = now, TypeOK', EnrollmentAgrees',
           \A c \in Controllers : AttemptBooks(ctl'[c]),
           gate' # None /\ now < gate'.until <=>
             /\ adopted' # None
             /\ AuthorizedLive(ctl'[adopted'])
             /\ ctl'[adopted'].config.profile = "Protected",
           gate' # None /\ now < gate'.until =>
             /\ gate'.attempt = ctl'[adopted'].authorized
             /\ gate'.until = ctl'[adopted'].attempts[gate'.attempt].expiresAt,
           \A c \in Controllers : AuthorizedLive(ctl'[c]) =>
             LET a == ctl'[c].attempts[ctl'[c].authorized]
             IN a.action = "LostKey" => applied' = a.source
    PROVE  RecoveryInv'
  <1>1. (\A c \in Controllers : AttemptBooks(ctl[c]))'
    BY Zenon DEF AttemptBooks, AttemptBook, AuthorizedLive, IsLive, InitiationMet
  <1>2. FreezeMirror'
    BY Zenon DEF FreezeMirror, Frozen, AuthorizedLive, IsLive
  <1>3. LostKeySourceApplied'
    BY Zenon DEF LostKeySourceApplied, AuthorizedLive, IsLive
  <1> QED BY <1>1, <1>2, <1>3, Zenon DEF RecoveryInv

(* A controller's record changes, but neither its configuration nor        *)
(* whether it has an authorized live attempt, nor that attempt.            *)
LEMMA QuietStep ==
    ASSUME RecoveryInv, TypeOK', NEW c \in Controllers, NEW t,
           ctl' = [ctl EXCEPT ![c] = t], AttemptBooks(t), t.config = ctl[c].config,
           AuthorizedLive(t) <=> AuthorizedLive(ctl[c]),
           AuthorizedLive(t) =>
             LET i == ctl[c].authorized IN
             /\ t.authorized = i
             /\ t.attempts[i].expiresAt = ctl[c].attempts[i].expiresAt
             /\ t.attempts[i].action = ctl[c].attempts[i].action
             /\ t.attempts[i].source = ctl[c].attempts[i].source,
           UNCHANGED <<now, applied, adopted, gate, currentZk>>
    PROVE  RecoveryInv'
  <1>1. ctl'[c] = t /\ \A d \in Controllers : d # c => ctl'[d] = ctl[d]
    BY Zenon DEF RecoveryInv, TypeOK
  <1>2. EnrollmentAgrees'
    BY <1>1 DEF RecoveryInv, EnrollmentAgrees, Enrolled
  <1>3. \A d \in Controllers : AttemptBooks(ctl'[d])
    BY <1>1, Zenon DEF RecoveryInv
  <1>4. adopted \in Controllers \cup {None}
    BY Zenon DEF RecoveryInv, TypeOK
  <1>5. adopted # None =>
          /\ AuthorizedLive(ctl'[adopted]) <=> AuthorizedLive(ctl[adopted])
          /\ ctl'[adopted].config = ctl[adopted].config
          /\ AuthorizedLive(ctl[adopted]) =>
               LET i == ctl[adopted].authorized IN
               /\ ctl'[adopted].authorized = i
               /\ ctl'[adopted].attempts[i].expiresAt = ctl[adopted].attempts[i].expiresAt
    BY <1>1, <1>4, Zenon
  <1>6. FreezeMirror
    BY Zenon DEF RecoveryInv
  <1>7. /\ gate' # None /\ now < gate'.until <=>
             /\ adopted' # None
             /\ AuthorizedLive(ctl'[adopted'])
             /\ ctl'[adopted'].config.profile = "Protected"
        /\ gate' # None /\ now < gate'.until =>
             /\ gate'.attempt = ctl'[adopted'].authorized
             /\ gate'.until = ctl'[adopted'].attempts[gate'.attempt].expiresAt
    BY <1>5, <1>6, Zenon DEF FreezeMirror, Frozen
  <1>8. \A d \in Controllers : AuthorizedLive(ctl'[d]) =>
          LET a == ctl'[d].attempts[ctl'[d].authorized]
          IN a.action = "LostKey" => applied' = a.source
    BY <1>1 DEF RecoveryInv, LostKeySourceApplied
  <1> QED BY <1>2, <1>3, <1>7, <1>8, WithinLedger, Zenon

LEMMA CloseLedgerInv ==
    ASSUME RecoveryInv, TypeOK', CloseLedger
    PROVE  RecoveryInv'
  <1>1. now \in Nat /\ now' = now + 1
    BY DEF CloseLedger, RecoveryInv, TypeOK, Ledgers
  <1>2. UNCHANGED <<ctl, accountView, accountOnly>>
    BY Zenon DEF CloseLedger
  <1>3. EnrollmentAgrees'
    BY <1>2, Zenon DEF RecoveryInv, EnrollmentAgrees, Enrolled, accountView, accountOnly
  <1>4. ASSUME NEW c \in Controllers
        PROVE  /\ AuthorizedLive(ctl[c])' <=>
                    /\ AuthorizedLive(ctl[c])
                    /\ now' < ctl[c].attempts[ctl[c].authorized].expiresAt
               /\ AttemptBooks(ctl[c])'
    <2>1. ctl[c] \in States /\ AttemptBooks(ctl[c])
      BY Zenon DEF RecoveryInv, TypeOK
    <2>2. ctl[c].authorized # None =>
            /\ ctl[c].attempts[ctl[c].authorized] \in Attempts
            /\ ctl[c].attempts[ctl[c].authorized].state = "Authorized"
      BY <2>1, Zenon DEF AttemptBooks, States
    <2>3. ctl[c].authorized # None => ctl[c].attempts[ctl[c].authorized].expiresAt \in Nat
      BY <2>2, SMTT(20) DEF Attempts, Ledgers
    <2>4. AuthorizedLive(ctl[c])' <=>
                    /\ AuthorizedLive(ctl[c])
                    /\ now' < ctl[c].attempts[ctl[c].authorized].expiresAt
      BY <1>1, <1>2, <2>2, <2>3 DEF AuthorizedLive, IsLive
    <2>5. AttemptBooks(ctl[c])'
      BY <1>2, <2>1, <2>4, Zenon DEF AttemptBooks, AttemptBook, InitiationMet
    <2> QED BY <2>4, <2>5, Zenon
  <1>5. LostKeySourceApplied'
    BY <1>2, <1>4, Zenon DEF RecoveryInv, LostKeySourceApplied, accountView
  <1>6. FreezeMirror'
    <2>1. adopted \in Controllers \cup {None} /\ gate \in Gates \cup {None} /\ FreezeMirror
      BY Zenon DEF RecoveryInv, TypeOK
    <2>2. gate # None => gate.until \in Nat
      BY <2>1 DEF Gates, Ledgers
    <2>3. UNCHANGED <<ctl, gate, adopted>>
      BY <1>2, Zenon DEF accountView
    <2> QED BY <1>1, <1>4, <2>1, <2>2, <2>3 DEF FreezeMirror, Frozen
  <1> QED BY <1>3, <1>4, <1>5, <1>6, Zenon DEF RecoveryInv

LEMMA BeginInv ==
    ASSUME RecoveryInv, TypeOK', UNCHANGED accountOnly, NEW c \in Controllers,
           NEW action \in {"LostKey", "Compromise"}, NEW r \in Replacements,
           Begin(c, action, r)
    PROVE  RecoveryInv'
  <1> DEFINE s == ctl[c]
             source == IF action = "Compromise" THEN s.config.baseline ELSE applied.body
             deadline == now + s.config.expiry
             a == [action |-> action, epoch |-> s.epoch,
                   evidenceDeadline |-> deadline,
                   cancelUntil |-> CancelUntil(s.config, deadline),
                   executableAfter |-> 0, expiresAt |-> 0,
                   source |-> IF action = "Compromise" THEN source ELSE applied,
                   target |-> DeriveTarget(source, applied.recovery, r),
                   replaced |-> ReplacedCredentials(source, r), state |-> "Collecting",
                   guardians |-> {}, nullifier |-> None,
                   cancelGuardians |-> {}, cancelZk |-> FALSE, persistent |-> FALSE]
             t == Save([s EXCEPT !.nextAttempt = @ + 1], s.nextAttempt, a)
  <1>1. ctl' = [ctl EXCEPT ![c] = t]
    BY Zenon DEF Begin
  <1>2. s \in States /\ AttemptBooks(s) /\ ~ AuthorizedLive(s) /\ s.config # None
        /\ s.nextAttempt < MaxAttempts
    BY Zenon DEF Begin, RecoveryInv, TypeOK
  <1>3. a \in Attempts
    BY BeginAttemptType, ZenonT(40) DEF RecoveryInv
  <1>4. AttemptBooks(t) /\ ~ AuthorizedLive(t)
    BY <1>2, <1>3, BooksOfBegun
  <1>5. t.config = s.config
    <2>1. s.nextAttempt \in AttemptIds /\ s.nextAttempt + 1 \in 0 .. MaxAttempts
      BY <1>2, DataAssumption, SMTT(20) DEF States, AttemptIds
    <2>2. [s EXCEPT !.nextAttempt = @ + 1] \in States
      BY <1>2, <2>1, Zenon DEF States
    <2>3. [s EXCEPT !.nextAttempt = @ + 1].config = s.config
      BY <1>2, Zenon DEF States
    <2> DEFINE u == [s EXCEPT !.nextAttempt = @ + 1]
    <2> HIDE DEF a, u
    <2>4. Save(u, s.nextAttempt, a).config = u.config
      BY <1>3, <2>1, <2>2, SaveEffect, Zenon DEF u
    <2> QED BY <2>3, <2>4, Zenon DEF u
  <1>6. UNCHANGED <<now, applied, adopted, gate, currentZk>>
    BY Zenon DEF Begin, accountView, accountOnly
  <1> HIDE DEF t
  <1> QED BY <1>1, <1>2, <1>4, <1>5, <1>6, QuietStep, Zenon

(* Cancellation of a live attempt, by evidence or by the owner.            *)
LEMMA CancelInv ==
    ASSUME RecoveryInv, TypeOK', NEW c \in Controllers, NEW id \in AttemptIds,
           NEW a \in Attempts, NEW counted \in BOOLEAN,
           ctl[c].config # None, IsLive(ctl[c], id), AttemptBook(ctl[c], id, a),
           a.state = ctl[c].attempts[id].state,
           Cancel(c, id, a, counted), UNCHANGED <<now, applied, adopted, currentZk>>
    PROVE  RecoveryInv'
  <1> DEFINE s == ctl[c]
             was == a.state = "Authorized"
             counts == counted /\ was
             cancels == IF counts THEN s.cancels + 1 ELSE s.cancels
             u == [s EXCEPT !.cancels = cancels, !.authorized = IF was THEN None ELSE @]
             b == [a EXCEPT !.state = "Cancelled"]
             t == Save(u, id, b)
  <1>1. ctl' = [ctl EXCEPT ![c] = t]
    BY Zenon DEF Cancel
  <1>2. s \in States /\ AttemptBooks(s) /\ s.attempts[id] # None /\ id # None
    BY DataAssumption DEF RecoveryInv, TypeOK, IsLive, AttemptIds
  <1>3. cancels \in Nat
    BY <1>2 DEF States
  <1>4. AttemptBooks(t) /\ (AuthorizedLive(t) <=> AuthorizedLive(s) /\ ~ was)
    BY <1>2, <1>3, BooksOfCancelled, Zenon
  <1>5. c = adopted /\ adopted # None
    BY DataAssumption, Zenon DEF RecoveryInv, EnrollmentAgrees
  <1>6. /\ u \in States /\ u.config = s.config /\ u.attempts = s.attempts
        /\ u.authorized = IF was THEN None ELSE s.authorized
    <2> HIDE DEF cancels, was
    <2>1. (IF was THEN None ELSE s.authorized) \in AttemptIds \cup {None}
      BY <1>2, Zenon DEF States
    <2> QED BY <1>2, <1>3, <2>1, Zenon DEF States
  <1>7. b \in Attempts
    BY Zenon DEF Attempts, AttemptStates
  <1> HIDE DEF u, b
  <1>8. /\ t.config = s.config /\ t.authorized = u.authorized
        /\ \A i \in AttemptIds : i # id => t.attempts[i] = s.attempts[i]
    BY <1>6, <1>7, SaveEffect
  <1> HIDE DEF t
  <1>9. CASE ~ was
    <2>1. s.authorized # id
      BY <1>2, <1>9, Zenon DEF AttemptBooks
    <2>2. UNCHANGED gate
      BY <1>9, Zenon DEF Cancel
    <2>3. AuthorizedLive(t) => s.authorized \in AttemptIds
      BY <1>2, <1>4, Zenon DEF AuthorizedLive, States
    <2> QED BY <1>1, <1>4, <1>6, <1>8, <1>9, <2>1, <2>2, <2>3, QuietStep, Zenon
  <1>10. CASE was
    <2>1. AuthorizedLive(s) /\ s.authorized = id
      BY <1>2, <1>10, Zenon DEF AttemptBooks, AuthorizedLive, IsLive
    <2>2. ctl'[c] = t /\ \A d \in Controllers : d # c => ctl'[d] = ctl[d]
      BY <1>1, Zenon DEF RecoveryInv, TypeOK
    <2>3. ~ AuthorizedLive(ctl'[c])
      BY <1>4, <1>10, <2>2, Zenon
    <2>4. ~ (gate' # None /\ now < gate'.until)
      <3>1. CASE s.config.profile = "Protected"
        <4>1. Frozen /\ gate.attempt = id
          BY <1>5, <2>1, <3>1, Zenon DEF RecoveryInv, FreezeMirror
        <4>2. gate' = None
          BY <1>10, <3>1, <4>1, Zenon DEF Cancel, RcvGate, Frozen
        <4> QED BY <4>2, Zenon
      <3>2. CASE s.config.profile # "Protected"
        <4>1. ~ Frozen
          BY <1>5, <3>2, Zenon DEF RecoveryInv, FreezeMirror
        <4>2. gate' = gate
          BY <3>2, Zenon DEF Cancel
        <4> QED BY <4>1, <4>2, Zenon DEF Frozen
      <3> QED BY <3>1, <3>2, Zenon
    <2>5. EnrollmentAgrees'
      BY <1>8, <2>2 DEF RecoveryInv, EnrollmentAgrees, Enrolled
    <2>6. \A d \in Controllers : AttemptBooks(ctl'[d])
      BY <1>4, <2>2, Zenon DEF RecoveryInv
    <2>7. \A d \in Controllers : AuthorizedLive(ctl'[d]) =>
            LET x == ctl'[d].attempts[ctl'[d].authorized]
            IN x.action = "LostKey" => applied' = x.source
      BY <2>2, <2>3, Zenon DEF RecoveryInv, LostKeySourceApplied
    <2>8. ~ (adopted' # None /\ AuthorizedLive(ctl'[adopted']))
      BY <1>5, <2>3, Zenon
    <2> QED BY <2>4, <2>5, <2>6, <2>7, <2>8, WithinLedger, Zenon
  <1> QED BY <1>9, <1>10, Zenon

(* Promotion of a live collecting attempt whose condition is met.          *)
LEMMA PromoteInv ==
    ASSUME RecoveryInv, TypeOK', NEW c \in Controllers, NEW id \in AttemptIds,
           NEW a \in Attempts, ctl[c].config # None, ctl[c].attempts[id] # None,
           ctl[c].attempts[id].state = "Collecting",
           AttemptBook(ctl[c], id, a), InitiationMet(ctl[c].config, a),
           a.epoch = ctl[c].epoch, now <= a.evidenceDeadline,
           Promote(c, id, a), UNCHANGED <<now, applied, adopted, currentZk>>
    PROVE  RecoveryInv'
  <1> DEFINE s == ctl[c]
             executableAfter == now + s.config.delay
             expiresAt == executableAfter + s.config.expiry
             u == [s EXCEPT !.invalidateBelow = s.nextAttempt, !.authorized = id]
             b == [a EXCEPT !.state = "Authorized",
                            !.executableAfter = executableAfter,
                            !.expiresAt = expiresAt]
             t == Save(u, id, b)
  <1>1. s \in States /\ AttemptBooks(s) /\ s.config \in Configs /\ now \in Nat
    BY DEF RecoveryInv, TypeOK, States, Ledgers
  <1>2. c = adopted /\ adopted # None
    BY DataAssumption, Zenon DEF RecoveryInv, EnrollmentAgrees
  <1>3. s.authorized # id
    BY <1>1, DataAssumption DEF AttemptBooks, AttemptIds
  <1>4. CASE Stale(a)
    <2> DEFINE d == [a EXCEPT !.state = "Invalidated"]
               v == Save(s, id, d)
    <2>1. ctl' = [ctl EXCEPT ![c] = v] /\ UNCHANGED gate
      BY <1>4, Zenon DEF Promote
    <2>2. d \in Attempts
      BY Zenon DEF Attempts, AttemptStates
    <2>3. AttemptBook(s, id, d)
      BY Zenon DEF AttemptBook, Attempts
    <2> HIDE DEF d
    <2>4. AttemptBooks(v) /\ (AuthorizedLive(v) <=> AuthorizedLive(s))
      BY <1>1, <1>3, <2>2, <2>3, BooksOfOther, Zenon
    <2>5. /\ v.config = s.config /\ v.authorized = s.authorized
          /\ \A i \in AttemptIds : i # id => v.attempts[i] = s.attempts[i]
      BY <1>1, <2>2, SaveEffect, ZenonT(40)
    <2>6. ~ AuthorizedLive(s)
      BY Zenon DEF Promote
    <2> HIDE DEF v
    <2> QED BY <2>1, <2>4, <2>5, <2>6, QuietStep, Zenon
  <1>5. CASE ~ Stale(a)
    <2>1. executableAfter \in Ledgers /\ expiresAt \in Ledgers
      BY <1>1, <1>5, DataAssumption DEF Promote, Fits, Ledgers, Configs
    <2>2. /\ b \in Attempts /\ b.state = "Authorized" /\ b.epoch = s.epoch
          /\ b.expiresAt = expiresAt /\ b.cancelUntil = a.cancelUntil
          /\ b.evidenceDeadline = a.evidenceDeadline /\ b.guardians = a.guardians
          /\ b.nullifier = a.nullifier /\ b.action = a.action /\ b.source = a.source
      BY <2>1, Zenon DEF Attempts, AttemptStates
    <2>3. ctl' = [ctl EXCEPT ![c] = t]
      BY <1>5, Zenon DEF Promote
    <2>4. expiresAt <= a.cancelUntil
      <3>1. a.cancelUntil = a.evidenceDeadline + s.config.delay + s.config.expiry
        BY Zenon DEF AttemptBook, CancelUntil
      <3>2. a.evidenceDeadline \in Nat /\ s.config.delay \in Nat /\ s.config.expiry \in Nat
        BY <1>1 DEF Attempts, Ledgers, Configs
      <3> QED BY <1>1, <3>1, <3>2
    <2>5. ~ AuthorizedLive(s)
      BY Zenon DEF Promote
    <2>6. /\ u \in States /\ u.config = s.config /\ u.authorized = id
      BY <1>1, Zenon DEF States
    <2> HIDE DEF b
    <2>7. AttemptBook(s, id, b)
      BY <2>2, <2>4, Zenon DEF AttemptBook, InitiationMet
    <2>8. AttemptBooks(t) /\ (AuthorizedLive(t) <=> now < expiresAt)
      BY <1>1, <2>2, <2>7, BooksOfPromoted, Zenon
    <2> HIDE DEF u
    <2>9. t.config = s.config /\ t.authorized = id
      BY <2>2, <2>6, SaveEffect, Zenon
    <2>10. /\ t.attempts[id].expiresAt = expiresAt
           /\ t.attempts[id].action = a.action /\ t.attempts[id].source = a.source
      BY <2>2, <2>6, SavedAttempt, ZenonT(40)
    <2> HIDE DEF t, expiresAt, executableAfter
    <2>11. ctl'[c] = t /\ \A d \in Controllers : d # c => ctl'[d] = ctl[d]
      BY <2>3, Zenon DEF RecoveryInv, TypeOK
    <2>12. ~ Frozen
      BY <1>2, <2>5, Zenon DEF RecoveryInv, FreezeMirror
    <2>13. /\ gate' # None /\ now < gate'.until <=>
                s.config.profile = "Protected" /\ now < expiresAt
           /\ gate' # None /\ now < gate'.until =>
                gate'.attempt = id /\ gate'.until = expiresAt
      <3>1. CASE s.config.profile # "Protected"
        <4>1. gate' = gate
          BY <1>5, <3>1, Zenon DEF Promote
        <4> QED BY <2>12, <3>1, <4>1, Zenon DEF Frozen
      <3>2. CASE s.config.profile = "Protected"
        <4>1. RcvGate(c, id, expiresAt)
          BY <1>5, <3>2, Zenon DEF Promote, expiresAt, executableAfter
        <4>2. CASE expiresAt # 0
          <5>1. gate' = [attempt |-> id, until |-> expiresAt]
            BY <4>1, <4>2, Zenon DEF RcvGate
          <5>2. gate' # None
            BY <2>1, <5>1, AccountAssumption DEF Gates
          <5> QED BY <3>2, <5>1, <5>2, Zenon
        <4>3. CASE expiresAt = 0
          <5>1. gate' \in {None, gate}
            BY <4>1, <4>3, Zenon DEF RcvGate
          <5>2. ~ (now < expiresAt)
            BY <1>1, <4>3
          <5> QED BY <2>12, <5>1, <5>2, Zenon DEF Frozen
        <4> QED BY <4>2, <4>3, Zenon
      <3> QED BY <3>1, <3>2, Zenon
    <2>14. EnrollmentAgrees'
      BY <2>9, <2>11 DEF RecoveryInv, EnrollmentAgrees, Enrolled
    <2>15. \A d \in Controllers : AttemptBooks(ctl'[d])
      BY <2>8, <2>11, Zenon DEF RecoveryInv
    <2>16. \A d \in Controllers : AuthorizedLive(ctl'[d]) =>
             LET x == ctl'[d].attempts[ctl'[d].authorized]
             IN x.action = "LostKey" => applied' = x.source
      <3>1. a.action = "LostKey" => applied' = a.source
        BY <1>5, Zenon DEF Stale
      <3> QED BY <2>9, <2>10, <2>11, <3>1 DEF RecoveryInv, LostKeySourceApplied
    <2>17. /\ gate' # None /\ now < gate'.until <=>
                /\ adopted' # None
                /\ AuthorizedLive(ctl'[adopted'])
                /\ ctl'[adopted'].config.profile = "Protected"
           /\ gate' # None /\ now < gate'.until =>
                /\ gate'.attempt = ctl'[adopted'].authorized
                /\ gate'.until = ctl'[adopted'].attempts[gate'.attempt].expiresAt
      BY <1>2, <2>8, <2>9, <2>10, <2>11, <2>13, Zenon
    <2> QED BY <2>14, <2>15, <2>16, <2>17, WithinLedger, Zenon
  <1> QED BY <1>4, <1>5, Zenon

(* Evidence a for the live attempt id: recorded, then acted on if the      *)
(* condition of its domain is met.                                         *)
LEMMA AfterEvidenceInv ==
    ASSUME RecoveryInv, TypeOK', NEW c \in Controllers, NEW id \in AttemptIds,
           NEW a \in Attempts, NEW domain, ctl[c].config # None, IsLive(ctl[c], id),
           AttemptBook(ctl[c], id, a),
           LET o == ctl[c].attempts[id] IN
             /\ a.state = o.state /\ a.epoch = o.epoch /\ a.expiresAt = o.expiresAt
             /\ a.evidenceDeadline = o.evidenceDeadline
             /\ a.action = o.action /\ a.source = o.source,
           domain = "Initiate" => /\ ctl[c].attempts[id].state = "Collecting"
                                  /\ now <= a.evidenceDeadline,
           AfterEvidence(c, id, a, domain), currentZk' = currentZk
    PROVE  RecoveryInv'
  <1> DEFINE s == ctl[c]
  <1>1. /\ s \in States /\ AttemptBooks(s)
        /\ s.attempts[id] # None /\ s.attempts[id].epoch = s.epoch
    BY Zenon DEF RecoveryInv, TypeOK, IsLive
  <1>2. UNCHANGED <<now, applied, adopted>>
    BY Zenon DEF AfterEvidence
  <1>3. CASE domain = "Initiate" /\ InitiationMet(s.config, a) /\ Promote(c, id, a)
    BY <1>1, <1>2, <1>3, PromoteInv, Zenon
  <1>4. CASE Cancel(c, id, a, TRUE)
    BY <1>1, <1>2, <1>4, CancelInv, Zenon
  <1>5. CASE ctl' = [ctl EXCEPT ![c] = Save(s, id, a)] /\ UNCHANGED gate
    <2> DEFINE t == Save(s, id, a)
    <2>1. AttemptBooks(t) /\ (AuthorizedLive(t) <=> AuthorizedLive(s))
      BY <1>1, BooksOfEvidence, Zenon
    <2>2. /\ t.config = s.config /\ t.authorized = s.authorized
          /\ \A i \in AttemptIds : i # id => t.attempts[i] = s.attempts[i]
      BY <1>1, SaveEffect, Zenon
    <2>3. /\ t.attempts[id].expiresAt = a.expiresAt /\ t.attempts[id].action = a.action
          /\ t.attempts[id].source = a.source
      BY <1>1, SavedAttempt, Zenon
    <2>4. AuthorizedLive(s) => s.authorized \in AttemptIds
      BY <1>1, Zenon DEF AuthorizedLive, States
    <2>5. ctl' = [ctl EXCEPT ![c] = t] /\ UNCHANGED gate
      BY <1>5, Zenon
    <2> HIDE DEF t
    <2>6. AuthorizedLive(t) =>
            LET i == s.authorized IN
            /\ t.authorized = i
            /\ t.attempts[i].expiresAt = s.attempts[i].expiresAt
            /\ t.attempts[i].action = s.attempts[i].action
            /\ t.attempts[i].source = s.attempts[i].source
      <3>1. CASE s.authorized = id
        BY <2>2, <2>3, <3>1, Zenon
      <3>2. CASE s.authorized # id
        BY <2>1, <2>2, <2>4, <3>2, Zenon
      <3> QED BY <3>1, <3>2, Zenon
    <2> QED BY <1>2, <2>1, <2>2, <2>5, <2>6, QuietStep, Zenon
  <1> QED BY <1>3, <1>4, <1>5, Zenon DEF AfterEvidence

LEMMA SubmitInv ==
    ASSUME RecoveryInv, TypeOK', UNCHANGED accountOnly, NEW c \in Controllers,
           NEW id \in AttemptIds, NEW domain \in {"Initiate", "Cancel"},
           \/ \E g \in Guardians : SubmitGuardian(c, id, domain, g)
           \/ SubmitZk(c, id, domain)
    PROVE  RecoveryInv'
  <1> DEFINE s == ctl[c]
             o == s.attempts[id]
  <1>1. /\ s \in States /\ AttemptBooks(s) /\ currentZk' = currentZk
        /\ s.config # None /\ IsLive(s, id)
        /\ domain = "Initiate" => o.state = "Collecting" /\ now <= o.evidenceDeadline
    BY Zenon DEF RecoveryInv, TypeOK, accountOnly, SubmitGuardian, SubmitZk, Accepts
  <1>2. /\ s.config \in Configs /\ o \in Attempts /\ o # None
        /\ o.epoch = s.epoch /\ AttemptBook(s, id, o)
    BY <1>1, Zenon DEF States, IsLive, AttemptBooks
  <1>3. ASSUME NEW g \in Guardians, SubmitGuardian(c, id, domain, g)
        PROVE  RecoveryInv'
    <2>1. CASE domain = "Initiate" /\
               AfterEvidence(c, id, [o EXCEPT !.guardians = @ \cup {g}], domain)
      <3> DEFINE a == [o EXCEPT !.guardians = @ \cup {g}]
      <3>1. /\ a \in Attempts /\ a.state = o.state /\ a.epoch = o.epoch
            /\ a.expiresAt = o.expiresAt /\ a.evidenceDeadline = o.evidenceDeadline
            /\ a.action = o.action /\ a.source = o.source
            /\ a.cancelUntil = o.cancelUntil /\ a.nullifier = o.nullifier
            /\ a.guardians = o.guardians \cup {g}
        BY <1>2, Zenon DEF Attempts
      <3>2. AfterEvidence(c, id, a, domain)
        BY <2>1, Zenon
      <3> HIDE DEF a
      <3>3. g \in s.config.guardians /\ o.state = "Collecting"
        BY <1>1, <1>3, <2>1, Zenon DEF SubmitGuardian
      <3>4. AttemptBook(s, id, a)
        BY <1>2, <3>1, <3>3, Zenon DEF AttemptBook
      <3> QED BY <1>1, <3>1, <3>2, <3>4, AfterEvidenceInv, Zenon
    <2>2. CASE domain = "Cancel" /\
               AfterEvidence(c, id, [o EXCEPT !.cancelGuardians = @ \cup {g}], domain)
      <3> DEFINE a == [o EXCEPT !.cancelGuardians = @ \cup {g}]
      <3>1. /\ a \in Attempts /\ a.state = o.state /\ a.epoch = o.epoch
            /\ a.expiresAt = o.expiresAt /\ a.evidenceDeadline = o.evidenceDeadline
            /\ a.action = o.action /\ a.source = o.source
            /\ a.cancelUntil = o.cancelUntil /\ a.nullifier = o.nullifier
            /\ a.guardians = o.guardians
        BY <1>2, Zenon DEF Attempts
      <3>2. AfterEvidence(c, id, a, domain)
        BY <2>2, Zenon
      <3> HIDE DEF a
      <3>3. AttemptBook(s, id, a)
        BY <1>2, <3>1, Zenon DEF AttemptBook, InitiationMet
      <3> QED BY <1>1, <3>1, <3>2, <3>3, AfterEvidenceInv, Zenon
    <2> QED BY <1>3, <2>1, <2>2, Zenon DEF SubmitGuardian
  <1>4. ASSUME SubmitZk(c, id, domain)
        PROVE  RecoveryInv'
    <2>1. CASE domain = "Initiate" /\
               AfterEvidence(c, id, [o EXCEPT !.nullifier = s.config.zk], domain)
      <3> DEFINE a == [o EXCEPT !.nullifier = s.config.zk]
      <3>1. /\ a \in Attempts /\ a.state = o.state /\ a.epoch = o.epoch
            /\ a.expiresAt = o.expiresAt /\ a.evidenceDeadline = o.evidenceDeadline
            /\ a.action = o.action /\ a.source = o.source
            /\ a.cancelUntil = o.cancelUntil /\ a.nullifier = s.config.zk
            /\ a.guardians = o.guardians
        BY <1>2, Zenon DEF Attempts, Configs
      <3>2. AfterEvidence(c, id, a, domain)
        BY <2>1, Zenon
      <3> HIDE DEF a
      <3>3. o.state = "Collecting"
        BY <1>1, <2>1, Zenon
      <3>4. AttemptBook(s, id, a)
        BY <1>2, <3>1, <3>3, Zenon DEF AttemptBook
      <3> QED BY <1>1, <3>1, <3>2, <3>4, AfterEvidenceInv, Zenon
    <2>2. CASE domain = "Cancel" /\
               AfterEvidence(c, id, [o EXCEPT !.cancelZk = TRUE], domain)
      <3> DEFINE a == [o EXCEPT !.cancelZk = TRUE]
      <3>1. /\ a \in Attempts /\ a.state = o.state /\ a.epoch = o.epoch
            /\ a.expiresAt = o.expiresAt /\ a.evidenceDeadline = o.evidenceDeadline
            /\ a.action = o.action /\ a.source = o.source
            /\ a.cancelUntil = o.cancelUntil /\ a.nullifier = o.nullifier
            /\ a.guardians = o.guardians
        BY <1>2, Zenon DEF Attempts
      <3>2. AfterEvidence(c, id, a, domain)
        BY <2>2, Zenon
      <3> HIDE DEF a
      <3>3. AttemptBook(s, id, a)
        BY <1>2, <3>1, Zenon DEF AttemptBook, InitiationMet
      <3> QED BY <1>1, <3>1, <3>2, <3>3, AfterEvidenceInv, Zenon
    <2> QED BY <1>4, <2>1, <2>2, Zenon DEF SubmitZk
  <1> QED BY <1>3, <1>4, Zenon

(* Steps that touch neither attempts, configuration nor counters.          *)
LEMMA SameBooksInv ==
    ASSUME RecoveryInv, TypeOK', NEW c \in Controllers, NEW t,
           ctl' = [ctl EXCEPT ![c] = t],
           t.config = ctl[c].config, t.epoch = ctl[c].epoch,
           t.nextAttempt = ctl[c].nextAttempt,
           t.invalidateBelow = ctl[c].invalidateBelow,
           t.authorized = ctl[c].authorized, t.attempts = ctl[c].attempts,
           UNCHANGED <<now, applied, adopted, gate, currentZk>>
    PROVE  RecoveryInv'
  <1>1. ctl[c] \in States /\ t \in States /\ AttemptBooks(ctl[c])
    BY Zenon DEF RecoveryInv, TypeOK
  <1>2. AttemptBooks(t) /\ (AuthorizedLive(t) <=> AuthorizedLive(ctl[c]))
    BY <1>1, BooksOfSame, Zenon
  <1> QED BY <1>1, <1>2, QuietStep, Zenon

LEMMA RecordApprovalInv ==
    ASSUME RecoveryInv, TypeOK', UNCHANGED accountOnly, NEW c \in Controllers,
           NEW by, NEW subject, NEW until, RecordApproval(c, by, subject, until)
    PROVE  RecoveryInv'
  <1> DEFINE x == ctl[c].approvals \cup
                    {[statement |-> ChangeStatement(ctl[c], subject, until), by |-> by]}
             t == [ctl[c] EXCEPT !.approvals = x]
  <1>1. ctl' = [ctl EXCEPT ![c] = t] /\ UNCHANGED <<now, accountView>>
    BY Zenon DEF RecordApproval, RecoveryInv, TypeOK, States
  <1>2. /\ t.config = ctl[c].config /\ t.epoch = ctl[c].epoch
        /\ t.nextAttempt = ctl[c].nextAttempt
        /\ t.invalidateBelow = ctl[c].invalidateBelow
        /\ t.authorized = ctl[c].authorized /\ t.attempts = ctl[c].attempts
    BY DEF RecoveryInv, TypeOK, States
  <1> HIDE DEF t
  <1> QED BY <1>1, <1>2, SameBooksInv, Zenon DEF accountView, accountOnly

LEMMA PublishBaselineInv ==
    ASSUME RecoveryInv, TypeOK', UNCHANGED accountOnly, NEW c \in Controllers,
           PublishBaseline(c)
    PROVE  RecoveryInv'
  <1> DEFINE x == ctl[c].baselines \cup {ctl[c].config.baseline}
             t == [ctl[c] EXCEPT !.baselines = x]
  <1>1. ctl' = [ctl EXCEPT ![c] = t] /\ UNCHANGED <<now, accountView>>
    BY Zenon DEF PublishBaseline, RecoveryInv, TypeOK, States
  <1>2. /\ t.config = ctl[c].config /\ t.epoch = ctl[c].epoch
        /\ t.nextAttempt = ctl[c].nextAttempt
        /\ t.invalidateBelow = ctl[c].invalidateBelow
        /\ t.authorized = ctl[c].authorized /\ t.attempts = ctl[c].attempts
    BY DEF RecoveryInv, TypeOK, States
  <1> HIDE DEF t
  <1> QED BY <1>1, <1>2, SameBooksInv, Zenon DEF accountView, accountOnly

(* Only a record that was never authorized is temporary, so an eviction    *)
(* never takes the authorized one.                                         *)
LEMMA EvictCollectingInv ==
    ASSUME RecoveryInv, TypeOK', UNCHANGED accountOnly, NEW c \in Controllers,
           NEW id \in AttemptIds, EvictCollecting(c, id)
    PROVE  RecoveryInv'
  <1> DEFINE s == ctl[c]
             kept == [s.attempts EXCEPT ![id] = None]
             t == [s EXCEPT !.attempts = kept]
  <1>1. s \in States /\ AttemptBooks(s)
    BY Zenon DEF RecoveryInv, TypeOK
  <1>2. ctl' = [ctl EXCEPT ![c] = t] /\ UNCHANGED <<now, accountView>>
    BY <1>1, Zenon DEF EvictCollecting, RecoveryInv, TypeOK, States
  <1>3. /\ t.config = s.config /\ t.epoch = s.epoch /\ t.nextAttempt = s.nextAttempt
        /\ t.invalidateBelow = s.invalidateBelow /\ t.authorized = s.authorized
        /\ t.attempts = kept
    BY <1>1, Zenon DEF States
  <1>4. kept[id] = None /\ \A i \in AttemptIds : i # id => kept[i] = s.attempts[i]
    BY <1>1, Zenon DEF States
  <1>5. s.authorized # id
    BY <1>1, DataAssumption DEF EvictCollecting, AttemptBooks, AttemptIds
  <1>6. s.authorized # None => s.authorized \in AttemptIds
                                /\ kept[s.authorized] = s.attempts[s.authorized]
    BY <1>1, <1>4, <1>5, Zenon DEF States
  <1> HIDE DEF t, kept
  <1>7. AuthorizedLive(t) <=> AuthorizedLive(s)
    BY <1>3, <1>6, Zenon DEF AuthorizedLive, IsLive
  <1>8. \A i \in AttemptIds : t.attempts[i] # None => AttemptBook(t, i, t.attempts[i])
    <2> SUFFICES ASSUME NEW i \in AttemptIds, t.attempts[i] # None
                 PROVE  AttemptBook(t, i, t.attempts[i])
      BY Zenon
    <2>1. t.attempts[i] = s.attempts[i]
      BY <1>3, <1>4, Zenon
    <2>2. AttemptBook(s, i, s.attempts[i])
      BY <1>1, <2>1, Zenon DEF AttemptBooks
    <2> QED BY <1>3, <2>1, <2>2, Zenon DEF AttemptBook
  <1>9. AttemptBooks(t)
    BY <1>1, <1>3, <1>6, <1>7, <1>8, Zenon DEF AttemptBooks
  <1>10. s.authorized # None => t.attempts[s.authorized] = s.attempts[s.authorized]
    BY <1>3, <1>6, Zenon
  <1>11. AuthorizedLive(t) => s.authorized # None
    BY <1>3, Zenon DEF AuthorizedLive
  <1> QED BY <1>2, <1>3, <1>7, <1>9, <1>10, <1>11, QuietStep, Zenon DEF accountView, accountOnly

-----------------------------------------------------------------------------
(* The account's steps.                                                    *)

LEMMA EnforceOnlyInv ==
    ASSUME RecoveryInv, TypeOK', NEW doc, EnforceOnly(doc)
    PROVE  RecoveryInv'
  <1> DEFINE t == MarkCompleting(ctl[adopted])
  <1>1. RecoveryAuthorized(doc) /\ UNCHANGED <<now, accountView, accountOnly>>
    BY Zenon DEF EnforceOnly
  <1>2. ctl' = [ctl EXCEPT ![adopted] = t]
    BY <1>1, MarkedBooks, Zenon DEF EnforceOnly, RecoveryInv, TypeOK
  <1> HIDE DEF t
  <1> QED BY <1>1, <1>2, MarkedBooks, SameBooksInv, Zenon DEF accountView, accountOnly, t

(* apply_doc leaves no authorized live attempt and no freeze in force, and *)
(* the document's recovery member enrolled at the controller it names.     *)
LEMMA ApplyInv ==
    ASSUME RecoveryInv, TypeOK', NEW st \in [Controllers -> States],
           \A c \in Controllers :
             /\ AttemptBooks(st[c])
             /\ AuthorizedLive(st[c]) <=> AuthorizedLive(ctl[c])
             /\ st[c].config = ctl[c].config,
           NEW doc \in Docs, NEW until, NEW expected, Apply(st, doc, until, expected)
    PROVE  RecoveryInv'
  <1> DEFINE named == IF doc.recovery = None THEN None ELSE doc.recovery.controller
  <1>1. /\ adopted' = named /\ applied' = doc /\ currentZk' = ZkOf(doc.recovery)
        /\ now' = now
    BY Zenon DEF Apply
  <1>2. PICK old \in Outcomes, new \in Outcomes :
          /\ SyncBoth(st, doc, until, old, new)
          /\ IF old = "Completed" THEN gate' = None ELSE gate' = gate
    BY Zenon DEF Apply, CompleteRecovery
  <1>3. doc # None /\ named \in Controllers \cup {None}
    BY DataAssumption, Zenon DEF Docs, Configs
  <1>4. adopted \in Controllers \cup {None} /\ None \notin Controllers
    BY DataAssumption, Zenon DEF RecoveryInv, TypeOK
  <1>5. ASSUME NEW c \in Controllers
        PROVE  /\ AttemptBooks(ctl'[c]) /\ ~ AuthorizedLive(ctl'[c])
               /\ ctl'[c].config = IF c = named THEN doc.recovery ELSE None
    <2>1. c = named <=> doc.recovery # None /\ doc.recovery.controller = c
      BY <1>4, Zenon
    <2>2. st[c] \in States
      BY Zenon
    <2>3. CASE c = adopted
      <3>1. RcvSync(st[c], c, doc, until, old) /\ ctl'[c] = Synced(st[c], doc, old)
        BY <1>2, <1>4, <2>3, Zenon DEF SyncBoth
      <3> QED BY <2>1, <2>2, <3>1, BooksOfSynced
    <2>4. CASE c # adopted /\ c = named
      <3>1. RcvSync(st[c], c, doc, until, new) /\ ctl'[c] = Synced(st[c], doc, new)
        BY <1>2, <1>4, <2>4, Zenon DEF SyncBoth
      <3> QED BY <2>1, <2>2, <3>1, BooksOfSynced
    <2>5. CASE c # adopted /\ c # named
      <3>1. ctl'[c] = st[c]
        BY <1>2, <2>5, Zenon DEF SyncBoth
      <3>2. st[c].config = None
        BY <2>5, Zenon DEF RecoveryInv, EnrollmentAgrees
      <3> QED BY <2>2, <2>5, <3>1, <3>2, NoConfigNotLive, Zenon
    <2> QED BY <2>3, <2>4, <2>5, Zenon
  <1>6. ~ (gate' # None /\ now < gate'.until)
    <2>1. CASE old = "Completed"
      BY <1>2, <2>1, Zenon
    <2>2. CASE old # "Completed"
      <3>1. adopted # None => ~ AuthorizedLive(ctl[adopted])
        BY <1>2, <1>4, <2>2, Zenon DEF SyncBoth, RcvSync
      <3>2. ~ Frozen
        BY <3>1, Zenon DEF RecoveryInv, FreezeMirror
      <3> QED BY <1>2, <2>2, <3>2, Zenon DEF Frozen
    <2> QED BY <2>1, <2>2, Zenon
  <1>7. EnrollmentAgrees'
    BY <1>1, <1>3, <1>5, Zenon DEF EnrollmentAgrees, Enrolled
  <1>8. adopted' # None => ~ AuthorizedLive(ctl'[adopted'])
    BY <1>1, <1>3, <1>5, Zenon
  <1> HIDE DEF named
  <1> QED BY <1>1, <1>5, <1>6, <1>7, <1>8, WithinLedger, Zenon

LEMMA ApplyDocInv ==
    ASSUME RecoveryInv, TypeOK', NEW doc \in Docs, NEW until, NEW expected,
           ApplyDoc(doc, until, expected)
    PROVE  RecoveryInv'
  <1>1. ctl \in [Controllers -> States] /\ \A c \in Controllers : AttemptBooks(ctl[c])
    BY Zenon DEF RecoveryInv, TypeOK
  <1>2. Apply(ctl, doc, until, expected)
    BY Zenon DEF ApplyDoc
  <1> QED BY <1>1, <1>2, ApplyInv, Zenon

LEMMA CompleteDocInv ==
    ASSUME RecoveryInv, TypeOK', NEW doc \in Docs, NEW until, NEW expected,
           CompleteDoc(doc, until, expected)
    PROVE  RecoveryInv'
  <1> DEFINE t == MarkCompleting(ctl[adopted])
             st == [ctl EXCEPT ![adopted] = t]
  <1>1. /\ ctl \in [Controllers -> States] /\ \A c \in Controllers : AttemptBooks(ctl[c])
        /\ adopted \in Controllers /\ RecoveryAuthorized(doc)
    BY MarkedBooks, Zenon DEF RecoveryInv, TypeOK, CompleteDoc
  <1>2. Apply(st, doc, until, expected)
    BY <1>1, Zenon DEF CompleteDoc
  <1>3. /\ t \in States
        /\ t.config = ctl[adopted].config /\ t.epoch = ctl[adopted].epoch
        /\ t.nextAttempt = ctl[adopted].nextAttempt
        /\ t.invalidateBelow = ctl[adopted].invalidateBelow
        /\ t.authorized = ctl[adopted].authorized
        /\ t.attempts = ctl[adopted].attempts
    BY <1>1, MarkedBooks, Zenon
  <1> HIDE DEF t
  <1>4. AttemptBooks(t) /\ (AuthorizedLive(t) <=> AuthorizedLive(ctl[adopted]))
    BY <1>1, <1>3, BooksOfSame, Zenon
  <1>5. /\ st \in [Controllers -> States] /\ st[adopted] = t
        /\ \A c \in Controllers : c # adopted => st[c] = ctl[c]
    BY <1>1, <1>3, Zenon
  <1> HIDE DEF st
  <1>6. \A c \in Controllers :
          /\ AttemptBooks(st[c])
          /\ AuthorizedLive(st[c]) <=> AuthorizedLive(ctl[c])
          /\ st[c].config = ctl[c].config
    BY <1>1, <1>3, <1>4, <1>5, Zenon
  <1> QED BY <1>2, <1>5, <1>6, ApplyInv, Zenon

LEMMA CancelRecoveryInv ==
    ASSUME RecoveryInv, TypeOK', NEW id \in AttemptIds, CancelRecovery(id)
    PROVE  RecoveryInv'
  <1> DEFINE s == ctl[adopted]
             a == s.attempts[id]
  <1>1. /\ adopted \in Controllers /\ s \in States /\ AttemptBooks(s)
        /\ s.config # None /\ IsLive(s, id) /\ Cancel(adopted, id, a, FALSE)
        /\ UNCHANGED <<now, applied, adopted, currentZk>>
    BY Zenon DEF RecoveryInv, TypeOK, CancelRecovery, RcvCancel, accountOnly
  <1>2. a \in Attempts /\ AttemptBook(s, id, a)
    BY <1>1, Zenon DEF AttemptBooks, IsLive, States
  <1> QED BY <1>1, <1>2, CancelInv, Zenon

(* An executed upgrade retires the epoch it was scheduled under.           *)
LEMMA ExecuteUpgradeInv ==
    ASSUME RecoveryInv, TypeOK', NEW id, ExecuteUpgrade(id)
    PROVE  RecoveryInv'
  <1>1. UNCHANGED <<now, applied, adopted, gate, currentZk>>
    BY Zenon DEF ExecuteUpgrade, accountView
  <1>2. CASE adopted = None /\ UNCHANGED ctl
    BY <1>1, <1>2, Zenon DEF RecoveryInv, EnrollmentAgrees, Enrolled, FreezeMirror, Frozen,
         LostKeySourceApplied, AttemptBooks, AuthorizedLive, IsLive
  <1>3. CASE /\ adopted # None
             /\ UpgradeExecuteAllowed(ctl[adopted], pending.epoch)
             /\ ctl' = [ctl EXCEPT ![adopted] = BumpEpoch(@)]
    <2> DEFINE s == ctl[adopted]
               t == BumpEpoch(s)
    <2>1. adopted \in Controllers /\ s \in States /\ AttemptBooks(s) /\ ~ AuthorizedLive(s)
      BY <1>3, Zenon DEF RecoveryInv, TypeOK, UpgradeExecuteAllowed
    <2>2. ctl' = [ctl EXCEPT ![adopted] = t]
      BY <1>3, <2>1, Zenon DEF RecoveryInv, TypeOK
    <2>3. /\ t \in States /\ t.config = s.config /\ t.epoch = s.epoch + 1
          /\ t.nextAttempt = s.nextAttempt /\ t.invalidateBelow = s.invalidateBelow
          /\ t.authorized = s.authorized /\ t.attempts = s.attempts
      BY <2>1 DEF BumpEpoch, States
    <2> HIDE DEF t
    <2>4. AttemptBooks(t) /\ ~ AuthorizedLive(t)
      BY <2>1, <2>3, BooksOfLaterEpoch, Zenon
    <2> QED BY <1>1, <2>1, <2>2, <2>3, <2>4, QuietStep, Zenon
  <1> QED BY <1>2, <1>3, Zenon DEF ExecuteUpgrade

LEMMA UntouchedInv ==
    ASSUME RecoveryInv, TypeOK', UNCHANGED <<now, ctl, applied, adopted, gate, currentZk>>
    PROVE  RecoveryInv'
  BY ZenonT(40) DEF RecoveryInv, EnrollmentAgrees, Enrolled, FreezeMirror, Frozen,
         LostKeySourceApplied, AttemptBooks, AuthorizedLive, IsLive

LEMMA ControllerStepInv ==
    ASSUME RecoveryInv, TypeOK', NEW c \in Controllers, ControllerStep(c)
    PROVE  RecoveryInv'
  <1>1. ASSUME NEW action \in {"LostKey", "Compromise"},
               NEW keys \in [Slots -> NewKeys \cup {None}], NEW zk \in Rotations \cup {None},
               Begin(c, action, [keys |-> keys, zk |-> zk]), UNCHANGED accountOnly
        PROVE  RecoveryInv'
    <2>1. [keys |-> keys, zk |-> zk] \in Replacements
      BY AccountAssumption, Zenon DEF Replacements
    <2> QED BY <1>1, <2>1, BeginInv, Zenon
  <1>2. ASSUME NEW id \in AttemptIds, NEW domain \in {"Initiate", "Cancel"},
               \/ \E g \in Guardians : SubmitGuardian(c, id, domain, g)
               \/ SubmitZk(c, id, domain),
               UNCHANGED accountOnly
        PROVE  RecoveryInv'
    BY <1>2, SubmitInv, Zenon
  <1>3. ASSUME NEW subject, NEW until, UNCHANGED accountOnly,
               \/ \E g \in Guardians : ApproveChange(c, subject, until, g)
               \/ SubmitZkChange(c, subject, until)
        PROVE  RecoveryInv'
    BY <1>3, RecordApprovalInv, Zenon DEF ApproveChange, SubmitZkChange
  <1>4. ASSUME PublishBaseline(c), UNCHANGED accountOnly PROVE RecoveryInv'
    BY <1>4, PublishBaselineInv, Zenon
  <1>5. ASSUME NEW id \in AttemptIds, EvictCollecting(c, id), UNCHANGED accountOnly
        PROVE  RecoveryInv'
    BY <1>5, EvictCollectingInv, Zenon
  <1> QED BY <1>1, <1>2, <1>3, <1>4, <1>5, Zenon DEF ControllerStep

LEMMA AccountStepInv ==
    ASSUME RecoveryInv, TypeOK', AccountStep
    PROVE  RecoveryInv'
  <1>1. Submittable \subseteq Docs
    BY SubmittableType, Zenon DEF RecoveryInv
  <1>2. ASSUME NEW doc \in Submittable, NEW until, NEW expected,
               ApplyDoc(doc, until, expected) \/ CompleteDoc(doc, until, expected)
        PROVE  RecoveryInv'
    BY <1>1, <1>2, ApplyDocInv, CompleteDocInv, Zenon
  <1>3. ASSUME NEW doc, EnforceOnly(doc) PROVE RecoveryInv'
    BY <1>3, EnforceOnlyInv, Zenon
  <1>4. ASSUME NEW id \in AttemptIds, CancelRecovery(id) PROVE RecoveryInv'
    BY <1>4, CancelRecoveryInv, Zenon
  <1>5. ASSUME NEW id, ExecuteUpgrade(id) PROVE RecoveryInv'
    BY <1>5, ExecuteUpgradeInv, Zenon
  <1>6. ASSUME NEW w, NEW until, ScheduleUpgrade(w, until) PROVE RecoveryInv'
    BY <1>6, UntouchedInv, Zenon DEF ScheduleUpgrade, accountView
  <1>7. ASSUME CancelUpgrade PROVE RecoveryInv'
    BY <1>7, UntouchedInv, Zenon DEF CancelUpgrade, accountView
  <1> QED BY <1>2, <1>3, <1>4, <1>5, <1>6, <1>7, Zenon DEF AccountStep

LEMMA InitInv ==
    ASSUME Init PROVE RecoveryInv
  <1>1. TypeOK
    BY InitType, Zenon
  <1>2. \A c \in Controllers : ctl[c] = EmptyState
    BY Zenon DEF Init
  <1>3. \A c \in Controllers : AttemptBooks(ctl[c]) /\ ~ AuthorizedLive(ctl[c])
    <2>1. /\ EmptyState.authorized = None
          /\ EmptyState.invalidateBelow <= EmptyState.nextAttempt
          /\ \A id \in AttemptIds : EmptyState.attempts[id] = None
      BY DEF EmptyState
    <2>2. ~ AuthorizedLive(EmptyState)
      BY <2>1, Zenon DEF AuthorizedLive
    <2>3. AttemptBooks(EmptyState)
      BY <2>1, <2>2, Zenon DEF AttemptBooks
    <2> QED BY <1>2, <2>2, <2>3, Zenon
  <1>4. EnrollmentAgrees
    BY <1>2, DataAssumption, Zenon DEF Init, EnrollmentAgrees, Enrolled, EmptyState, ZkOf
  <1>5. FreezeMirror /\ LostKeySourceApplied
    BY <1>3, Zenon DEF Init, FreezeMirror, LostKeySourceApplied, Frozen
  <1> QED BY <1>1, <1>3, <1>4, <1>5, Zenon DEF RecoveryInv

-----------------------------------------------------------------------------

(* The inductive invariant holds of every behaviour: for any controllers,  *)
(* guardians, documents and bounds, no interleaving of the controllers'    *)
(* entry points with apply_doc, upgrades and ledger closes breaks it.      *)
THEOREM RecoveryInvariant == Spec => []RecoveryInv
  <1>1. ASSUME RecoveryInv, [Next]_vars PROVE RecoveryInv'
    <2>1. TypeOK'
      <3>1. TypeOK
        BY <1>1, Zenon DEF RecoveryInv
      <3>2. CASE CloseLedger
        BY <3>1, <3>2, DataAssumption
        DEF CloseLedger, TypeOK, accountView, accountOnly, Ledgers
      <3>3. CASE UNCHANGED vars
        BY <3>1, <3>3, Zenon DEF vars, TypeOK, accountView, accountOnly
      <3> QED BY <1>1, <3>1, <3>2, <3>3, ControllerStepType, AccountStepType, Zenon DEF Next
    <2>2. CASE UNCHANGED vars
      BY <1>1, <2>1, <2>2, UntouchedInv, Zenon DEF vars, accountView, accountOnly
    <2> QED BY <1>1, <2>1, <2>2, CloseLedgerInv, ControllerStepInv, AccountStepInv, Zenon DEF Next
  <1> QED BY <1>1, InitInv, PTL DEF Spec

(* The account and its controllers never disagree on what is enrolled      *)
(* (apply and rcv_sync).                                                   *)
THEOREM EnrollmentAlwaysAgrees == Spec => []EnrollmentAgrees
  <1>1. RecoveryInv => EnrollmentAgrees
    BY Zenon DEF RecoveryInv
  <1> QED BY <1>1, RecoveryInvariant, PTL

(* The account's freeze mirror is exact at every ledger (rcv_gate, driven  *)
(* by promote and cancel; lifted by complete_recovery).                    *)
THEOREM FreezeMirrorExact == Spec => []FreezeMirror
  <1>1. RecoveryInv => FreezeMirror
    BY Zenon DEF RecoveryInv
  <1> QED BY <1>1, RecoveryInvariant, PTL

(* A lost-key attempt is authorized only while the account still runs the  *)
(* document it started from (promote's source check, rcv_sync's refusal).  *)
THEOREM LostKeySourceStaysApplied == Spec => []LostKeySourceApplied
  <1>1. RecoveryInv => LostKeySourceApplied
    BY Zenon DEF RecoveryInv
  <1> QED BY <1>1, RecoveryInvariant, PTL

(* No attempt is live beside an authorized one (promote raises             *)
(* invalidate_below, is_live compares it).                                 *)
THEOREM SiblingsDie == Spec => []NoLiveSibling
  <1>1. RecoveryInv => NoLiveSibling
    <2> SUFFICES ASSUME RecoveryInv, NEW c \in Controllers, AuthorizedLive(ctl[c]),
                        NEW id \in AttemptIds, IsLive(ctl[c], id)
                 PROVE  id = ctl[c].authorized
      BY Zenon DEF NoLiveSibling
    <2> DEFINE s == ctl[c]
    <2>1. s \in States /\ AttemptBooks(s)
      BY Zenon DEF RecoveryInv, TypeOK
    <2>2. s.invalidateBelow = s.nextAttempt /\ s.nextAttempt \in Nat /\ id \in Nat
      BY <2>1, DataAssumption DEF AttemptBooks, States, AttemptIds
    <2>3. id < s.nextAttempt
      BY <2>1, Zenon DEF AttemptBooks, AttemptBook, IsLive
    <2> QED BY <2>2, <2>3 DEF IsLive
  <1> QED BY <1>1, RecoveryInvariant, PTL

(* What an authorized attempt collected satisfies the configuration that   *)
(* is enrolled now (initiation_met at promotion, epochs afterwards).       *)
THEOREM EvidenceMatchesEnrollment == Spec => []AuthorizedEvidence
  <1>1. RecoveryInv => AuthorizedEvidence
    <2> SUFFICES ASSUME RecoveryInv, NEW c \in Controllers, AuthorizedLive(ctl[c])
                 PROVE  LET s == ctl[c]
                            a == s.attempts[s.authorized]
                        IN /\ s.config # None
                           /\ s.config.mode # "ZkOnly" =>
                                /\ a.guardians \subseteq s.config.guardians
                                /\ Cardinality(a.guardians) >= s.config.quorum
                           /\ s.config.mode # "GuardianOnly" => a.nullifier = s.config.zk
      BY Zenon DEF AuthorizedEvidence
    <2> DEFINE s == ctl[c]
               a == s.attempts[s.authorized]
    <2>1. s \in States /\ AttemptBooks(s)
      BY Zenon DEF RecoveryInv, TypeOK
    <2>2. s.authorized \in AttemptIds /\ a # None /\ a.epoch = s.epoch
          /\ a.state = "Authorized"
      BY <2>1, Zenon DEF AuthorizedLive, IsLive, AttemptBooks, States
    <2>3. AttemptBook(s, s.authorized, a)
      BY <2>1, <2>2, Zenon DEF AttemptBooks
    <2> QED BY <2>2, <2>3, Zenon DEF AttemptBook, InitiationMet, HasGuardians, HasZk
  <1> QED BY <1>1, RecoveryInvariant, PTL

(* A live attempt can be cancelled for as long as it is live (cancel_until *)
(* is fixed at begin, expires_at only at promote).                         *)
THEOREM CancelWindowAlwaysCovers == Spec => []CancelWindowCovers
  <1>1. RecoveryInv => CancelWindowCovers
    <2> SUFFICES ASSUME RecoveryInv, NEW c \in Controllers, NEW id \in AttemptIds,
                        IsLive(ctl[c], id)
                 PROVE  LET a == ctl[c].attempts[id]
                        IN /\ now <= a.cancelUntil
                           /\ a.state = "Authorized" => a.expiresAt <= a.cancelUntil
      BY Zenon DEF CancelWindowCovers
    <2> DEFINE s == ctl[c]
               a == s.attempts[id]
    <2>1. s \in States /\ AttemptBooks(s) /\ now \in Nat
      BY DEF RecoveryInv, TypeOK, Ledgers
    <2>2. a \in Attempts /\ a.epoch = s.epoch
      BY <2>1, Zenon DEF IsLive, States
    <2>3. AttemptBook(s, id, a)
      BY <2>1, Zenon DEF AttemptBooks, IsLive
    <2>4. /\ s.config \in Configs
          /\ a.cancelUntil = a.evidenceDeadline + s.config.delay + s.config.expiry
          /\ a.state = "Authorized" => a.expiresAt <= a.cancelUntil
      BY <2>1, <2>2, <2>3, ZenonT(40) DEF AttemptBook, CancelUntil, States
    <2>5. /\ a.evidenceDeadline \in Nat /\ a.expiresAt \in Nat
          /\ s.config.delay \in Nat /\ s.config.expiry \in Nat
      BY <2>2, <2>4, SMTT(20) DEF Attempts, Ledgers, Configs
    <2>6. now <= a.evidenceDeadline \/ (a.state = "Authorized" /\ now < a.expiresAt)
      BY Zenon DEF IsLive
    <2> QED BY <2>1, <2>4, <2>5, <2>6, SMTT(30)
  <1> QED BY <1>1, RecoveryInvariant, PTL
=============================================================================
