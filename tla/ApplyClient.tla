---------------------------- MODULE ApplyClient -----------------------------
(***************************************************************************)
(* applyDocument of perch-js over oneTransactionBackend, against a chain   *)
(* that others use too and an RPC that may answer from an older ledger.    *)
(*                                                                         *)
(* chain is the history of the account: its revision and its freeze at     *)
(* each ledger. The client's own progress is one record; a read answers    *)
(* from any ledger up to the last.                                         *)
(***************************************************************************)
EXTENDS Integers, FiniteSets, Sequences

CONSTANTS
    Unset,
    MaxAttempts,       \* options.maxAttempts
    SnapshotAttempts,  \* attempts of readSnapshot
    FinalReadAttempts, \* FINAL_READ_ATTEMPTS
    MaxLedger,         \* ledgers of a behaviour
    Freezes            \* TRUE when others may freeze the account

ASSUME ApplyAssumption ==
    /\ {MaxAttempts, SnapshotAttempts, FinalReadAttempts, MaxLedger} \subseteq Nat \ {0}
    /\ Freezes \in BOOLEAN

VARIABLES
    chain,    \* sequence of [revision, until]: the account at each ledger
    pool,     \* the account's signed transactions, not yet included
    applied,  \* [over, ledger] of each of them that executed
    op        \* the operation

clientVars == <<chain, pool, applied, op>>

Latest == Len(chain)

Now == chain[Latest]

Frozen(account, ledger) == ledger < account.until

ClientInit ==
    /\ chain = <<[revision |-> 0, until |-> 0]>>
    /\ pool = {} /\ applied = {}
    /\ op = [pc |-> "idle", n |-> 1, tries |-> 1, at |-> 1, seen |-> 0, stale |-> FALSE, aborted |-> FALSE,
             revision |-> Unset, until |-> 0, tx |-> Unset, confirmedAt |-> 0, landed |-> FALSE, result |-> Unset]

(***************************************************************************)
(* The chain. A transaction executes only at the revision it names and     *)
(* while the account is not frozen; one that does not is dropped.          *)
(***************************************************************************)
Close(account) == Latest < MaxLedger /\ chain' = Append(chain, account)

Executes(tx) == tx.expected = Now.revision /\ ~Frozen(Now, Latest + 1)

Include(tx) ==
    /\ pool' = pool \ {tx}
    /\ IF Executes(tx)
       THEN /\ Close([Now EXCEPT !.revision = @ + 1])
            /\ applied' = applied \cup {[tx |-> tx, over |-> Now.revision, ledger |-> Latest + 1]}
       ELSE UNCHANGED <<chain, applied>>
    /\ UNCHANGED op

Others ==
    /\ \/ Close([Now EXCEPT !.revision = @ + 1])
       \/ Freezes /\ Close([Now EXCEPT !.until = Latest + 3])
       \/ Close(Now)
    /\ UNCHANGED <<pool, applied, op>>

(***************************************************************************)
(* The end of an attempt. onError may ask for another from a fresh read.   *)
(***************************************************************************)
(* Mutant: that a step landed does not keep the operation from starting    *)
(* again.                                                                  *)
FailsLanded(o) ==
    \/ op' = [o EXCEPT !.pc = "failed"]
    \/ /\ ~o.aborted /\ o.n < MaxAttempts
       /\ op' = [o EXCEPT !.pc = "read", !.n = @ + 1, !.tries = 1, !.at = 1, !.stale = FALSE,
                          !.revision = Unset, !.tx = Unset]

Fails(o) ==
    \/ op' = [o EXCEPT !.pc = "failed"]
    \/ /\ ~o.aborted /\ ~o.landed /\ o.n < MaxAttempts
       /\ op' = [o EXCEPT !.pc = "read", !.n = @ + 1, !.tries = 1, !.at = 1, !.stale = FALSE,
                          !.revision = Unset, !.tx = Unset]

(* enter: an aborted operation starts no further phase.                    *)
Enter(o, pc) == IF o.aborted THEN Fails(o) ELSE op' = [o EXCEPT !.pc = pc]

ClientStep == UNCHANGED <<chain, pool, applied>>

(* applyDocument is called.                                                *)
Begin == op.pc = "idle" /\ op' = [op EXCEPT !.pc = "read"] /\ ClientStep

(***************************************************************************)
(* readSnapshot: configuration, capabilities, limits, then the revision.   *)
(***************************************************************************)
Observe(o, ledger) ==
    IF ledger < o.seen THEN [o EXCEPT !.stale = TRUE] ELSE [o EXCEPT !.seen = ledger]

Again(o) ==
    IF o.tries < SnapshotAttempts
    THEN op' = [o EXCEPT !.tries = @ + 1, !.at = 1, !.stale = FALSE]
    ELSE Fails(o)

SnapshotRead(ledger) ==
    /\ op.pc = "read" /\ ClientStep
    /\ LET o == Observe(op, ledger)
           account == chain[ledger]
       IN  CASE o.at = 1 -> op' = [o EXCEPT !.at = 2, !.revision = account.revision, !.until = account.until]
             [] o.at \in {2, 3} -> op' = [o EXCEPT !.at = @ + 1]
             [] OTHER ->
                    IF o.stale \/ account.revision # o.revision THEN Again(o)
                    ELSE IF Frozen(o, o.seen) THEN Fails(o)
                    ELSE Enter(o, "authorize")

(***************************************************************************)
(* One step: prepare, fee, the pre-sign check, sign, submit, confirm.      *)
(***************************************************************************)
(* A read that throws, a capability or compiler that does not fit, the     *)
(* document over the limits, no rule to sign with, a simulation that       *)
(* fails, signers that refuse.                                             *)
Refuse == op.pc \in {"read", "authorize", "sign", "final"} /\ ClientStep /\ Fails(op)

DeclineFee == op.pc = "authorize" /\ ClientStep /\ Fails([op EXCEPT !.aborted = TRUE])

(* Mutant: the revision is not read again before signing.                  *)
AssertSignableNever(ledger) ==
    /\ op.pc = "authorize" /\ ClientStep
    /\ op' = [Observe(op, ledger) EXCEPT !.pc = "sign"]

AssertSignable(ledger) ==
    /\ op.pc = "authorize" /\ ClientStep
    /\ IF \/ ledger < op.seen \/ chain[ledger].revision # op.revision \/ Frozen(chain[ledger], ledger)
       THEN Fails(IF ledger < op.seen THEN op ELSE Observe(op, ledger))
       ELSE op' = [Observe(op, ledger) EXCEPT !.pc = "sign"]

Sign ==
    /\ op.pc = "sign" /\ ClientStep
    /\ Enter([op EXCEPT !.tx = [expected |-> op.revision, attempt |-> op.n, checked |-> op.seen]], "submit")

(* What submit throws says nothing of whether the transaction got through. *)
Submit ==
    /\ op.pc = "submit" /\ UNCHANGED <<chain, applied>>
    /\ \/ pool' = pool \cup {op.tx} /\ Enter(op, "confirm")
       \/ pool' \in {pool, pool \cup {op.tx}} /\ Fails(op)

(* confirm throws when the transaction fails, and when it gives up waiting. *)
Confirm ==
    /\ op.pc = "confirm" /\ ClientStep
    /\ \/ \E a \in applied :
              /\ a.tx = op.tx
              /\ op' = [op EXCEPT !.confirmedAt = a.ledger, !.landed = TRUE, !.tries = 1, !.pc = "final"]
       \/ Fails(op)

(***************************************************************************)
(* confirmedRevision.                                                      *)
(***************************************************************************)
ShowsApply(o, ledger) ==
    ledger >= o.seen /\ ledger >= o.confirmedAt /\ chain[ledger].revision > o.revision

(* Mutant: the final read is repeated until it shows the apply.            *)
ConfirmedRevisionForever(ledger) ==
    /\ op.pc = "final" /\ ClientStep
    /\ LET o == IF ledger < op.seen THEN op ELSE Observe(op, ledger)
       IN  IF ShowsApply(op, ledger) THEN op' = [o EXCEPT !.pc = "done", !.result = chain[ledger].revision]
           ELSE op' = [o EXCEPT !.tries = 3 - @]

ConfirmedRevision(ledger) ==
    /\ op.pc = "final" /\ ClientStep
    /\ LET o == IF ledger < op.seen THEN op ELSE Observe(op, ledger)
       IN  IF ShowsApply(op, ledger) THEN op' = [o EXCEPT !.pc = "done", !.result = chain[ledger].revision]
           ELSE IF op.tries < FinalReadAttempts THEN op' = [o EXCEPT !.tries = @ + 1]
           ELSE Fails(o)

Abort ==
    /\ op.pc \notin {"idle", "done", "failed"} /\ ~op.aborted /\ ClientStep
    /\ op' = [op EXCEPT !.aborted = TRUE]

Client ==
    \/ \E ledger \in 1 .. Latest : SnapshotRead(ledger) \/ AssertSignable(ledger) \/ ConfirmedRevision(ledger)
    \/ Refuse \/ DeclineFee \/ Sign \/ Submit \/ Confirm

ClientNext == Begin \/ Client \/ Abort \/ Others \/ \E tx \in pool : Include(tx)

(* What the client awaits comes back, with an answer or an error.          *)
ClientSpec == ClientInit /\ [][ClientNext]_clientVars /\ WF_clientVars(Client)

(***************************************************************************)
(* Properties.                                                             *)
(***************************************************************************)
(* What was signed at a revision executes over exactly that revision: no   *)
(* change anyone else made since that signature is overwritten, whatever   *)
(* the RPC answered and however long the transaction waited. A retry signs *)
(* the same document again, over a revision it has read afresh.            *)
AppliesOverWhatWasSigned == \A a \in applied : a.over = a.tx.expected

(* Nothing is signed for a revision that has gone: at the newest ledger    *)
(* any answer had come from, the account was at the revision that is       *)
(* signed for, and not frozen.                                             *)
SignedAtALiveRevision ==
    op.tx # Unset =>
        chain[op.tx.checked].revision = op.tx.expected /\ ~Frozen(chain[op.tx.checked], op.tx.checked)

(* The revision reported is the account's after the apply, never one from  *)
(* before the transaction, and the transaction it confirms did execute.    *)
ReportedRevisionIsApplied ==
    op.pc = "done" => \E a \in applied :
        a.tx = op.tx /\ a.ledger = op.confirmedAt /\ op.result >= chain[a.ledger].revision

(* apply.ts: once a step was confirmed, "the operation never starts again  *)
(* (it would apply twice)": no transaction waiting or executed is of an    *)
(* attempt after the one that was confirmed.                               *)
NothingAfterLanding ==
    op.confirmedAt # 0 =>
        \E c \in applied :
            /\ c.ledger = op.confirmedAt
            /\ \A tx \in pool \cup {a.tx : a \in applied} : tx.attempt <= c.tx.attempt

(* The operation applies what was signed, and nothing else: it signs for   *)
(* what is current, the chain executes it over that, what it reports is    *)
(* what came of it, and nothing is sent after what was seen to land.       *)
AppliesWhatWasSigned ==
    AppliesOverWhatWasSigned /\ SignedAtALiveRevision /\ ReportedRevisionIsApplied /\ NothingAfterLanding

(* An operation ends, in a result or an error, within its attempts.        *)
OperationEnds == <>[](op.pc \in {"idle", "done", "failed"})
=============================================================================
