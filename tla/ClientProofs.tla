---------------------------- MODULE ClientProofs ----------------------------
(***************************************************************************)
(* The console and its relay, proved: an operation applies what was        *)
(* signed, for every number of attempts and reads, every length of the     *)
(* chain and whatever others do on it; and the relay keeps and serves each *)
(* guardian's own approval, for any number of guardians and requests and   *)
(* whatever is posted.                                                     *)
(***************************************************************************)
EXTENDS ApplyClient, ApprovalRelay, WellFoundedInduction, TLAPS

-----------------------------------------------------------------------------
(* An operation of the client.                                             *)

(* The account at a ledger.                                                *)
Accounts == [revision : Nat, until : Nat]

(* The client's record: what it has, and a ledger it has seen.             *)
IsOperation(o) ==
    /\ DOMAIN o = {"pc", "n", "tries", "at", "seen", "stale", "aborted", "revision", "until", "tx",
                   "confirmedAt", "landed", "result"}
    /\ o.seen \in Nat

TypesOK ==
    /\ chain \in Seq(Accounts) /\ Latest >= 1
    /\ IsOperation(op)

(* Revisions only grow along the chain.                                    *)
Grows == \A i, j \in 1 .. Latest : i <= j => chain[i].revision <= chain[j].revision

(* The revision v was the account's at the ledger, and it was not frozen.  *)
LiveAt(v, ledger) ==
    ledger \in 1 .. Latest /\ chain[ledger].revision = v /\ ~Frozen(chain[ledger], ledger)

(* From the check before signing on, what is signed was live where it was  *)
(* checked.                                                                *)
Checked ==
    /\ op.pc = "sign" => LiveAt(op.revision, op.seen)
    /\ op.tx # Unset => LiveAt(op.tx.expected, op.tx.checked)

(* What executed did so on the chain and over what it was signed for.      *)
Executed == \A a \in applied : a.over = a.tx.expected /\ a.ledger \in 1 .. Latest

(* What was confirmed is one of them.                                      *)
Confirmed ==
    /\ op.pc \in {"final", "done"} => \E a \in applied : a.tx = op.tx /\ a.ledger = op.confirmedAt
    /\ op.pc = "done" => op.result \in Nat /\ op.result >= chain[op.confirmedAt].revision

OperationInv == TypesOK /\ Grows /\ Checked /\ Executed /\ Confirmed

-----------------------------------------------------------------------------
(* The chain at a ledger, and now.                                         *)
LEMMA ChainFacts ==
    ASSUME TypesOK
    PROVE  /\ Latest \in Nat \ {0} /\ Latest \in 1 .. Latest
           /\ \A i \in 1 .. Latest : chain[i] \in Accounts
           /\ Now \in Accounts
  <1>1. Latest \in Nat \ {0} /\ Latest \in 1 .. Latest
    BY DEF TypesOK, Latest
  <1>2. \A i \in 1 .. Latest : chain[i] \in Accounts
    BY DEF TypesOK, Latest
  <1> QED BY <1>1, <1>2, Zenon DEF Now

(* The initial state.                                                      *)
LEMMA OperationInit == ClientInit => OperationInv
  <1> SUFFICES ASSUME ClientInit PROVE OperationInv
    BY Zenon
  <1>1. Latest = 1 /\ chain[1] = [revision |-> 0, until |-> 0]
    BY Zenon DEF ClientInit, Latest
  <1>2. TypesOK
    <2>1. IsOperation(op)
      BY Zenon DEF ClientInit, IsOperation
    <2>2. chain \in Seq(Accounts) /\ Latest >= 1
      BY <1>1 DEF ClientInit, Latest, Accounts
    <2> QED BY <2>1, <2>2, Zenon DEF TypesOK
  <1>3. Grows /\ Executed
    BY <1>1 DEF ClientInit, Grows, Executed
  <1>4. Checked /\ Confirmed
    BY Zenon DEF ClientInit, Checked, Confirmed
  <1> QED BY <1>2, <1>3, <1>4, Zenon DEF OperationInv

(* A new ledger leaves what the others hold, so what was true of them      *)
(* still is.                                                               *)
LEMMA CloseKeeps ==
    ASSUME OperationInv, NEW account \in Accounts,
           account.revision >= Now.revision, Close(account)
    PROVE  /\ chain' \in Seq(Accounts) /\ Latest' = Latest + 1
           /\ \A i \in 1 .. Latest : chain'[i] = chain[i]
           /\ chain'[Latest + 1] = account
           /\ Grows'
           /\ \A v, ledger : LiveAt(v, ledger) => LiveAt(v, ledger)'
  <1>1. /\ chain' \in Seq(Accounts) /\ Latest' = Latest + 1
        /\ \A i \in 1 .. Latest : chain'[i] = chain[i]
        /\ chain'[Latest + 1] = account
    BY DEF OperationInv, TypesOK, Close, Latest
  <1>2. Latest \in Nat \ {0}
    BY ChainFacts, Zenon DEF OperationInv
  <1>3. Grows'
    <2> SUFFICES ASSUME NEW i \in 1 .. Latest + 1, NEW j \in 1 .. Latest + 1, i <= j
                 PROVE  chain'[i].revision <= chain'[j].revision
      BY <1>1, <1>2, Zenon DEF Grows
    <2>1. CASE j <= Latest
      <3>1. i \in 1 .. Latest /\ j \in 1 .. Latest
        BY <2>1, <1>2
      <3>2. chain[i].revision <= chain[j].revision
        BY <3>1, Zenon DEF OperationInv, Grows
      <3> QED BY <3>1, <3>2, <1>1, Zenon
    <2>2. CASE j = Latest + 1 /\ i <= Latest
      <3>1. i \in 1 .. Latest /\ Latest \in 1 .. Latest
        BY <2>2, <1>2
      <3>2. chain[i].revision <= Now.revision
        BY <3>1 DEF OperationInv, Grows, Now
      <3>3. chain[i].revision \in Nat /\ Now.revision \in Nat /\ account.revision \in Nat
        <4>1. chain[i] \in Accounts /\ Now \in Accounts
          BY <3>1, ChainFacts, Zenon DEF OperationInv
        <4> QED BY <4>1, Zenon DEF Accounts
      <3>4. chain[i].revision <= account.revision
        BY <3>2, <3>3
      <3> QED BY <3>1, <3>4, <2>2, <1>1, Zenon
    <2>3. CASE i = Latest + 1 /\ j = Latest + 1
      <3>1. account.revision \in Nat
        BY Zenon DEF Accounts
      <3> QED BY <2>3, <3>1, <1>1
    <2> QED BY <2>1, <2>2, <2>3, <1>2
  <1>4. ASSUME NEW v, NEW ledger, LiveAt(v, ledger)
        PROVE  LiveAt(v, ledger)'
    BY <1>4, <1>1, <1>2 DEF LiveAt, Frozen
  <1> QED BY <1>1, <1>3, <1>4, Zenon

(* A step of the chain.                                                    *)
LEMMA ChainKeeps ==
    ASSUME OperationInv, NEW account \in Accounts,
           account.revision >= Now.revision, Close(account), UNCHANGED op, Executed'
    PROVE  /\ TypesOK' /\ Grows' /\ Checked'
           /\ applied \subseteq applied' => Confirmed'
  <1>1. /\ chain' \in Seq(Accounts) /\ Latest' = Latest + 1
        /\ \A i \in 1 .. Latest : chain'[i] = chain[i]
        /\ Grows'
        /\ \A v, ledger : LiveAt(v, ledger) => LiveAt(v, ledger)'
    BY CloseKeeps, Zenon
  <1>2. TypesOK'
    <2>1. Latest \in Nat
      BY DEF OperationInv, TypesOK, Latest
    <2> QED BY <2>1, <1>1 DEF OperationInv, TypesOK, IsOperation
  <1>3. Checked'
    BY <1>1, Zenon DEF OperationInv, Checked
  <1>4. ASSUME applied \subseteq applied' PROVE Confirmed'
    <2>1. op.pc \in {"final", "done"} => op.confirmedAt \in 1 .. Latest
      BY Zenon DEF OperationInv, Confirmed, Executed
    <2> QED BY <2>1, <1>1, <1>4, Zenon DEF OperationInv, Confirmed
  <1> QED BY <1>1, <1>2, <1>3, <1>4, Zenon

LEMMA OthersInv == ASSUME OperationInv, Others PROVE OperationInv'
  <1>1. Now \in Accounts /\ Latest \in Nat \ {0}
    BY ChainFacts, Zenon DEF OperationInv
  <1>2. PICK account \in Accounts :
            account.revision >= Now.revision /\ Close(account)
    <2>1. CASE Close([Now EXCEPT !.revision = @ + 1])
      BY <2>1, <1>1 DEF Accounts
    <2>2. CASE Close([Now EXCEPT !.until = Latest + 3])
      BY <2>2, <1>1 DEF Accounts
    <2>3. CASE Close(Now)
      BY <2>3, <1>1 DEF Accounts
    <2> QED BY <2>1, <2>2, <2>3, Zenon DEF Others
  <1>3. Latest' = Latest + 1
    BY <1>2, CloseKeeps, Zenon
  <1>4. Executed'
    BY <1>1, <1>3 DEF OperationInv, Executed, Others
  <1> QED BY <1>2, <1>4, ChainKeeps, Zenon DEF Others, OperationInv

LEMMA IncludeInv == ASSUME OperationInv, NEW tx, Include(tx) PROVE OperationInv'
  <1>1. Now \in Accounts /\ Latest \in Nat \ {0}
    BY ChainFacts, Zenon DEF OperationInv
  <1>2. CASE Executes(tx)
    <2> DEFINE account == [Now EXCEPT !.revision = @ + 1]
    <2>1. account \in Accounts /\ account.revision >= Now.revision /\ Close(account)
      BY <1>1, <1>2 DEF Include, Accounts
    <2>2. Latest' = Latest + 1
      BY <2>1, CloseKeeps, Zenon
    <2>3. applied' = applied \cup {[tx |-> tx, over |-> Now.revision, ledger |-> Latest + 1]} /\ UNCHANGED op
      BY <1>2, Zenon DEF Include
    <2>4. Executed'
      BY <1>1, <1>2, <2>2, <2>3 DEF OperationInv, Executed, Executes
    <2> QED BY <2>1, <2>3, <2>4, ChainKeeps, Zenon DEF OperationInv
  <1>3. CASE ~Executes(tx)
    <2>1. UNCHANGED <<chain, applied, op>>
      BY <1>3, Zenon DEF Include
    <2> QED BY <2>1, Zenon DEF OperationInv, TypesOK, Grows, Checked, LiveAt, Executed, Confirmed, Latest
  <1> QED BY <1>2, <1>3, Zenon

-----------------------------------------------------------------------------
(* The client changes neither the chain nor what executed, so a step of it *)
(* keeps the invariant when it leaves a record that says no more than it   *)
(* may.                                                                    *)
Sound(o) ==
    /\ IsOperation(o)
    /\ o.pc = "sign" => LiveAt(o.revision, o.seen)
    /\ o.tx # Unset => LiveAt(o.tx.expected, o.tx.checked)
    /\ o.pc \in {"final", "done"} => \E a \in applied : a.tx = o.tx /\ a.ledger = o.confirmedAt
    /\ o.pc = "done" => o.result \in Nat /\ o.result >= chain[o.confirmedAt].revision

LEMMA SoundKeeps ==
    ASSUME OperationInv, UNCHANGED <<chain, applied>>, Sound(op')
    PROVE  OperationInv'
  BY Zenon DEF OperationInv, TypesOK, Grows, Checked, LiveAt, Executed, Confirmed, Latest, Sound

LEMMA OpSound == OperationInv => Sound(op)
  BY Zenon DEF OperationInv, TypesOK, Checked, Confirmed, Sound

(* The end of an attempt signs and confirms nothing.                       *)
LEMMA FailsSound ==
    ASSUME OperationInv, NEW o, IsOperation(o), o.tx = op.tx \/ o.tx = Unset, Fails(o)
    PROVE  Sound(op')
  <1>1. IsOperation(op') /\ op'.pc \in {"failed", "read"} /\ op'.tx \in {o.tx, Unset}
    <2>1. CASE op' = [o EXCEPT !.pc = "failed"]
      BY <2>1, Zenon DEF IsOperation
    <2>2. CASE op' = [o EXCEPT !.pc = "read", !.n = @ + 1, !.tries = 1, !.at = 1, !.stale = FALSE,
                               !.revision = Unset, !.tx = Unset]
      BY <2>2, Zenon DEF IsOperation
    <2> QED BY <2>1, <2>2, Zenon DEF Fails
  <1> QED BY <1>1, Zenon DEF OperationInv, Checked, Sound

(* An answer of the RPC is taken in.                                       *)
LEMMA Observed ==
    ASSUME OperationInv, NEW ledger \in 1 .. Latest
    PROVE  /\ IsOperation(Observe(op, ledger))
           /\ Observe(op, ledger).tx = op.tx /\ Observe(op, ledger).pc = op.pc
           /\ Observe(op, ledger).revision = op.revision
           /\ Observe(op, ledger).confirmedAt = op.confirmedAt
           /\ ledger >= op.seen => Observe(op, ledger).seen = ledger
  <1>1. ledger \in Nat /\ IsOperation(op)
    BY DEF OperationInv, TypesOK, Latest
  <1> QED BY <1>1 DEF Observe, IsOperation

(* A step to a phase that neither signs nor confirms.                      *)
LEMMA PassesSound ==
    ASSUME OperationInv, NEW o, IsOperation(o), o.tx = op.tx, o.pc \notin {"sign", "final", "done"}
    PROVE  Sound(o)
  BY Zenon DEF OperationInv, Checked, Sound

LEMMA EnterSound ==
    ASSUME OperationInv, NEW o, IsOperation(o), o.tx = op.tx, NEW pc, pc \notin {"sign", "final", "done"}, Enter(o, pc)
    PROVE  Sound(op')
  <1>1. CASE o.aborted
    BY <1>1, FailsSound, Zenon DEF Enter
  <1>2. CASE ~o.aborted
    <2>1. op' = [o EXCEPT !.pc = pc]
      BY <1>2, Zenon DEF Enter
    <2>2. IsOperation(op') /\ op'.tx = op.tx /\ op'.pc = pc
      BY <2>1, Zenon DEF IsOperation
    <2> QED BY <2>2, PassesSound, Zenon
  <1> QED BY <1>1, <1>2, Zenon

LEMMA BeginInv == ASSUME OperationInv, Begin PROVE OperationInv'
  <1>1. IsOperation(op') /\ op'.tx = op.tx /\ op'.pc = "read"
    BY Zenon DEF OperationInv, TypesOK, Begin, IsOperation
  <1>2. Sound(op')
    BY <1>1, PassesSound, Zenon
  <1> QED BY <1>2, SoundKeeps, Zenon DEF Begin, ClientStep

LEMMA AbortInv == ASSUME OperationInv, Abort PROVE OperationInv'
  <1>1. op' = [op EXCEPT !.aborted = TRUE] /\ IsOperation(op) /\ op.pc # "done"
    BY Zenon DEF OperationInv, TypesOK, Abort
  <1>2. /\ IsOperation(op') /\ op'.tx = op.tx /\ op'.pc = op.pc /\ op'.seen = op.seen
        /\ op'.revision = op.revision /\ op'.confirmedAt = op.confirmedAt
    BY <1>1, Zenon DEF IsOperation
  <1>3. Sound(op')
    BY <1>1, <1>2, OpSound, Zenon DEF Sound
  <1> QED BY <1>3, SoundKeeps, Zenon DEF Abort, ClientStep

LEMMA SnapshotReadInv ==
    ASSUME OperationInv, NEW ledger \in 1 .. Latest, SnapshotRead(ledger)
    PROVE  OperationInv'
  <1> DEFINE o == Observe(op, ledger)
             account == chain[ledger]
  <1>1. IsOperation(o) /\ o.tx = op.tx /\ o.pc = "read"
    BY Observed, Zenon DEF SnapshotRead
  <1>2. \/ op' = [o EXCEPT !.at = 2, !.revision = account.revision, !.until = account.until]
        \/ op' = [o EXCEPT !.at = @ + 1]
        \/ Again(o) \/ Fails(o) \/ Enter(o, "authorize")
    BY Zenon DEF SnapshotRead
  <1> HIDE DEF o, account
  <1>3. CASE op' = [o EXCEPT !.at = 2, !.revision = account.revision, !.until = account.until]
    <2>1. IsOperation(op') /\ op'.tx = op.tx /\ op'.pc = "read"
      BY <1>1, <1>3, Zenon DEF IsOperation
    <2> QED BY <2>1, PassesSound, SoundKeeps, Zenon DEF SnapshotRead, ClientStep
  <1>4. CASE op' = [o EXCEPT !.at = @ + 1]
    <2>1. IsOperation(op') /\ op'.tx = op.tx /\ op'.pc = "read"
      BY <1>1, <1>4, Zenon DEF IsOperation
    <2> QED BY <2>1, PassesSound, SoundKeeps, Zenon DEF SnapshotRead, ClientStep
  <1>5. CASE Again(o)
    <2>1. CASE Fails(o)
      BY <2>1, <1>1, FailsSound, SoundKeeps, Zenon DEF SnapshotRead, ClientStep
    <2>2. CASE op' = [o EXCEPT !.tries = @ + 1, !.at = 1, !.stale = FALSE]
      <3>1. IsOperation(op') /\ op'.tx = op.tx /\ op'.pc = "read"
        BY <1>1, <2>2, Zenon DEF IsOperation
      <3> QED BY <3>1, PassesSound, SoundKeeps, Zenon DEF SnapshotRead, ClientStep
    <2> QED BY <1>5, <2>1, <2>2, Zenon DEF Again
  <1>6. CASE Fails(o)
    BY <1>6, <1>1, FailsSound, SoundKeeps, Zenon DEF SnapshotRead, ClientStep
  <1>7. CASE Enter(o, "authorize")
    BY <1>7, <1>1, EnterSound, SoundKeeps, Zenon DEF SnapshotRead, ClientStep
  <1> QED BY <1>2, <1>3, <1>4, <1>5, <1>6, <1>7, Zenon

LEMMA RefusedInv == ASSUME OperationInv, Refuse \/ DeclineFee PROVE OperationInv'
  <1>1. IsOperation(op)
    BY Zenon DEF OperationInv, TypesOK
  <1>2. CASE Refuse
    BY <1>1, <1>2, FailsSound, SoundKeeps, Zenon DEF Refuse, ClientStep
  <1>3. CASE DeclineFee
    <2> DEFINE o == [op EXCEPT !.aborted = TRUE]
    <2>1. IsOperation(o) /\ o.tx = op.tx
      BY <1>1, Zenon DEF IsOperation
    <2>2. Fails(o)
      BY <1>3, Zenon DEF DeclineFee
    <2> HIDE DEF o
    <2> QED BY <2>1, <2>2, <1>3, FailsSound, SoundKeeps, Zenon DEF DeclineFee, ClientStep
  <1> QED BY <1>2, <1>3, Zenon

(* The check before signing finds the revision at a ledger no older than   *)
(* any seen, and keeps that ledger.                                        *)
LEMMA AssertSignableInv ==
    ASSUME OperationInv, NEW ledger \in 1 .. Latest, AssertSignable(ledger)
    PROVE  OperationInv'
  <1> DEFINE o == Observe(op, ledger)
  <1>1. /\ IsOperation(o) /\ o.tx = op.tx /\ o.revision = op.revision
        /\ ledger >= op.seen => o.seen = ledger
    BY Observed, Zenon
  <1>2. IsOperation(op) /\ op.seen \in Nat /\ ledger \in Nat
    BY ChainFacts DEF OperationInv, TypesOK, IsOperation
  <1>3. CASE Fails(o) \/ Fails(op)
    BY <1>1, <1>2, <1>3, FailsSound, SoundKeeps, Zenon DEF AssertSignable, ClientStep
  <1>4. CASE /\ ledger >= op.seen /\ chain[ledger].revision = op.revision /\ ~Frozen(chain[ledger], ledger)
             /\ op' = [o EXCEPT !.pc = "sign"]
    <2> HIDE DEF o
    <2>1. IsOperation(op') /\ op'.tx = op.tx /\ op'.pc = "sign" /\ op'.seen = ledger /\ op'.revision = op.revision
      BY <1>1, <1>4, Zenon DEF IsOperation
    <2>2. LiveAt(op'.revision, op'.seen)
      BY <1>4, <2>1, Zenon DEF LiveAt
    <2>3. Sound(op')
      BY <2>1, <2>2, Zenon DEF Sound, OperationInv, Checked
    <2> QED BY <2>3, SoundKeeps, Zenon DEF AssertSignable, ClientStep
  <1> QED BY <1>2, <1>3, <1>4 DEF AssertSignable

LEMMA SignInv == ASSUME OperationInv, Sign PROVE OperationInv'
  <1> DEFINE tx == [expected |-> op.revision, attempt |-> op.n, checked |-> op.seen]
             o == [op EXCEPT !.tx = tx]
  <1>1. IsOperation(op) /\ LiveAt(op.revision, op.seen)
    BY Zenon DEF OperationInv, TypesOK, Checked, Sign
  <1>2. IsOperation(o) /\ o.tx = tx /\ LiveAt(tx.expected, tx.checked)
    BY <1>1, Zenon DEF IsOperation
  <1>3. Enter(o, "submit")
    BY Zenon DEF Sign
  <1> HIDE DEF o, tx
  <1>4. CASE op' = [o EXCEPT !.pc = "submit"] \/ op' = [o EXCEPT !.pc = "failed"]
    <2>1. IsOperation(op') /\ op'.tx = tx /\ op'.pc \in {"submit", "failed"}
      BY <1>2, <1>4, Zenon DEF IsOperation
    <2>2. Sound(op')
      BY <1>2, <2>1, Zenon DEF Sound
    <2> QED BY <2>2, SoundKeeps, Zenon DEF Sign, ClientStep
  <1>5. CASE op' = [o EXCEPT !.pc = "read", !.n = @ + 1, !.tries = 1, !.at = 1, !.stale = FALSE,
                             !.revision = Unset, !.tx = Unset]
    <2>1. IsOperation(op') /\ op'.tx = Unset /\ op'.pc = "read"
      BY <1>2, <1>5, Zenon DEF IsOperation
    <2>2. Sound(op')
      BY <2>1, Zenon DEF Sound
    <2> QED BY <2>2, SoundKeeps, Zenon DEF Sign, ClientStep
  <1> QED BY <1>3, <1>4, <1>5, Zenon DEF Enter, Fails

LEMMA SubmitInv == ASSUME OperationInv, Submit PROVE OperationInv'
  <1>1. IsOperation(op) /\ (Enter(op, "confirm") \/ Fails(op)) /\ UNCHANGED <<chain, applied>>
    BY Zenon DEF OperationInv, TypesOK, Submit
  <1>2. Sound(op')
    BY <1>1, EnterSound, FailsSound, Zenon
  <1> QED BY <1>1, <1>2, SoundKeeps, Zenon

LEMMA ConfirmInv == ASSUME OperationInv, Confirm PROVE OperationInv'
  <1>1. IsOperation(op)
    BY Zenon DEF OperationInv, TypesOK
  <1>2. CASE Fails(op)
    BY <1>1, <1>2, FailsSound, SoundKeeps, Zenon DEF Confirm, ClientStep
  <1>3. ASSUME NEW a \in applied, a.tx = op.tx,
               op' = [op EXCEPT !.confirmedAt = a.ledger, !.landed = TRUE, !.tries = 1, !.pc = "final"]
        PROVE  OperationInv'
    <2>1. IsOperation(op') /\ op'.tx = op.tx /\ op'.pc = "final" /\ op'.confirmedAt = a.ledger
      BY <1>1, <1>3, Zenon DEF IsOperation
    <2>2. Sound(op')
      BY <2>1, <1>3, Zenon DEF Sound, OperationInv, Checked
    <2> QED BY <2>2, SoundKeeps, Zenon DEF Confirm, ClientStep
  <1> QED BY <1>2, <1>3, Zenon DEF Confirm

(* The final read is of a ledger no older than the confirmation, where the *)
(* revision is at least what it was there.                                 *)
LEMMA ConfirmedRevisionInv ==
    ASSUME OperationInv, NEW ledger \in 1 .. Latest, ConfirmedRevision(ledger)
    PROVE  OperationInv'
  <1> DEFINE o == IF ledger < op.seen THEN op ELSE Observe(op, ledger)
  <1>1. /\ IsOperation(o) /\ o.tx = op.tx /\ o.pc = "final" /\ o.confirmedAt = op.confirmedAt
    BY Observed, Zenon DEF OperationInv, TypesOK, ConfirmedRevision
  <1>2. PICK a \in applied : a.tx = op.tx /\ a.ledger = op.confirmedAt /\ a.ledger \in 1 .. Latest
    BY Zenon DEF OperationInv, Confirmed, Executed, ConfirmedRevision
  <1>3. \/ ShowsApply(op, ledger) /\ op' = [o EXCEPT !.pc = "done", !.result = chain[ledger].revision]
        \/ op' = [o EXCEPT !.tries = @ + 1]
        \/ Fails(o)
    BY Zenon DEF ConfirmedRevision
  <1> HIDE DEF o
  <1>4. CASE ShowsApply(op, ledger) /\ op' = [o EXCEPT !.pc = "done", !.result = chain[ledger].revision]
    <2>1. /\ IsOperation(op') /\ op'.tx = op.tx /\ op'.pc = "done" /\ op'.confirmedAt = op.confirmedAt
          /\ op'.result = chain[ledger].revision
      BY <1>1, <1>4, Zenon DEF IsOperation
    <2>2. chain[ledger].revision \in Nat /\ chain[ledger].revision >= chain[op.confirmedAt].revision
      <3>1. op.confirmedAt <= ledger
        BY <1>2, <1>4, ChainFacts, Zenon DEF OperationInv, ShowsApply
      <3>2. chain[op.confirmedAt].revision <= chain[ledger].revision
        BY <1>2, <3>1, Zenon DEF OperationInv, Grows
      <3>3. chain[ledger].revision \in Nat /\ chain[op.confirmedAt].revision \in Nat
        BY <1>2, ChainFacts, Zenon DEF OperationInv, Accounts
      <3> QED BY <3>2, <3>3, Zenon
    <2>3. Sound(op')
      BY <1>2, <2>1, <2>2, Zenon DEF Sound, OperationInv, Checked
    <2> QED BY <2>3, SoundKeeps, Zenon DEF ConfirmedRevision, ClientStep
  <1>5. CASE op' = [o EXCEPT !.tries = @ + 1]
    <2>1. IsOperation(op') /\ op'.tx = op.tx /\ op'.pc = "final" /\ op'.confirmedAt = op.confirmedAt
      BY <1>1, <1>5, Zenon DEF IsOperation
    <2>2. Sound(op')
      BY <1>2, <2>1, Zenon DEF Sound, OperationInv, Checked
    <2> QED BY <2>2, SoundKeeps, Zenon DEF ConfirmedRevision, ClientStep
  <1>6. CASE Fails(o)
    BY <1>1, <1>6, FailsSound, SoundKeeps, Zenon DEF ConfirmedRevision, ClientStep
  <1> QED BY <1>3, <1>4, <1>5, <1>6, Zenon

-----------------------------------------------------------------------------
(* What landed stays the last: transactions are of the attempts so far,    *)
(* and the attempt in which one was confirmed is never followed.           *)
LandingInv ==
    /\ op.n \in Nat
    /\ \A tx \in pool : tx.attempt \in Nat /\ tx.attempt <= op.n
    /\ \A a \in applied : a.tx.attempt \in Nat /\ a.tx.attempt <= op.n
    /\ op.pc \in {"submit", "confirm"} => op.tx.attempt = op.n
    /\ op.confirmedAt # 0 => op.landed
    /\ op.landed => \E c \in applied : c.ledger = op.confirmedAt /\ c.tx.attempt = op.n

(* The record o is of the attempt and the landing of op.                   *)
Alike(o) == o.n = op.n /\ o.landed = op.landed /\ o.confirmedAt = op.confirmedAt

(* A step of the client that confirms nothing: another attempt only when   *)
(* nothing landed, and what it is to submit or confirm is of this one.     *)
Moves ==
    /\ op'.landed = op.landed /\ op'.confirmedAt = op.confirmedAt
    /\ op'.n = op.n \/ (~op.landed /\ op'.n = op.n + 1)
    /\ op'.pc \in {"submit", "confirm"} => op'.n = op.n /\ op'.tx.attempt = op.n

LEMMA MovesKeep ==
    ASSUME LandingInv, Moves, UNCHANGED applied,
           \A tx \in pool' : tx \in pool \/ tx.attempt = op.n
    PROVE  LandingInv'
  <1>1. op.n \in Nat /\ op'.n \in Nat /\ op.n <= op'.n
    BY DEF LandingInv, Moves
  <1>2. ASSUME NEW tx \in pool' PROVE tx.attempt \in Nat /\ tx.attempt <= op'.n
    BY <1>1 DEF LandingInv
  <1>3. ASSUME NEW a \in applied PROVE a.tx.attempt \in Nat /\ a.tx.attempt <= op'.n
    BY <1>1 DEF LandingInv
  <1>4. op'.landed => \E c \in applied : c.ledger = op'.confirmedAt /\ c.tx.attempt = op'.n
    BY Zenon DEF LandingInv, Moves
  <1> QED BY <1>1, <1>2, <1>3, <1>4, Zenon DEF LandingInv, Moves

(* The end of an attempt.                                                  *)
LEMMA FailsMoves == ASSUME NEW o, IsOperation(o), Alike(o), Fails(o) PROVE Moves
  <1>1. CASE op' = [o EXCEPT !.pc = "failed"]
    BY <1>1, Zenon DEF IsOperation, Alike, Moves
  <1>2. CASE /\ op' = [o EXCEPT !.pc = "read", !.n = @ + 1, !.tries = 1, !.at = 1, !.stale = FALSE,
                                !.revision = Unset, !.tx = Unset]
             /\ ~o.landed
    BY <1>2, Zenon DEF IsOperation, Alike, Moves
  <1> QED BY <1>1, <1>2, Zenon DEF Fails

(* A phase is entered with a transaction of this attempt, or with none.    *)
LEMMA EnterMoves ==
    ASSUME NEW o, IsOperation(o), Alike(o), NEW pc, Enter(o, pc),
           pc \in {"submit", "confirm"} => o.tx.attempt = op.n
    PROVE  Moves
  <1>1. CASE o.aborted
    BY <1>1, FailsMoves, Zenon DEF Enter
  <1>2. CASE op' = [o EXCEPT !.pc = pc]
    <2>1. op'.pc = pc /\ op'.tx = o.tx /\ Alike(op')
      BY <1>2, Zenon DEF IsOperation, Alike
    <2> QED BY <2>1, Zenon DEF Alike, Moves
  <1> QED BY <1>1, <1>2, Zenon DEF Enter

LEMMA ObservedAlike ==
    ASSUME OperationInv, NEW ledger \in 1 .. Latest
    PROVE  Alike(op) /\ Alike(Observe(op, ledger)) /\ IsOperation(op) /\ IsOperation(Observe(op, ledger))
  <1>1. IsOperation(op) /\ IsOperation(Observe(op, ledger))
    BY Observed, Zenon DEF OperationInv, TypesOK
  <1> QED BY <1>1, Zenon DEF Observe, Alike, IsOperation

(* The reads.                                                              *)
LEMMA ReadsMove ==
    ASSUME OperationInv, NEW ledger \in 1 .. Latest,
           SnapshotRead(ledger) \/ AssertSignable(ledger) \/ ConfirmedRevision(ledger)
    PROVE  Moves
  <1>1. PICK o : /\ IsOperation(o) /\ Alike(o)
                 /\ o.pc \notin {"submit", "confirm"}
                 /\ \/ op' = [o EXCEPT !.at = 2, !.revision = chain[ledger].revision, !.until = chain[ledger].until]
                    \/ op' = [o EXCEPT !.at = @ + 1]
                    \/ op' = [o EXCEPT !.tries = @ + 1, !.at = 1, !.stale = FALSE]
                    \/ op' = [o EXCEPT !.pc = "sign"]
                    \/ op' = [o EXCEPT !.pc = "done", !.result = chain[ledger].revision]
                    \/ op' = [o EXCEPT !.tries = @ + 1]
                    \/ Enter(o, "authorize") \/ Fails(o)
    <2>1. /\ Alike(op) /\ Alike(Observe(op, ledger)) /\ IsOperation(op) /\ IsOperation(Observe(op, ledger))
          /\ Observe(op, ledger).pc = op.pc
      BY ObservedAlike, Observed, Zenon
    <2>2. CASE SnapshotRead(ledger)
      <3> DEFINE o == Observe(op, ledger)
      <3>1. \/ op' = [o EXCEPT !.at = 2, !.revision = chain[ledger].revision, !.until = chain[ledger].until]
            \/ op' = [o EXCEPT !.at = @ + 1]
            \/ Again(o) \/ Fails(o) \/ Enter(o, "authorize")
        BY <2>2, Zenon DEF SnapshotRead
      <3>2. Again(o) => op' = [o EXCEPT !.tries = @ + 1, !.at = 1, !.stale = FALSE] \/ Fails(o)
        BY Zenon DEF Again
      <3>3. o.pc = "read"
        BY <2>1, <2>2, Zenon DEF SnapshotRead
      <3> HIDE DEF o
      <3>4. IsOperation(o) /\ Alike(o)
        BY <2>1, Zenon DEF o
      <3> QED BY <3>1, <3>2, <3>3, <3>4, Zenon
    <2>3. CASE AssertSignable(ledger)
      <3>1. PICK o \in {op, Observe(op, ledger)} : op' = [o EXCEPT !.pc = "sign"] \/ Fails(o)
        BY <2>3, Zenon DEF AssertSignable
      <3>2. o.pc = "authorize"
        BY <2>1, <2>3, Zenon DEF AssertSignable
      <3>3. IsOperation(o) /\ Alike(o)
        BY <2>1, Zenon
      <3> QED BY <3>1, <3>2, <3>3, Zenon
    <2>4. CASE ConfirmedRevision(ledger)
      <3>1. PICK o \in {op, Observe(op, ledger)} :
              \/ op' = [o EXCEPT !.pc = "done", !.result = chain[ledger].revision]
              \/ op' = [o EXCEPT !.tries = @ + 1]
              \/ Fails(o)
        BY <2>4, Zenon DEF ConfirmedRevision
      <3>2. o.pc = "final"
        BY <2>1, <2>4, Zenon DEF ConfirmedRevision
      <3>3. IsOperation(o) /\ Alike(o)
        BY <2>1, Zenon
      <3> QED BY <3>1, <3>2, <3>3, Zenon
    <2> QED BY <2>2, <2>3, <2>4, Zenon
  <1>2. CASE Enter(o, "authorize") \/ Fails(o)
    BY <1>1, <1>2, EnterMoves, FailsMoves, Zenon
  <1>3. CASE ~(Enter(o, "authorize") \/ Fails(o))
    <2>1. Alike(op') /\ op'.pc \in {o.pc, "sign", "done"}
      BY <1>1, <1>3, Zenon DEF IsOperation, Alike
    <2> QED BY <1>1, <2>1, Zenon DEF Alike, Moves
  <1> QED BY <1>2, <1>3, Zenon

(* A step of the client.                                                   *)
LEMMA ClientLanding == ASSUME OperationInv, LandingInv, Client PROVE LandingInv'
  <1>1. IsOperation(op) /\ Alike(op) /\ Latest \in 1 .. Latest
    BY ChainFacts, Zenon DEF OperationInv, TypesOK, Alike
  <1>2. ASSUME NEW ledger \in 1 .. Latest,
               SnapshotRead(ledger) \/ AssertSignable(ledger) \/ ConfirmedRevision(ledger)
        PROVE  LandingInv'
    <2>1. Moves
      BY <1>2, ReadsMove, Zenon
    <2>2. UNCHANGED <<pool, applied>>
      BY <1>2, Zenon DEF SnapshotRead, AssertSignable, ConfirmedRevision, ClientStep
    <2> QED BY <2>1, <2>2, MovesKeep, Zenon
  <1>3. CASE Refuse \/ DeclineFee
    <2> DEFINE o == [op EXCEPT !.aborted = TRUE]
    <2>1. IsOperation(o) /\ Alike(o)
      BY <1>1, Zenon DEF IsOperation, Alike
    <2>2. (Fails(op) \/ Fails(o)) /\ UNCHANGED <<pool, applied>>
      BY <1>3, Zenon DEF Refuse, DeclineFee, ClientStep
    <2> HIDE DEF o
    <2> QED BY <1>1, <2>1, <2>2, FailsMoves, MovesKeep, Zenon
  <1>4. CASE Sign
    <2> DEFINE tx == [expected |-> op.revision, attempt |-> op.n, checked |-> op.seen]
               o == [op EXCEPT !.tx = tx]
    <2>1. IsOperation(o) /\ Alike(o) /\ o.tx.attempt = op.n
      BY <1>1, Zenon DEF IsOperation, Alike
    <2>2. Enter(o, "submit") /\ UNCHANGED <<pool, applied>>
      BY <1>4, Zenon DEF Sign, ClientStep
    <2> HIDE DEF o
    <2> QED BY <2>1, <2>2, EnterMoves, MovesKeep, Zenon
  <1>5. CASE Submit
    <2>1. /\ op.tx.attempt = op.n /\ UNCHANGED applied
          /\ \A tx \in pool' : tx \in pool \/ tx = op.tx
          /\ Enter(op, "confirm") \/ Fails(op)
      BY <1>5, Zenon DEF Submit, LandingInv
    <2> QED BY <1>1, <2>1, EnterMoves, FailsMoves, MovesKeep, Zenon
  <1>6. CASE Confirm
    <2>1. CASE Fails(op)
      BY <1>1, <1>6, <2>1, FailsMoves, MovesKeep, Zenon DEF Confirm, ClientStep
    <2>2. ASSUME NEW a \in applied, a.tx = op.tx,
                 op' = [op EXCEPT !.confirmedAt = a.ledger, !.landed = TRUE, !.tries = 1, !.pc = "final"]
          PROVE  LandingInv'
      <3>1. op'.n = op.n /\ op'.confirmedAt = a.ledger /\ op'.landed = TRUE /\ op'.pc = "final"
        BY <1>1, <2>2, Zenon DEF IsOperation
      <3>2. a.tx.attempt = op.n /\ UNCHANGED <<pool, applied>>
        BY <1>6, <2>2, Zenon DEF Confirm, ClientStep, LandingInv
      <3> QED BY <3>1, <3>2, Zenon DEF LandingInv
    <2> QED BY <1>6, <2>1, <2>2, Zenon DEF Confirm
  <1> QED BY <1>2, <1>3, <1>4, <1>5, <1>6, Zenon DEF Client

(* The chain keeps what executed, and takes only from the pool.            *)
LEMMA IncludeLanding == ASSUME LandingInv, NEW tx \in pool, Include(tx) PROVE LandingInv'
  <1>1. /\ UNCHANGED op /\ pool' \subseteq pool /\ applied \subseteq applied'
        /\ \A a \in applied' : a \in applied \/ a.tx = tx
    <2>1. UNCHANGED op /\ pool' = pool \ {tx}
      BY Zenon DEF Include
    <2>2. CASE Executes(tx)
      <3> DEFINE new == [tx |-> tx, over |-> Now.revision, ledger |-> Latest + 1]
      <3>1. applied' = applied \cup {new} /\ new.tx = tx
        BY <2>2, Zenon DEF Include
      <3> HIDE DEF new
      <3> QED BY <2>1, <3>1, Zenon
    <2>3. CASE ~Executes(tx)
      BY <2>1, <2>3, Zenon DEF Include
    <2> QED BY <2>2, <2>3, Zenon
  <1> QED BY <1>1, Zenon DEF LandingInv

-----------------------------------------------------------------------------
(* An operation applies what was signed: whatever the RPC answers, however *)
(* long a transaction waits and whoever else uses the account, what        *)
(* applyDocument signs is live at the newest ledger it has seen, executes  *)
(* over the revision it was signed for, the revision it reports is one     *)
(* from after the apply, and nothing is submitted after a transaction that *)
(* was confirmed.                                                          *)
THEOREM AppliesSigned == ClientSpec => []AppliesWhatWasSigned
  <1>1. ASSUME OperationInv, [ClientNext]_clientVars PROVE OperationInv'
    <2>1. CASE Begin \/ Abort \/ Others
      BY <1>1, <2>1, BeginInv, AbortInv, OthersInv, Zenon
    <2>2. ASSUME NEW tx \in pool, Include(tx) PROVE OperationInv'
      BY <1>1, <2>2, IncludeInv, Zenon
    <2>3. ASSUME NEW ledger \in 1 .. Latest,
                 SnapshotRead(ledger) \/ AssertSignable(ledger) \/ ConfirmedRevision(ledger)
          PROVE  OperationInv'
      BY <1>1, <2>3, SnapshotReadInv, AssertSignableInv, ConfirmedRevisionInv, Zenon
    <2>4. CASE Refuse \/ DeclineFee \/ Sign \/ Submit \/ Confirm
      BY <1>1, <2>4, RefusedInv, SignInv, SubmitInv, ConfirmInv, Zenon
    <2>5. CASE UNCHANGED clientVars
      BY <1>1, <2>5, OpSound, SoundKeeps, Zenon DEF clientVars
    <2> QED BY <1>1, <2>1, <2>2, <2>3, <2>4, <2>5, Zenon DEF ClientNext, Client
  <1>2. ASSUME OperationInv, LandingInv, [ClientNext]_clientVars PROVE LandingInv'
    <2>1. CASE Begin \/ Abort \/ Others \/ UNCHANGED clientVars
      <3>1. UNCHANGED <<pool, applied>> /\ IsOperation(op)
        BY <1>2, <2>1, Zenon DEF Begin, Abort, Others, ClientStep, clientVars, OperationInv, TypesOK
      <3>2. /\ op'.n = op.n /\ op'.tx = op.tx /\ op'.landed = op.landed
            /\ op'.confirmedAt = op.confirmedAt /\ op'.pc \in {op.pc, "read"}
        BY <2>1, <3>1, Zenon DEF Begin, Abort, Others, clientVars, IsOperation
      <3>3. Moves
        BY <1>2, <3>2, Zenon DEF Moves, LandingInv
      <3> QED BY <1>2, <3>1, <3>3, MovesKeep, Zenon
    <2> QED BY <1>2, <2>1, ClientLanding, IncludeLanding, Zenon DEF ClientNext
  <1>3. ClientInit => LandingInv
    BY DEF ClientInit, LandingInv
  <1>4. OperationInv /\ LandingInv => AppliesWhatWasSigned
    <2> SUFFICES ASSUME OperationInv, LandingInv PROVE AppliesWhatWasSigned
      BY Zenon
    <2>1. AppliesOverWhatWasSigned
      BY Zenon DEF OperationInv, Executed, AppliesOverWhatWasSigned
    <2>2. SignedAtALiveRevision
      BY Zenon DEF OperationInv, Checked, LiveAt, SignedAtALiveRevision
    <2>3. ReportedRevisionIsApplied
      BY Zenon DEF OperationInv, Confirmed, ReportedRevisionIsApplied
    <2>4. NothingAfterLanding
      BY Zenon DEF LandingInv, NothingAfterLanding
    <2> QED BY <2>1, <2>2, <2>3, <2>4, Zenon DEF AppliesWhatWasSigned
  <1> QED BY OperationInit, <1>1, <1>2, <1>3, <1>4, PTL DEF ClientSpec

-----------------------------------------------------------------------------
(* The relay.                                                              *)

Names == Range(Guardians)

(* A slot is empty or holds what its guardian signed.                      *)
SlotsOK ==
    /\ DOMAIN kv = Names
    /\ \A g \in Names : kv[g] # Nothing => Genuine(g, kv[g].body)

(* A PUT under way: the body parses, and from the look at the slot on it   *)
(* does not expire sooner than what was held then; past admission it is    *)
(* the guardian's own.                                                     *)
PutOK(q) ==
    /\ q.pc \in {"get", "admit", "put"} => q.body \in Bodies /\ Parses(q.body)
    /\ q.pc \in {"admit", "put"} => DOMAIN q = {"pc", "body", "held"} /\ ~ExpiresSooner(q.held, q.body)
    /\ q.pc = "put" => Admitted(q.body)

Fetched(q) == {a.guardian : a \in q.found}

Listing(q) == {q.names[k] : k \in 1 .. Len(q.names)}

(* The guardians a listing has still to come to.                           *)
Ahead(q) == {Guardians[i] : i \in {j \in DOMAIN Guardians : q.pc = "list" /\ j > q.cursor}}

(* A GET under way, of which the guardians of st were held throughout: its *)
(* names are of different guardians, all of them behind the cursor while   *)
(* it lists, and whoever was held throughout was fetched, is listed or is  *)
(* still ahead.                                                            *)
GetOK(q, st) ==
    q.pc \in {"list", "fetch"} =>
        /\ DOMAIN q = {"pc", "names", "cursor", "found"}
        /\ q.names \in Seq(Names) /\ q.cursor \in Nat
        /\ \A i, j \in 1 .. Len(q.names) : q.names[i] = q.names[j] => i = j
        /\ \A a, b \in q.found : a.guardian = b.guardian => a = b
        /\ Fetched(q) \cap Listing(q) = {}
        /\ q.pc = "list" => q.found = {} /\ Listing(q) \cap Ahead(q) = {}
        /\ st \subseteq Fetched(q) \cup Listing(q) \cup Ahead(q)

(* A GET answered.                                                         *)
ServedOK(q, st) ==
    q.pc = "answered" /\ q.status = 200 =>
        /\ \A a, b \in q.approvals : a.guardian = b.guardian => a = b
        /\ st \subseteq {a.guardian : a \in q.approvals}

RequestOK(q, st) == PutOK(q) /\ GetOK(q, st) /\ ServedOK(q, st)

RelayInv ==
    /\ SlotsOK
    /\ DOMAIN requests = Requests /\ DOMAIN steady = Requests
    /\ \A r \in Requests : requests[r].pc \in {"new", "get", "admit", "put", "list", "fetch", "answered"}
    /\ \A r \in Requests : RequestOK(requests[r], steady[r])

-----------------------------------------------------------------------------
(* What is held is some guardian's own.                                    *)
LEMMA HeldGenuine ==
    ASSUME SlotsOK
    PROVE  Held \subseteq Names /\ \A g \in Names : Value(g) # Nothing => Genuine(g, Value(g))
  BY Zenon DEF SlotsOK, Held, Value, Names

(* A request is as well off with fewer guardians held throughout, and      *)
(* before it starts nothing is said of it.                                 *)
LEMMA FewerSteady ==
    ASSUME NEW q, NEW st, NEW less, RequestOK(q, st), less \subseteq st \/ q.pc = "new"
    PROVE  RequestOK(q, less)
  BY DEF RequestOK, PutOK, GetOK, ServedOK

(* How the time of a request and the store's changes show in steady.       *)
Steady(r) == IF requests[r].pc = "new" THEN Held' ELSE steady[r] \cap Held'

LEMMA BecomeKeeps ==
    ASSUME RelayInv, NEW r \in Requests, NEW state, Become(r, state), SlotsOK',
           state.pc \in {"get", "admit", "put", "list", "fetch", "answered"},
           RequestOK(state, Steady(r))
    PROVE  RelayInv'
  <1>1. /\ DOMAIN requests' = Requests /\ DOMAIN steady' = Requests
        /\ requests'[r] = state
        /\ \A s \in Requests \ {r} : requests'[s] = requests[s]
        /\ \A s \in Requests : steady'[s] = Steady(s)
    BY Zenon DEF RelayInv, Become, Watch, Steady
  <1>2. ASSUME NEW s \in Requests PROVE RequestOK(requests'[s], steady'[s])
    <2>1. CASE s = r
      BY <2>1, <1>1, Zenon
    <2>2. CASE s # r
      <3>1. Steady(s) \subseteq steady[s] \/ requests[s].pc = "new"
        BY Zenon DEF Steady
      <3> QED BY <1>1, <2>2, <3>1, FewerSteady DEF RelayInv
    <2> QED BY <2>1, <2>2, Zenon
  <1>3. \A s \in Requests : requests'[s].pc \in {"new", "get", "admit", "put", "list", "fetch", "answered"}
    BY <1>1, Zenon DEF RelayInv
  <1> QED BY <1>1, <1>2, <1>3, Zenon DEF RelayInv

LEMMA RelayInit == Init => RelayInv
  BY DEF Init, RelayInv, SlotsOK, Names, RequestOK, PutOK, GetOK, ServedOK

(* An answer without approvals.                                            *)
LEMMA AnswerOK ==
    ASSUME NEW status \in {201, 400, 403, 409, 503}, NEW st
    PROVE  Answer(status).pc = "answered" /\ RequestOK(Answer(status), st)
  BY DEF Answer, RequestOK, PutOK, GetOK, ServedOK

LEMMA SameSlots == ASSUME SlotsOK, UNCHANGED kv PROVE SlotsOK'
  BY Zenon DEF SlotsOK

LEMMA PutInv ==
    ASSUME RelayInv, NEW r \in Requests, NEW body \in Posted, PutApproval(r, body)
    PROVE  RelayInv'
  <1>1. SlotsOK'
    BY SameSlots, Zenon DEF RelayInv, PutApproval
  <1>2. CASE Parses(body)
    <2> DEFINE q == [pc |-> "get", body |-> body]
    <2>1. RequestOK(q, Steady(r)) /\ q.pc = "get"
      BY <1>2, PostedAssumption, Zenon DEF RequestOK, PutOK, GetOK, ServedOK
    <2>2. Become(r, q)
      BY <1>2, Zenon DEF PutApproval
    <2> HIDE DEF q
    <2> QED BY <1>1, <2>1, <2>2, BecomeKeeps, Zenon
  <1>3. CASE ~Parses(body)
    BY <1>1, <1>3, AnswerOK, BecomeKeeps DEF PutApproval
  <1> QED BY <1>2, <1>3, Zenon

LEMMA GetHeldInv == ASSUME RelayInv, NEW r \in Requests, GetHeld(r) PROVE RelayInv'
  <1> DEFINE body == requests[r].body
             held == Value(body.guardian)
  <1>1. SlotsOK'
    BY SameSlots, Zenon DEF RelayInv, GetHeld
  <1>2. body \in Bodies /\ Parses(body)
    BY Zenon DEF RelayInv, RequestOK, PutOK, GetHeld
  <1>3. CASE ExpiresSooner(held, body)
    BY <1>1, <1>3, AnswerOK, BecomeKeeps DEF GetHeld
  <1>4. CASE ~ExpiresSooner(held, body)
    <2> DEFINE q == [pc |-> "admit", body |-> body, held |-> held]
    <2>1. Become(r, q)
      BY <1>4, Zenon DEF GetHeld
    <2> HIDE DEF body, held
    <2>2. RequestOK(q, Steady(r)) /\ q.pc = "admit"
      BY <1>2, <1>4, Zenon DEF RequestOK, PutOK, GetOK, ServedOK
    <2> HIDE DEF q
    <2> QED BY <1>1, <2>1, <2>2, BecomeKeeps, Zenon
  <1> QED BY <1>3, <1>4, Zenon

LEMMA AdmitInv == ASSUME RelayInv, NEW r \in Requests, Admit(r) PROVE RelayInv'
  <1>1. SlotsOK'
    BY SameSlots, Zenon DEF RelayInv, Admit
  <1>2. CASE Become(r, Answer(503)) \/ Become(r, Answer(403))
    BY <1>1, <1>2, AnswerOK, BecomeKeeps
  <1>3. CASE Admitted(requests[r].body) /\ Become(r, [requests[r] EXCEPT !.pc = "put"])
    <2> DEFINE q == [requests[r] EXCEPT !.pc = "put"]
    <2>1. PutOK(requests[r]) /\ requests[r].pc = "admit"
      BY Zenon DEF RelayInv, RequestOK, Admit
    <2>2. q.pc = "put" /\ q.body = requests[r].body /\ q.held = requests[r].held /\ DOMAIN q = DOMAIN requests[r]
      BY <2>1, Zenon DEF PutOK
    <2> HIDE DEF q
    <2>3. RequestOK(q, Steady(r))
      BY <2>1, <2>2, <1>3, Zenon DEF RequestOK, PutOK, GetOK, ServedOK
    <2> QED BY <1>1, <1>3, <2>2, <2>3, BecomeKeeps, Zenon DEF q
  <1> QED BY <1>2, <1>3 DEF Admit

(* What was admitted is the guardian's own: simulation takes no other call *)
(* than the statement's, and without it the statement is posted along, so  *)
(* that parsing has compared the two.                                      *)
LEMMA AdmittedGenuine ==
    ASSUME NEW body, Parses(body), Admitted(body)
    PROVE  Genuine(body.guardian, body)
  BY Zenon DEF Parses, Admitted, Simulates, SignedByGuardianKey, Genuine

LEMMA StoreInv == ASSUME RelayInv, NEW r \in Requests, Store(r) PROVE RelayInv'
  <1> DEFINE body == requests[r].body
             value == [body |-> body, forgotten |-> clock + Ttl]
  <1>1. body \in Bodies /\ Parses(body) /\ Admitted(body)
    BY Zenon DEF RelayInv, RequestOK, PutOK, Store
  <1>2. kv' = [kv EXCEPT ![body.guardian] = value] /\ Become(r, Answer(201))
    BY Zenon DEF Store
  <1>3. value.body = body
    BY Zenon
  <1> HIDE DEF body, value
  <1>4. SlotsOK'
    <2>1. Genuine(body.guardian, body) /\ body.guardian \in Names
      BY <1>1, AdmittedGenuine, Zenon DEF Bodies, Names
    <2> QED BY <1>2, <1>3, <2>1, Zenon DEF RelayInv, SlotsOK
  <1> QED BY <1>2, <1>4, AnswerOK, BecomeKeeps

LEMMA TickInv == ASSUME RelayInv, Tick PROVE RelayInv'
  <1>1. /\ SlotsOK' /\ requests' = requests /\ DOMAIN steady' = Requests
        /\ \A s \in Requests : steady'[s] = Steady(s)
    BY Zenon DEF RelayInv, Tick, Watch, Steady, SlotsOK
  <1>2. ASSUME NEW s \in Requests PROVE RequestOK(requests'[s], steady'[s])
    <2>1. Steady(s) \subseteq steady[s] \/ requests[s].pc = "new"
      BY Zenon DEF Steady
    <2> QED BY <1>1, <2>1, FewerSteady, Zenon DEF RelayInv
  <1> QED BY <1>1, <1>2, Zenon DEF RelayInv

-----------------------------------------------------------------------------
LEMMA GetInv == ASSUME RelayInv, NEW r \in Requests, Get(r) PROVE RelayInv'
  <1> DEFINE q == [pc |-> "list", names |-> <<>>, cursor |-> 0, found |-> {}]
  <1>1. SlotsOK' /\ Become(r, q)
    BY SameSlots, Zenon DEF RelayInv, Get
  <1>2. Steady(r) \subseteq Names
    <2>1. Held' \subseteq Names
      BY <1>1, HeldGenuine, Zenon DEF Held, Names
    <2> QED BY <2>1, Zenon DEF Steady, Get
  <1>3. Ahead(q) = Names
    <2>1. Ahead(q) = {Guardians[i] : i \in DOMAIN Guardians}
      BY GuardiansAssumption DEF Ahead
    <2> QED BY <2>1, Zenon DEF Names, Range
  <1>4. Listing(q) = {} /\ Fetched(q) = {}
    BY DEF Listing, Fetched
  <1>5. GetOK(q, Steady(r))
    BY <1>2, <1>3, <1>4 DEF GetOK
  <1>6. RequestOK(q, Steady(r)) /\ q.pc = "list"
    BY <1>5, Zenon DEF RequestOK, PutOK, ServedOK
  <1> HIDE DEF q
  <1> QED BY <1>1, <1>6, BecomeKeeps, Zenon

(* The first of the names after the cursor.                                *)
LEMMA FirstListed ==
    ASSUME NEW S \in SUBSET Nat, S # {}
    PROVE  LET i == CHOOSE i \in S : \A j \in S : i <= j
           IN  i \in S /\ \A j \in S : i <= j
  <1> DEFINE Less == {ss \in Nat \X Nat : ss[1] < ss[2]}
  <1>1. IsWellFoundedOn(Less, Nat)
    BY NatLessThanWellFounded, Zenon DEF OpToRel
  <1>2. PICK i \in S : \A j \in S : ~(<<j, i>> \in Less)
    <2> HIDE DEF Less
    <2> QED BY <1>1, WFMin, Zenon
  <1>3. ASSUME NEW j \in S PROVE i <= j
    <2>1. i \in Nat /\ j \in Nat /\ ~(<<j, i>> \in Less)
      BY <1>2, Zenon
    <2> QED BY <2>1
  <1> QED BY <1>3, Zenon

(* Those held throughout and still ahead are held now, hence listed next.  *)
LEMMA ListInv == ASSUME RelayInv, NEW r \in Requests, List(r) PROVE RelayInv'
  <1> DEFINE q == requests[r]
             after == Listed(q.cursor)
             st == Steady(r)
  <1>1. SlotsOK' /\ q.pc = "list" /\ GetOK(q, steady[r])
    BY SameSlots, Zenon DEF RelayInv, RequestOK, List
  <1>2. st \subseteq steady[r] /\ st \subseteq Held
    BY <1>1, Zenon DEF Steady, List, Held, Value
  <1>3. GetOK(q, st)
    BY <1>1, <1>2, Zenon DEF GetOK
  <1>4. after = {i \in DOMAIN Guardians : i > q.cursor /\ Guardians[i] \in Held}
    BY Zenon DEF Listed
  <1>5. q.cursor \in Nat /\ DOMAIN Guardians \subseteq Nat
    BY <1>1, GuardiansAssumption DEF GetOK
  <1> HIDE DEF q, after, st
  <1>6. CASE after = {}
    <2> DEFINE n == [q EXCEPT !.pc = "fetch"]
    <2>1. Become(r, n)
      BY <1>6, Zenon DEF List, q, after
    <2>2. n.pc = "fetch" /\ n.names = q.names /\ n.found = q.found /\ n.cursor = q.cursor /\ DOMAIN n = DOMAIN q
      BY <1>1, Zenon DEF GetOK
    <2> HIDE DEF n
    <2>3. st \cap Ahead(q) = {}
      BY <1>2, <1>4, <1>6, Zenon DEF Ahead
    <2>4. Listing(n) = Listing(q) /\ Fetched(n) = Fetched(q)
      BY <2>2, Zenon DEF Listing, Fetched
    <2>5. GetOK(n, st)
      BY <1>1, <1>3, <2>2, <2>3, <2>4, Zenon DEF GetOK
    <2>6. RequestOK(n, st)
      BY <2>2, <2>5, Zenon DEF RequestOK, PutOK, ServedOK
    <2> QED BY <1>1, <2>1, <2>2, <2>6, BecomeKeeps, Zenon DEF st
  <1>7. CASE after # {}
    <2> DEFINE i == CHOOSE i \in after : \A j \in after : i <= j
               n == [q EXCEPT !.names = Append(@, Guardians[i]), !.cursor = i,
                              !.pc = IF after = {i} THEN "fetch" ELSE "list"]
    <2>1. Become(r, n)
      BY <1>7, Zenon DEF List, q, after
    <2>2. i \in after /\ \A j \in after : i <= j
      <3>1. after \in SUBSET Nat
        BY <1>4, <1>5, Zenon
      <3> QED BY <1>7, <3>1, FirstListed, Zenon
    <2> HIDE DEF i
    <2>3. /\ n.pc = IF after = {i} THEN "fetch" ELSE "list"
          /\ n.names = Append(q.names, Guardians[i]) /\ n.found = q.found /\ n.cursor = i
          /\ DOMAIN n = DOMAIN q
      BY <1>1, Zenon DEF GetOK
    <2> HIDE DEF n
    <2>4. i \in DOMAIN Guardians /\ i \in Nat /\ i > q.cursor /\ Guardians[i] \in Names
      BY <2>2, <1>4, <1>5, Zenon DEF Names, Range
    <2>5. q.names \in Seq(Names) /\ Len(q.names) \in Nat
      BY <1>1 DEF GetOK
    <2>6. /\ n.names \in Seq(Names) /\ Len(n.names) = Len(q.names) + 1
          /\ \A k \in 1 .. Len(q.names) : n.names[k] = q.names[k]
          /\ n.names[Len(q.names) + 1] = Guardians[i]
      BY <2>3, <2>4, <2>5
    <2>7. Listing(n) = Listing(q) \cup {Guardians[i]}
      <3>1. 1 .. Len(n.names) = (1 .. Len(q.names)) \cup {Len(q.names) + 1}
        BY <2>5, <2>6
      <3>2. Listing(n) \subseteq Listing(q) \cup {Guardians[i]}
        BY <2>6, <3>1, Zenon DEF Listing
      <3>3. Listing(q) \subseteq Listing(n) /\ Guardians[i] \in Listing(n)
        BY <2>6, <3>1, Zenon DEF Listing
      <3> QED BY <3>2, <3>3, Zenon
    <2>8. Guardians[i] \in Ahead(q) /\ Guardians[i] \notin Listing(q)
      BY <1>1, <2>4 DEF Ahead, GetOK
    <2>9. \A k, l \in 1 .. Len(n.names) : n.names[k] = n.names[l] => k = l
      <3> SUFFICES ASSUME NEW k \in 1 .. Len(q.names) + 1, NEW l \in 1 .. Len(q.names) + 1,
                          n.names[k] = n.names[l]
                   PROVE  k = l
        BY <2>6, Zenon
      <3>1. CASE k \in 1 .. Len(q.names) /\ l \in 1 .. Len(q.names)
        BY <3>1, <2>6, <1>1, Zenon DEF GetOK
      <3>2. CASE k \in 1 .. Len(q.names) /\ l = Len(q.names) + 1
        BY <3>2, <2>6, <2>8, Zenon DEF Listing
      <3>3. CASE k = Len(q.names) + 1 /\ l \in 1 .. Len(q.names)
        BY <3>3, <2>6, <2>8, Zenon DEF Listing
      <3> QED BY <2>5, <3>1, <3>2, <3>3
    <2>10. n.pc = "list" => Ahead(n) \subseteq Ahead(q) /\ Guardians[i] \notin Ahead(n)
      <3>1. ASSUME NEW j \in DOMAIN Guardians, j > i PROVE j > q.cursor /\ Guardians[j] # Guardians[i]
        BY <3>1, <2>4, <1>5, GuardiansAssumption
      <3> QED BY <3>1, <1>1, <2>3, <2>4, Zenon DEF Ahead
    <2>11. st \cap Ahead(q) \subseteq {Guardians[i]} \cup Ahead(n)
      <3> SUFFICES ASSUME NEW j \in DOMAIN Guardians, j > q.cursor, Guardians[j] \in st, j # i
                   PROVE  Guardians[j] \in Ahead(n)
        BY <1>1, Zenon DEF Ahead
      <3>1. j \in after
        BY <1>2, <1>4, Zenon
      <3>2. j > i /\ n.pc = "list"
        BY <3>1, <2>2, <2>3, <2>4, <1>5
      <3> QED BY <3>2, <2>3, Zenon DEF Ahead
    <2>12. Fetched(n) = {} /\ n.found = {}
      BY <1>1, <2>3 DEF Fetched, GetOK
    <2>13. GetOK(n, st)
      <3>1. st \subseteq Fetched(n) \cup Listing(n) \cup Ahead(n)
        <4>1. st \subseteq Listing(q) \cup Ahead(q)
          BY <1>1, <1>3, Zenon DEF GetOK, Fetched
        <4> QED BY <4>1, <2>7, <2>11, Zenon
      <3>2. n.pc = "list" => Listing(n) \cap Ahead(n) = {}
        BY <1>1, <2>7, <2>10 DEF GetOK
      <3>3. DOMAIN n = {"pc", "names", "cursor", "found"} /\ n.cursor \in Nat
        BY <1>1, <2>3, <2>4, Zenon DEF GetOK
      <3> QED BY <3>1, <3>2, <3>3, <2>6, <2>9, <2>12, Zenon DEF GetOK
    <2>14. RequestOK(n, st) /\ n.pc \in {"list", "fetch"}
      BY <2>3, <2>13, Zenon DEF RequestOK, PutOK, ServedOK
    <2> QED BY <1>1, <2>1, <2>14, BecomeKeeps, Zenon DEF st
  <1> QED BY <1>6, <1>7, Zenon

(* A name fetched is one name fewer, and its value, if it is still held,   *)
(* one approval more, its guardian's own.                                  *)
LEMMA FetchInv == ASSUME RelayInv, NEW r \in Requests, Fetch(r) PROVE RelayInv'
  <1> DEFINE q == requests[r]
             st == Steady(r)
  <1>1. SlotsOK /\ SlotsOK' /\ q.pc = "fetch" /\ GetOK(q, steady[r])
    BY SameSlots, Zenon DEF RelayInv, RequestOK, Fetch
  <1>2. st \subseteq steady[r] /\ st \subseteq Held
    BY <1>1, Zenon DEF Steady, Fetch, Held, Value
  <1>3. GetOK(q, st)
    BY <1>1, <1>2, Zenon DEF GetOK
  <1>4. Ahead(q) = {}
    BY <1>1, Zenon DEF Ahead
  <1> HIDE DEF q, st
  <1>5. st \subseteq Fetched(q) \cup Listing(q) /\ q.names \in Seq(Names)
    BY <1>1, <1>3, <1>4, Zenon DEF GetOK
  <1>6. CASE q.names = <<>>
    <2> DEFINE n == [Answer(200) EXCEPT !.approvals = q.found]
    <2>1. Become(r, n)
      BY <1>6, Zenon DEF Fetch, q
    <2>2. n.pc = "answered" /\ n.approvals = q.found
      BY Zenon DEF Answer
    <2> HIDE DEF n
    <2>3. Listing(q) = {}
      BY <1>6 DEF Listing
    <2>4. ServedOK(n, st)
      BY <1>1, <1>5, <2>2, <2>3 DEF ServedOK, GetOK, Fetched
    <2>5. RequestOK(n, st)
      BY <2>2, <2>4, Zenon DEF RequestOK, PutOK, GetOK
    <2> QED BY <1>1, <2>1, <2>2, <2>5, BecomeKeeps, Zenon DEF st
  <1>7. CASE q.names # <<>>
    <2> DEFINE g == Head(q.names)
               value == Value(g)
               n == [q EXCEPT !.names = Tail(@), !.found = IF value = Nothing THEN @ ELSE @ \cup {value}]
    <2>1. Become(r, n)
      BY <1>7, Zenon DEF Fetch, q
    <2>2. /\ n.pc = "fetch" /\ n.names = Tail(q.names) /\ n.cursor = q.cursor /\ DOMAIN n = DOMAIN q
          /\ n.found = IF value = Nothing THEN q.found ELSE q.found \cup {value}
      BY <1>1, Zenon DEF GetOK
    <2>3. g \in Names /\ (value # Nothing => value.guardian = g) /\ (value = Nothing => g \notin st)
      <3>1. g \in Names
        BY <1>5, <1>7
      <3>2. value # Nothing => value.guardian = g
        BY <1>1, <3>1, HeldGenuine, Zenon DEF Genuine
      <3>3. value = Nothing => g \notin st
        BY <1>2, Zenon DEF Held
      <3> QED BY <3>1, <3>2, <3>3, Zenon
    <2> HIDE DEF n
    <2>4. /\ Len(q.names) \in Nat \ {0} /\ n.names \in Seq(Names) /\ Len(n.names) = Len(q.names) - 1
          /\ \A k \in 1 .. Len(n.names) : n.names[k] = q.names[k + 1] /\ k + 1 \in 1 .. Len(q.names)
          /\ g = q.names[1] /\ 1 \in 1 .. Len(q.names)
      BY <1>5, <1>7, <2>2
    <2> HIDE DEF g, value
    <2>5. \A k, l \in 1 .. Len(n.names) : n.names[k] = n.names[l] => k = l
      <3> SUFFICES ASSUME NEW k \in 1 .. Len(n.names), NEW l \in 1 .. Len(n.names), n.names[k] = n.names[l]
                   PROVE  k = l
        BY Zenon
      <3>1. k + 1 = l + 1
        BY <2>4, <1>1 DEF GetOK
      <3> QED BY <3>1, <2>4
    <2>6. Listing(q) = {g} \cup Listing(n) /\ g \notin Listing(n)
      <3>1. Listing(n) \subseteq Listing(q) /\ g \in Listing(q)
        BY <2>4, Zenon DEF Listing
      <3>2. ASSUME NEW k \in 1 .. Len(q.names) PROVE q.names[k] \in {g} \cup Listing(n)
        <4>1. CASE k = 1
          BY <4>1, <2>4, Zenon
        <4>2. CASE k # 1
          <5>1. k - 1 \in 1 .. Len(n.names) /\ (k - 1) + 1 = k
            BY <4>2, <2>4
          <5> QED BY <5>1, <2>4, ZenonT(40) DEF Listing
        <4> QED BY <4>1, <4>2, Zenon
      <3>3. ASSUME NEW k \in 1 .. Len(n.names) PROVE n.names[k] # g
        <4>1. k + 1 # 1
          BY <2>4
        <4> QED BY <4>1, <2>4, <1>1, Zenon DEF GetOK
      <3> QED BY <3>1, <3>2, <3>3, Zenon DEF Listing
    <2>7. g \notin Fetched(q)
      BY <2>6, <1>1, Zenon DEF GetOK
    <2>8. Fetched(n) = IF value = Nothing THEN Fetched(q) ELSE Fetched(q) \cup {g}
      BY <2>2, <2>3, Zenon DEF Fetched
    <2>9. \A a, b \in n.found : a.guardian = b.guardian => a = b
      BY <1>1, <2>2, <2>3, <2>7 DEF GetOK, Fetched
    <2>10. Fetched(n) \cap Listing(n) = {}
      BY <1>1, <2>6, <2>8 DEF GetOK
    <2>11. st \subseteq Fetched(n) \cup Listing(n)
      BY <1>5, <2>3, <2>6, <2>8, Zenon
    <2>12. GetOK(n, st)
      <3>1. DOMAIN n = {"pc", "names", "cursor", "found"} /\ n.cursor \in Nat
        BY <1>1, <2>2, Zenon DEF GetOK
      <3> QED BY <3>1, <2>2, <2>4, <2>5, <2>9, <2>10, <2>11, Zenon DEF GetOK
    <2>13. RequestOK(n, st)
      BY <2>2, <2>12, Zenon DEF RequestOK, PutOK, ServedOK
    <2> QED BY <1>1, <2>1, <2>2, <2>13, BecomeKeeps, Zenon DEF st
  <1> QED BY <1>6, <1>7, Zenon

-----------------------------------------------------------------------------
LEMMA NextInv == ASSUME RelayInv, [Next]_vars PROVE RelayInv'
  <1>1. ASSUME NEW r \in Requests, NEW body \in Posted, PutApproval(r, body) PROVE RelayInv'
    BY <1>1, PutInv, Zenon
  <1>2. ASSUME NEW r \in Requests, Get(r) PROVE RelayInv'
    BY <1>2, GetInv, Zenon
  <1>3. ASSUME NEW r \in Requests, Go(r) PROVE RelayInv'
    BY <1>3, GetHeldInv, AdmitInv, StoreInv, ListInv, FetchInv, Zenon DEF Go
  <1>4. CASE Tick
    BY <1>4, TickInv, Zenon
  <1>5. CASE UNCHANGED vars
    BY <1>5, Zenon DEF vars, RelayInv, SlotsOK
  <1> QED BY <1>1, <1>2, <1>3, <1>4, <1>5, Zenon DEF Next

(* The relay keeps its promises: however requests interleave, a slot holds *)
(* only what its guardian signed, a GET serves every approval held from    *)
(* its start to its end and no two of one guardian, and an approval gives  *)
(* way to one that expires sooner only if it was stored during admission.  *)
THEOREM RelayKeeps == Spec => RelayKeepsApprovals
  <1>1. RelayInv => SlotsAreGenuine /\ ServesWhatIsHeld
    <2> SUFFICES ASSUME RelayInv PROVE SlotsAreGenuine /\ ServesWhatIsHeld
      BY Zenon
    <2>1. SlotsAreGenuine
      BY HeldGenuine, Zenon DEF RelayInv, SlotsAreGenuine, Held, Names
    <2>2. ServesWhatIsHeld
      BY Zenon DEF RelayInv, RequestOK, ServedOK, ServesWhatIsHeld
    <2> QED BY <2>1, <2>2, Zenon
  <1> DEFINE Unseen ==
               \A r \in Requests : requests[r].pc = "put" /\ requests[r]'.pc = "answered" =>
                   LET body == requests[r].body
                       replaced == Value(body.guardian)
                   IN  replaced # Nothing /\ replaced.expiresAt > body.expiresAt => requests[r].held # replaced
  <1>2. RelayInv => Unseen
    BY Zenon DEF RelayInv, RequestOK, PutOK, ExpiresSooner
  <1>3. SoonerOnlyUnseen <=> [][Unseen]_vars
    BY Zenon DEF SoonerOnlyUnseen
  <1> HIDE DEF Unseen
  <1> QED BY RelayInit, NextInv, <1>1, <1>2, <1>3, PTL DEF Spec, RelayKeepsApprovals
=============================================================================
