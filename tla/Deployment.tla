----------------------------- MODULE Deployment -----------------------------
(***************************************************************************)
(* The commands of perch-deploy (apply.rs, publish.rs, verify.rs,          *)
(* compose.rs) at work on one account: each RPC call is a step, and        *)
(* between two of them other runs, other administrators and late           *)
(* transactions act. A run is one invocation of the tool; running a        *)
(* command again is another run of the same command.                       *)
(*                                                                         *)
(* A command is [kind |-> "apply", doc, key, dry],                         *)
(* [kind |-> "publish", name, version, wasm, inline, verifier, ruleId,     *)
(*  key, dry] or [kind |-> "verify", doc].                                 *)
(***************************************************************************)
EXTENDS SignedInvocation

CONSTANTS
    ToolRuns,   \* the invocations of the tool
    Cmd,        \* [ToolRuns -> command]
    OtherDocs,  \* documents another administrator may apply
    MaxOther    \* how often

ASSUME CmdAssumption ==
    /\ None \notin Nat
    /\ \A r \in ToolRuns : Cmd[r].kind \in {"apply", "publish", "verify"}

VARIABLES
    pc,         \* [ToolRuns -> the step a run is at, or its outcome]
    local,      \* [ToolRuns -> what the run holds]
    others      \* applies of other administrators so far

tools == <<pc, local>>
vars == <<chain, tools, others>>

Outcomes == {"failed", "timed out", "stale", "rejected", "dry", "applied", "published",
             "already published", "hash mismatch", "unexpected trap",
             "no admin", "changed", "verification failed", "verified"}

(* local: the revision a run read and the document it belonged to, how the *)
(* entry is to be signed, the call and the transaction, verify's snapshot, *)
(* its place in the rules and whether a row mismatched; and, for the       *)
(* properties only, whether the name was bound at the preflight.           *)
Fresh == [revision |-> None, seen |-> None, ruleId |-> None, verifier |-> None, call |-> None,
          tx |-> None, snapshot |-> <<>>, next |-> 1, bad |-> FALSE, bound |-> FALSE]

Init ==
    /\ ChainInit
    /\ pc = [r \in ToolRuns |-> "start"] /\ local = [r \in ToolRuns |-> Fresh]
    /\ others = 0

Goto(r, step) == pc' = [pc EXCEPT ![r] = step]
Reads == UNCHANGED <<chain, others>>

(***************************************************************************)
(* apply.rs.                                                               *)
(***************************************************************************)
(* The External signers of the first self-admin rule named admin whose key *)
(* is key.                                                                 *)
OnchainAdmin(key) ==
    LET admin == {i \in DOMAIN acct.rules :
                    acct.rules[i].name = "admin" /\ ~acct.rules[i].recovery /\ acct.rules[i].ctx = Account}
        first == acct.rules[CHOOSE i \in admin : \A j \in admin : i <= j]
    IN  IF admin = {} THEN {}
        ELSE {[ruleId |-> first.id, verifier |-> s[2]] :
                s \in {t \in first.signers : t[1] = "External" /\ t[3] = key}}

(* Mutant: the apply names no revision.                                    *)
ApplyArgsAnyRevision(doc, revision) == ApplyCall(doc, None)

ApplyArgs(doc, revision) == ApplyCall(doc, revision)

ReadAdmin(r) ==
    /\ Cmd[r].kind = "apply" /\ pc[r] = "start"
    /\ IF OnchainAdmin(Cmd[r].key) = {}
       THEN Goto(r, "no admin") /\ UNCHANGED local
       ELSE LET admin == CHOOSE a \in OnchainAdmin(Cmd[r].key) : TRUE
            IN  /\ local' = [local EXCEPT ![r].revision = acct.revision, ![r].seen = acct.doc,
                       ![r].ruleId = admin.ruleId, ![r].verifier = admin.verifier,
                       ![r].call = ApplyArgs(Cmd[r].doc, acct.revision)]
                /\ Goto(r, "simulate")
    /\ Reads

(***************************************************************************)
(* publish.rs.                                                             *)
(***************************************************************************)
NoSuchWasmPublished == 1
NoSuchVersion == 2

(* fetch_hash: a wasm, or the code of the error it traps with.             *)
FetchHash(name, version) ==
    IF name \in BadNames THEN [code |-> 8]
    ELSE IF <<name, version>> \in DOMAIN published THEN [wasm |-> published[<<name, version>>]]
    ELSE IF \E b \in DOMAIN published : b[1] = name THEN [code |-> NoSuchVersion]
    ELSE [code |-> NoSuchWasmPublished]

PreflightDecision(outcome, wasm) ==
    IF "code" \in DOMAIN outcome
    THEN IF outcome.code \in {NoSuchWasmPublished, NoSuchVersion} THEN "Proceed" ELSE "unexpected trap"
    ELSE IF outcome.wasm = wasm THEN "already published" ELSE "hash mismatch"

Preflight(r) ==
    LET cmd == Cmd[r]
        decision == PreflightDecision(FetchHash(cmd.name, cmd.version), cmd.wasm)
    IN  /\ cmd.kind = "publish" /\ pc[r] = "start"
        /\ IF decision = "Proceed"
           THEN Goto(r, IF cmd.inline THEN "simulate" ELSE "upload")
           ELSE Goto(r, decision)
        /\ local' = [local EXCEPT ![r].ruleId = cmd.ruleId, ![r].verifier = cmd.verifier,
               ![r].bound = <<cmd.name, cmd.version>> \in DOMAIN published,
               ![r].call = PublishCall(IF cmd.inline THEN "publish" ELSE "publish_hash",
                                       cmd.name, cmd.version, cmd.wasm)]
        /\ Reads

(***************************************************************************)
(* run_upload and run_signed of tx.rs.                                     *)
(***************************************************************************)
AccountSeq(key) == seqs[key]

BuildTx(r, call) == [source |-> Cmd[r].key, seq |-> AccountSeq(Cmd[r].key) + 1, call |-> call, auth |-> None]

(* simulateTransaction: before it is signed a call records its auth entry, *)
(* after it is enforced.                                                   *)
Simulation(tx) == [error |-> ~Executes(tx), latestLedger |-> ledger]

AfterUploadSimulation(r) == IF Cmd[r].dry THEN "simulate" ELSE "send upload"

PrepareUpload(r) ==
    /\ pc[r] = "upload"
    /\ local' = [local EXCEPT ![r].tx = BuildTx(r, UploadCall(Cmd[r].wasm))]
    /\ Goto(r, AfterUploadSimulation(r))
    /\ Reads

(* Through the first simulation, which reports the ledger the signature    *)
(* expires by, to the signed entry. A command with a verifier signs as an  *)
(* External signer, one without as a Delegated one.                        *)
Simulate(r) ==
    LET tx == BuildTx(r, local[r].call)
        sim == Simulation(tx)
        expiration == sim.latestLedger + Lifetime
    IN  /\ pc[r] = "simulate"
        /\ IF sim.error THEN Goto(r, "stale") /\ UNCHANGED local
           ELSE /\ local' = [local EXCEPT ![r].tx = [tx EXCEPT !.auth =
                       IF local[r].verifier # None
                       THEN SignAuthEntry(r, expiration, tx.call, Cmd[r].key, local[r].verifier, local[r].ruleId)
                       ELSE SignDelegatedAuthEntry(r, expiration, tx.call, Cmd[r].key, local[r].ruleId)]]
                /\ Goto(r, "resimulate")
        /\ Reads

(* The second simulation enforces the signed entry.                        *)
Resimulate(r) ==
    /\ pc[r] = "resimulate"
    /\ Goto(r, IF Simulation(local[r].tx).error THEN "rejected" ELSE IF Cmd[r].dry THEN "dry" ELSE "send")
    /\ UNCHANGED local /\ Reads

(* sendTransaction: refused on a sequence number already used; enqueued;   *)
(* or, while another transaction of the source is pending, neither.        *)
Send(r) ==
    /\ pc[r] \in {"send", "send upload"}
    /\ LET tx == local[r].tx
           poll == IF pc[r] = "send" THEN "poll" ELSE "poll upload"
       IN  \/ tx.seq <= seqs[tx.source] /\ Goto(r, "failed") /\ UNCHANGED mempool
           \/ tx.seq > seqs[tx.source] /\ Goto(r, poll) /\ mempool' = mempool \cup {tx}
           \/ (\E t \in mempool : t.source = tx.source /\ t.seq > seqs[t.source])
              /\ Goto(r, poll) /\ UNCHANGED mempool
    /\ UNCHANGED <<local, acct, programs, published, uploaded, seqs, nonces, status, ledger, others>>

Done(r) == IF pc[r] = "poll upload" THEN "simulate"
           ELSE IF Cmd[r].kind = "apply" THEN "applied" ELSE "published"

Poll(r) ==
    /\ pc[r] \in {"poll", "poll upload"} /\ local[r].tx \in DOMAIN status
    /\ Goto(r, IF status[local[r].tx] = "Success" THEN Done(r) ELSE "failed")
    /\ UNCHANGED local /\ Reads

(* Mutant: a transaction that is not found is waited for without end.      *)
TimeoutNever(r) == pc[r] = "poll" /\ FALSE /\ Goto(r, "timed out") /\ UNCHANGED local /\ Reads

(* Mutant: an upload that times out is taken for done.                     *)
TimeoutGoesOn(r) ==
    /\ pc[r] \in {"poll", "poll upload"} /\ local[r].tx \notin DOMAIN status
    /\ Goto(r, IF pc[r] = "poll upload" THEN "simulate" ELSE "timed out")
    /\ UNCHANGED local /\ Reads

(* The deadline passes before the transaction is found.                    *)
Timeout(r) ==
    /\ pc[r] \in {"poll", "poll upload"} /\ local[r].tx \notin DOMAIN status
    /\ Goto(r, "timed out")
    /\ UNCHANGED local /\ Reads

(* Any RPC call may fail, and the operator may stop the tool.              *)
Fail(r) ==
    /\ pc[r] \notin Outcomes
    /\ Goto(r, "failed")
    /\ UNCHANGED local /\ Reads

(***************************************************************************)
(* compose.rs and verify.rs.                                               *)
(***************************************************************************)
Entry(r) == [name |-> r.name, ctx |-> r.scope, install |-> r.install]

(* compose: one policy-free self-admin rule, first, then the others.       *)
Composes(doc) ==
    LET admins == SelectSeq(doc.rules, LAMBDA r : r.scope = Account)
    IN  Len(admins) <= 1 /\ \A i \in DOMAIN admins : admins[i].install = None

Compose(doc) ==
    LET admins == SelectSeq(doc.rules, LAMBDA r : r.scope = Account)
        applied == SelectSeq(doc.rules, LAMBDA r : r.scope # Account)
        all == admins \o applied
    IN  [i \in DOMAIN all |-> Entry(all[i])]

ASSUME ComposeAssumption ==
    \A r \in ToolRuns : Cmd[r].kind = "verify" => Len(Compose(Cmd[r].doc)) \in Nat

(* configuration(): the revision and the rules, at one ledger; and the     *)
(* applied hash, its own read.                                             *)
Snapshot(r) ==
    /\ Cmd[r].kind = "verify" /\ Composes(Cmd[r].doc) /\ pc[r] = "start"
    /\ local' = [local EXCEPT ![r].revision = acct.revision, ![r].snapshot = acct.rules]
    /\ Goto(r, "hash")
    /\ Reads

CheckAppliedHash(r) ==
    /\ pc[r] = "hash"
    /\ local' = [local EXCEPT ![r].bad = acct.doc # Cmd[r].doc.hash]
    /\ Goto(r, "rules")
    /\ Reads

(* The first rule of the snapshot with the name.                           *)
Named(rules, name) ==
    {rules[i] : i \in {k \in DOMAIN rules : rules[k].name = name
                                            /\ \A j \in 1 .. k - 1 : rules[j].name # name}}

ProgramMatches(want, id) == IF id \in DOMAIN programs THEN programs[id] = want ELSE want = None

(* check_rule and check_program of the next composed rule.                 *)
CheckRule(r) ==
    LET want == Compose(Cmd[r].doc)[local[r].next]
        ok == \E c \in Named(local[r].snapshot, want.name) :
                  c.ctx = want.ctx /\ ProgramMatches(want.install, c.id)
    IN  /\ pc[r] = "rules" /\ local[r].next <= Len(Compose(Cmd[r].doc))
        /\ local' = [local EXCEPT ![r].next = @ + 1, ![r].bad = @ \/ ~ok]
        /\ UNCHANGED pc /\ Reads

CountMatches(r) == Len(local[r].snapshot) = Len(Compose(Cmd[r].doc))

(* Mutant: the revision is not read again.                                 *)
VerdictOnce(r) == IF local[r].bad \/ ~CountMatches(r) THEN "verification failed" ELSE "verified"

(* The exact count, then the revision read again.                          *)
Verdict(r) ==
    IF acct.revision # local[r].revision THEN "changed"
    ELSE IF local[r].bad \/ ~CountMatches(r) THEN "verification failed"
    ELSE "verified"

Conclude(r) ==
    /\ pc[r] = "rules" /\ local[r].next > Len(Compose(Cmd[r].doc))
    /\ Goto(r, Verdict(r))
    /\ UNCHANGED local /\ Reads

(***************************************************************************)
(* Others.                                                                 *)
(***************************************************************************)
(* Another administrator's client applies a document.                      *)
OtherApply(doc) ==
    /\ others < MaxOther /\ others' = others + 1
    /\ Install(doc)
    /\ UNCHANGED <<published, uploaded, seqs, nonces, mempool, status, ledger, tools>>

Step(r) ==
    \/ ReadAdmin(r) \/ Preflight(r) \/ PrepareUpload(r) \/ Simulate(r) \/ Resimulate(r)
    \/ Send(r) \/ Poll(r) \/ Timeout(r)
    \/ Snapshot(r) \/ CheckAppliedHash(r) \/ CheckRule(r) \/ Conclude(r)

Next ==
    \/ \E r \in ToolRuns : Step(r) \/ Fail(r)
    \/ \E tx \in mempool : (Include(tx) \/ Forget(tx)) /\ UNCHANGED <<tools, others>>
    \/ CloseLedger /\ UNCHANGED <<tools, others>>
    \/ \E doc \in OtherDocs : OtherApply(doc)

(* A started run goes on: a sequential program whose calls have a timeout  *)
(* of 30 s and whose wait for a transaction has a deadline of 60 s.        *)
Fairness == WF_vars(\E r \in ToolRuns : pc[r] # "start" /\ Step(r))

Spec == Init /\ [][Next]_vars /\ Fairness

(***************************************************************************)
(* Properties.                                                             *)
(***************************************************************************)
(* apply.rs: "it never overwrites a change made after that read": when a   *)
(* run's document lands, the account has the document the run read, though *)
(* the transaction may land long after the tool gave up on it.             *)
NeverOverwrites ==
    [][\A r \in ToolRuns :
           Cmd[r].kind = "apply" /\ local[r].tx # None
           /\ local[r].tx \notin DOMAIN status /\ local[r].tx \in DOMAIN status'
           /\ status'[local[r].tx] = "Success"
           => acct.doc = local[r].seen /\ acct.revision = local[r].revision]_vars

(* publish.rs: a run that writes its receipt, or says that there is        *)
(* nothing to do, leaves the name and version bound to its own bytes.      *)
PublishedIsLocal ==
    \A r \in ToolRuns : pc[r] \in {"published", "already published"} =>
        /\ <<Cmd[r].name, Cmd[r].version>> \in DOMAIN published
        /\ published[<<Cmd[r].name, Cmd[r].version>>] = Cmd[r].wasm

(* tx.rs: publish_hash does not check the upload, so the tool must: a name *)
(* is never bound to a wasm that is not on the ledger, whatever times out, *)
(* fails or lands late.                                                    *)
BoundIsUploaded == \A b \in DOMAIN published : published[b] \in uploaded

(* The publish is idempotent: a run that begins once the name and version  *)
(* are bound, after a timeout or not, sends nothing.                       *)
RerunSendsNothing ==
    \A r \in ToolRuns : local[r].bound => local[r].tx = None

(* A dry run puts nothing on the network, its upload included: each        *)
(* transaction there is one that a run which is not dry has sent.          *)
DryRunSendsNothing ==
    /\ \A r \in ToolRuns : Cmd[r].kind # "verify" /\ Cmd[r].dry =>
           pc[r] \notin {"poll", "poll upload", "applied", "published"}
    /\ \A tx \in mempool \cup DOMAIN status : \E r \in ToolRuns :
           /\ Cmd[r].kind # "verify" /\ ~Cmd[r].dry /\ tx.source = Cmd[r].key
           /\ IF tx.call.fn = "upload"
              THEN Cmd[r].kind = "publish" /\ tx.call = UploadCall(Cmd[r].wasm)
              ELSE tx.call = local[r].call /\ tx.auth.nonce = r

(* A publish binds uploaded bytes, says of no others that they are its     *)
(* own, and sends nothing more than is needed, however often it is run.    *)
PublishIsFaithful == PublishedIsLocal /\ BoundIsUploaded /\ RerunSendsNothing /\ DryRunSendsNothing

(* Every run that begins ends, the wait for a transaction the network      *)
(* dropped included: from some point on no run is under way.               *)
EveryRunEnds == <>[](\A r \in ToolRuns : pc[r] \in {"start"} \cup Outcomes)

(* A rule of the account is the composed rule want.                        *)
RuleIsReviewed(want) ==
    \E c \in Range(acct.rules) :
        c.name = want.name /\ c.ctx = want.ctx /\ ProgramMatches(want.install, c.id)

(* The account holds exactly what run r verified.                          *)
InstalledIsReviewed(r) ==
    LET want == Compose(Cmd[r].doc)
    IN  /\ acct.revision = local[r].revision /\ acct.doc = Cmd[r].doc.hash
        /\ Len(acct.rules) = Len(want)
        /\ \A i \in 1 .. Len(want) : RuleIsReviewed(want[i])

(* "verification OK: installed == reviewed": the reads of a verify are     *)
(* steps of their own, and when it says OK the account holds, at the       *)
(* revision it printed, the rules of the document and nothing else, each   *)
(* with its program.                                                       *)
VerifiedMeansInstalled ==
    [][\A r \in ToolRuns : pc[r] # "verified" /\ pc'[r] = "verified" => InstalledIsReviewed(r)]_vars

(* verify.rs: "the document's rules are exactly the account's rules. A     *)
(* count mismatch means a leftover or a missing rule": a verification that *)
(* fails found a document that is not the applied one.                     *)
AppliedVerifies ==
    [][\A r \in ToolRuns : pc[r] # "verification failed" /\ pc'[r] = "verification failed" =>
           acct.doc # Cmd[r].doc.hash]_vars

=============================================================================
