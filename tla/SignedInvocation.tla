-------------------------- MODULE SignedInvocation --------------------------
(***************************************************************************)
(* The write path of perch-deploy (tx.rs, auth.rs, rpc.rs, scv.rs): what a *)
(* command signs, and the account, the registry and the network it is sent *)
(* to. Hashes and signatures are free constructors: a digest is the tuple  *)
(* of what it is taken of, a signature the pair of a key and a digest.     *)
(*                                                                         *)
(* A document is [hash, rules, recovery]; its rules are the plan of        *)
(* PolicyLowering reduced to [name, scope, signers, install, over], where  *)
(* over says that the rule's last ledger has passed.                       *)
(***************************************************************************)
EXTENDS Integers, Sequences, FiniteSets, Functions

CONSTANTS
    Account,     \* the smart account
    Registry,    \* the wasm registry
    Passphrase,  \* the network
    Keys,        \* the signing keys, which also pay
    AdminSigners,\* the signers of the genesis admin rule: External(verifier, key) pairs
    BadNames,    \* wasm names the registry traps on
    Lifetime,    \* ledgers a signature lives: the 120 of run_signed
    LedgerMax,   \* bound on the ledger
    None

VARIABLES
    acct,        \* [revision, doc, rules, nextId]: the account's configuration
    programs,    \* the interpreter's programs: [rule ids -> install]
    published,   \* the registry: [<<name, version>> -> wasm]
    uploaded,    \* the wasms on the ledger
    seqs,        \* [Keys -> sequence number]
    nonces,      \* nonces the host has consumed
    mempool,     \* transactions the network may still include, again or late
    status,      \* [included transactions -> "Success", "Failed"]
    ledger

chain == <<acct, programs, published, uploaded, seqs, nonces, mempool, status, ledger>>

(* The function f with v at k.                                             *)
Bind(f, k, v) == [x \in DOMAIN f \cup {k} |-> IF x = k THEN v ELSE f[x]]

SelfAdminRule == [id |-> 0, name |-> "admin", ctx |-> Account, recovery |-> FALSE,
                  signers |-> AdminSigners, install |-> None]

ChainInit ==
    /\ acct = [revision |-> 0, doc |-> None, rules |-> <<SelfAdminRule>>, nextId |-> 1]
    /\ programs = <<>> /\ published = <<>> /\ uploaded = {}
    /\ seqs = [k \in Keys |-> 0] /\ nonces = {} /\ mempool = {} /\ status = <<>>
    /\ ledger = 1

(***************************************************************************)
(* auth.rs: the digests and the payload of an auth entry.                  *)
(***************************************************************************)
SignaturePayload(nonce, expiration, call) == <<"auth", Passphrase, nonce, expiration, call>>

SignaturePayloadWithAddress(nonce, expiration, call, address) ==
    <<"auth-with-address", Passphrase, nonce, expiration, call, address>>

PerchAuthDigest(account, payload, ids) == <<"oz", <<"bound", account, payload>>, ids>>

ExternalSigner(verifier, key) == <<"External", verifier, key>>
DelegatedSigner(key) == <<"Delegated", key>>

(* sign_auth_entry.                                                        *)
SignAuthEntry(nonce, expiration, call, key, verifier, ruleId) ==
    [address |-> Account, nonce |-> nonce, expiration |-> expiration, ids |-> <<ruleId>>,
     signer |-> ExternalSigner(verifier, key),
     signature |-> <<key, PerchAuthDigest(Account, SignaturePayload(nonce, expiration, call), <<ruleId>>)>>]

(* sign_delegated_auth_entry: the payload names the signer, and the key's  *)
(* own account signs the entry as its delegate.                            *)
SignDelegatedAuthEntry(nonce, expiration, call, key, ruleId) ==
    [address |-> Account, nonce |-> nonce, expiration |-> expiration, ids |-> <<ruleId>>,
     signer |-> DelegatedSigner(key),
     signature |-> <<key, SignaturePayloadWithAddress(nonce, expiration, call, Account)>>]

(***************************************************************************)
(* check_auth of the account, with the binding of the payload to its own   *)
(* address; the rule's signers and context are OZ's, the nonce, the        *)
(* expiration and a delegate's signature the host's. The tool calls no     *)
(* name that check_auth reserves, and a freeze, which is PerchAccount's,   *)
(* only refuses more.                                                      *)
(***************************************************************************)
BindPayload(payload, me) == <<"bound", me, payload>>

OzDigest(payload, ids) == <<"oz", payload, ids>>

Authenticates(entry, call) ==
    LET payload == SignaturePayload(entry.nonce, entry.expiration, call)
    IN  IF entry.signer[1] = "External"
        THEN entry.signature = <<entry.signer[3], OzDigest(BindPayload(payload, Account), entry.ids)>>
        ELSE entry.signature = <<entry.signer[2], SignaturePayloadWithAddress(
                                     entry.nonce, entry.expiration, call, Account)>>

(* Without a policy a rule needs all its signers; with one, its program    *)
(* decides how many, and here any of them does.                            *)
SignersSuffice(r, signer) == IF r.install = None THEN r.signers = {signer} ELSE signer \in r.signers

CheckAuth(entry, call) ==
    /\ entry.address = Account /\ entry.nonce \notin nonces /\ ledger <= entry.expiration
    /\ Authenticates(entry, call)
    /\ \E i \in DOMAIN acct.rules :
           LET r == acct.rules[i]
           IN  r.id = entry.ids[1] /\ r.ctx = call.contract /\ SignersSuffice(r, entry.signer)

(***************************************************************************)
(* apply_doc on the account: the rules the document wants, each in the     *)
(* slot it has when it is unchanged or edited in place, under a fresh id   *)
(* otherwise. RuleReconcile has the choice between the two.                *)
(***************************************************************************)
(* A rule wanted has no id yet.                                            *)
InstalledAs(r) == [id |-> None, name |-> r.name, ctx |-> r.scope, recovery |-> FALSE,
                   signers |-> r.signers, install |-> r.install]

RecoveryRule == [id |-> None, name |-> "recovery", ctx |-> Account, recovery |-> TRUE,
                 signers |-> {}, install |-> None]

Desired(doc) ==
    LET live == SelectSeq(doc.rules, LAMBDA r : ~r.over)
    IN  [i \in DOMAIN live |-> InstalledAs(live[i])] \o (IF doc.recovery THEN <<RecoveryRule>> ELSE <<>>)

SameSlot(c, d) == c.name = d.name /\ c.ctx = d.ctx /\ c.recovery = d.recovery

Slots(d) == {i \in DOMAIN acct.rules : SameSlot(acct.rules[i], d)}

Unchanged(d) == \E i \in Slots(d) : acct.rules[i] = [d EXCEPT !.id = acct.rules[i].id]

(* The account once d is applied, with the rules of edited edited in place.*)
Reconciled(d, edited) ==
    LET want == Desired(d)
        Keeps(i) == Slots(want[i]) # {} /\ (Unchanged(want[i]) \/ i \in edited)
        Fresh(i) == acct.nextId + Cardinality({j \in 1 .. i - 1 : ~Keeps(j)})
        Id(i) == IF Keeps(i) THEN acct.rules[CHOOSE k \in Slots(want[i]) : TRUE].id ELSE Fresh(i)
    IN  [revision |-> acct.revision + 1, doc |-> d.hash,
         rules |-> [i \in DOMAIN want |-> [want[i] EXCEPT !.id = Id(i)]],
         nextId |-> acct.nextId + Cardinality({i \in DOMAIN want : ~Keeps(i)})]

ProgramsOf(rules) ==
    LET has == {i \in DOMAIN rules : rules[i].install # None}
    IN  [id \in {rules[i].id : i \in has} |-> rules[CHOOSE i \in has : rules[i].id = id].install]

Install(d) ==
    \E edited \in SUBSET DOMAIN Desired(d) :
        /\ acct' = Reconciled(d, edited)
        /\ programs' = ProgramsOf(acct'.rules)

(***************************************************************************)
(* The invocations a command sends, and what the chain makes of one.       *)
(***************************************************************************)
ApplyCall(doc, expected) ==
    [contract |-> Account, fn |-> "apply_doc", doc |-> doc, expected |-> expected]
PublishCall(fn, name, version, wasm) ==
    [contract |-> Registry, fn |-> fn, name |-> name, version |-> version, wasm |-> wasm]
UploadCall(wasm) == [contract |-> None, fn |-> "upload", wasm |-> wasm]

(* Whether the invocation, were it authorized, succeeds now.               *)
Runs(call) ==
    CASE call.fn = "apply_doc" -> call.expected # None => call.expected = acct.revision
      [] call.fn = "upload"    -> TRUE
      [] OTHER                 -> call.name \notin BadNames
                                  /\ <<call.name, call.version>> \notin DOMAIN published

Executes(tx) == Runs(tx.call) /\ (tx.auth # None => CheckAuth(tx.auth, tx.call))

Effect(call) ==
    CASE call.fn = "apply_doc" -> Install(call.doc) /\ UNCHANGED <<published, uploaded>>
      [] call.fn = "upload"    -> uploaded' = uploaded \cup {call.wasm}
                                  /\ UNCHANGED <<acct, programs, published>>
      [] OTHER                 ->
             /\ published' = Bind(published, <<call.name, call.version>>, call.wasm)
             /\ uploaded' = uploaded \cup (IF call.fn = "publish" THEN {call.wasm} ELSE {})
             /\ UNCHANGED <<acct, programs>>

(* A transaction of the mempool is included: only with its source's next   *)
(* sequence number, which it uses up even when it fails.                   *)
Include(tx) ==
    /\ tx \in mempool /\ tx.seq = seqs[tx.source] + 1
    /\ seqs' = [seqs EXCEPT ![tx.source] = tx.seq]
    /\ IF Executes(tx)
       THEN /\ Effect(tx.call)
            /\ nonces' = nonces \cup (IF tx.auth = None THEN {} ELSE {tx.auth.nonce})
            /\ status' = Bind(status, tx, "Success")
       ELSE /\ status' = Bind(status, tx, "Failed")
            /\ UNCHANGED <<acct, programs, published, uploaded, nonces>>
    /\ UNCHANGED <<mempool, ledger>>

(* The network forgets a transaction it never included.                    *)
Forget(tx) ==
    /\ tx \in mempool
    /\ mempool' = mempool \ {tx}
    /\ UNCHANGED <<acct, programs, published, uploaded, seqs, nonces, status, ledger>>

CloseLedger ==
    /\ ledger < LedgerMax
    /\ ledger' = ledger + 1
    /\ UNCHANGED <<acct, programs, published, uploaded, seqs, nonces, mempool, status>>

=============================================================================
