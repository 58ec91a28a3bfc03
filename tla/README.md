# Perch in TLA+

Perch is a document-governed smart account for Soroban: one canonical policy
document says who may do what, and `apply_doc` is the only way to change it.
This directory models the account, its recovery protocol, the way a document
becomes installed rules and decides calls, the membership pool behind ZK
recovery, and the off-chain programs around them. It model-checks small instances
with TLC and proves the central invariants of recovery, of the program evaluator,
of the membership pool, of the approval relay, of the apply client and of the
deployment tool, for every instance, with TLAPS.

## The system

### Parts and their state

| Part | State it owns | Operations that change it |
|---|---|---|
| `perch-smart-account` | applied document, adopted controller, freeze mirror, revoked fingerprints, enrolled ids, current ZK factor, pending upgrade, generation, revision (`PerchStorage`) | `apply_doc`, `rcv_gate`, `cancel_recovery`, `schedule_upgrade`, `execute_upgrade`, `cancel_upgrade` |
| `perch-smart-account/rules.rs` | the installed OpenZeppelin (OZ) context rules and the account's records of them | reconciliation by delta or full replacement |
| `perch-recovery` (the controller) | per account: configuration, epoch, attempts, authorized attempt, cancellation count, completion marker, nullifiers, approvals, baselines (`RecoveryStorage`) | `begin_*`, `submit_*`, `approve_change`, `publish_baseline`; the account-only hooks `rcv_sync`, `rcv_cancel`, `rcv_upgrade`; the policy hook `enforce` |
| `perch-ir`, `perch-compile`, `perch-doc-compiler` | none: read, validate, hash, lower and derive documents | |
| `perch-program`, `perch-interpreter`, `perch-spending-limit` | installed predicate programs and spending windows | `install`, `enforce`, `uninstall` |
| `perch-zk-pool` | an append-only forest of Merkle trees, one leaf per account and enrollment id | `rcv_insert` |
| `perch-zk-adapter` | none: verifies proofs against the pool's known roots | |
| `packages/perch-zk`, `perch-zk-prover` | stored leaves, cursor, witness index | `sync`, `witness` |
| `packages/perch-js` | none on chain: the client's apply lifecycle | snapshot, sign, submit, confirm, retry |
| `packages/perch-relay` | stored guardian approvals | `PUT`, expiry |
| `perch-deploy` | none of its own: acts on the account and the registry | `apply`, `publish`, `verify` |
| `perch-registry-resolve-macro`, `perch-constructorless-registry`, `perch-account-factory`, `perch-derive-id` | baked pins, deployed addresses | builds, deployments, `create` |
| `perch-analyze`, `perch-schema` | none: solver-backed analysis, the JSON Schema of documents | |

### How they interact

A document is text. `perch-ir` reads and validates it, `perch-compile` lowers each
rule to signers, a validity bound, a predicate program and a cap, and
`apply_doc` reconciles the rules OZ has installed with the lowered ones. A call is
then put to one installed rule: OZ checks scope, validity and signatures, the
interpreter runs the program, the spending limit checks its window.

A recovery attempt moves through `begin` (T1), evidence from guardians and a ZK
proof (T2, T3), promotion to *Authorized* (T4), a delay, and completion by
`apply_doc` of exactly the derived target (T5), or cancellation (T6, T7). The
account and its controller call each other in both directions:

- `apply_doc` calls `rcv_sync` at the adopted controller, and at a controller the
  document newly names. The account acts on the outcomes.
- Promotion and cancellation under the *Protected* profile call back `rcv_gate`,
  which sets or clears the account's freeze mirror. `__check_auth` reads only
  that mirror.
- `enforce` runs during authorization, before the body of `apply_doc` or without
  it, and leaves a marker that `rcv_sync` consumes.
- `schedule_upgrade` and `execute_upgrade` ask `rcv_upgrade`.

Off chain, an indexer follows the pool's events and serves witnesses to provers,
the relay collects guardians' approvals, and two clients apply documents: the
library `perch-js` and the tool `perch-deploy`. Both race other users of the
account and rely on `expected_revision`.

### What is hard about it

Interleaved attempts, owner edits and upgrades. Configurations that are left and
returned to. A mirror of controller state that nobody re-reads. Deadlines fixed
before the events they must cover. `u32` ledger arithmetic at its limit. Temporary
entries the host drops. Markers left by authorizations that never executed. Rules
edited in place against counts that earlier edits moved. Awaits between a read and
the write it decides. Answers from nodes that lag, transactions that land after
their sender gave up, crashes between two writes. The hazards in `PROJECT.json`
name each at its line.

## Modules

| Module | Models |
|---|---|
| **Recovery** | |
| `RecoveryData` | Documents, configurations, attempts, statements, and the pure rules over them: compilation, target derivation, freshness, factor transitions, revocations |
| `RecoveryController` | `perch-recovery/src/contract.rs`: state, entry points as actions, hooks as operators on a controller's state |
| `PerchAccount` | `perch-smart-account/src/lib.rs` composed with its controllers and the pool |
| **Rules on the account** | |
| `CompiledRules` | Compiled and installed rules; the rules a document asks for |
| `RuleSet` | Abstract specification: after an apply the rules in force are the document's live ones |
| `RuleReconcile` | `rules.rs`: keep, edit or replace each rule, with the cost model. Implements `RuleSet` |
| **Documents and programs** | |
| `PolicyDocument` | `perch-ir`: documents, `from_json` and the canonical value |
| `DocumentValidation` | `perch-ir`: `validate` |
| `DocumentText` | Texts that reach `compile_doc`, edited at any depth, and what is promised of them |
| `PolicySchema` | `perch-schema`: the generated schema and what conforming means |
| `PolicyLowering` | `perch-compile` and `compile_parsed` of `perch-doc-compiler`, attenuation |
| `PolicyProgram` | `perch-program` and `analysis.rs`: ops, leaves, verdicts, static analysis |
| `ProgramMachine` | `rpn::validate` and `rpn::eval`, op by op |
| `PolicyEnforcement` | An applied document at work: installation, interpreter, spending limit, calls |
| `DocAnalysis` | `perch-analyze`: queries, how z3 reads them, verdicts, exit codes |
| **Membership** | |
| `MerkleTree` | The hashes of `perch-zk-primitives` and the pool's frontier |
| `WitnessTree` | The prover's incremental tree, its node store and witnesses |
| `MembershipPool` | `perch-zk-pool` with the adapter's `verify` |
| `WitnessIndex` | The indexer of `packages/perch-zk`, composed with the pool |
| **Clients and tools** | |
| `ApplyClient` | `applyDocument` of `perch-js` against a lagging RPC |
| `ApprovalRelay` | `perch-relay` |
| `SignedInvocation` | What `perch-deploy` signs and the account checks; transactions and their inclusion |
| `Deployment` | The commands of `perch-deploy`, one RPC call per step |
| `InfraResolution` | `registry_contract!`, registries, factory, `derive-id` |
| **Proofs** | |
| `PerchAccountProofs` | Type correctness of recovery; what each operation of the controller does to its attempts |
| `RecoveryProofs` | Every step preserves `RecoveryInv`; the theorems that follow from it |
| `AttemptHistoryProofs` | What each controller step does to the past a record keeps, `HistoryInv` |
| `RecoveryHistoryProofs` | The same for the account's steps; the theorems about recovery over time |
| `ProgramProofs` | `validate` and `eval` agree; the static analysis is right; what fails to decode decides nothing |
| `PoolProofs` | The pool keeps Merkle trees at every depth; a proof is accepted exactly when its credential is enrolled |
| `ClientProofs` | `applyDocument` applies what was signed; the relay keeps and serves each guardian's own approval |
| `DeploymentProofs` | `perch-deploy` binds only its own bytes, overwrites nothing, verifies what is installed |

The `MC*` modules hold the instances of the runs, several in each: a variable
`instance` says which one a behaviour is in, and `Of(i)` instantiates the component
with its documents, inputs and bounds. They are `MCPerch` (recovery), `MCRules`,
`MCDocuments`, `MCPool`, `MCDeploy` and `MCInfra`; `MCPolicy`, which puts an account,
the analyzer and a program side by side, over the document shapes of `MCShapes` and the
programs of `MCProgram`; and `MCClients`, with the relay, `applyDocument` and the indexer.

### Correspondence with the code

An invocation of a contract is atomic: one that fails keeps no write. So each entry
point is one action, a refusal is a disabled action, and the calls an entry point
makes are part of its action. Off chain the step is what runs between two awaits
or RPC calls.

**Recovery.** `Apply` contains both `rcv_sync` calls, the completion and the pool
insertion, in the order in which their checks matter. `ctl[c]` is the account's
`RecoveryStorage` at controller `c`. A hook that runs inside an account call is
written as what it accepts of a controller's state (`RcvSync`,
`CompletionAuthorized`, `UpgradeScheduleAllowed`) and the state it leaves
(`Synced`, `MarkCompleting`, `BumpEpoch`). `CompleteDoc` is `apply_doc` authorized
through the recovery rule: `enforce` leaves its marker, then the body runs.
`EnforceOnly` is the same authorization in a call tree that does not go on to
execute `apply_doc`, so the marker stays. `ApplyDoc` is `apply_doc` authorized by
an ordinary rule, with or without a stale marker in place.

**Rules.** `edit` and `replace` in `rules.rs` are generic over what an effect does:
`Meter` prices it, `Apply` performs it. The module keeps that: `Edit` and `Replace`
are sequences of effects, `Meter` and `Perform` interpret them. `oz` is OZ's rules,
`records` the account's own, `state` what a policy keeps per rule.

**Documents.** A text is a JSON value whose objects are sequences of members, so
that order and repetition are visible. `FromJson` is the reader with every refusal,
`DocToCv` the canonical value. A hash stands for what it is taken of.
`Validate` collects the kinds of the violations that the code collects.
`AuthorizedIffPermitted` compares the installed rule with `Permits`, which reads the
document without any lowering.

**Membership.** Hashes are free constructors, so a Merkle root is a term that shows
its leaves, and the frontier is compared with the recomputed root. A proof is a
record of the circuit's witness; `Verify` accepts what the relation and the
adapter's own checks accept.

**Clients.** `op` in `ApplyClient` is one `applyDocument`; `chain` is the account at
every ledger, so that a read can answer from an old one. In `ApprovalRelay` a request
is a record that moves from await to await. In `Deployment` a run is one invocation
of the tool and `pc[r]` the RPC call it is about to make.

### Abstractions

- A hash is the value it identifies: the document, the configuration, the
  statement, the key. Collisions are outside the model.
- In the recovery modules a document is its signers (a key per signer id), the
  signers that hold an unbounded self-admin rule, and its recovery member. Rules
  otherwise do not affect recovery; `RuleReconcile` and `PolicyEnforcement` are
  about them.
- A string is a model value with what the checks tell apart of it: the lead letter
  of a strkey, the bytes of a hex string, the number a decimal spells, its length.
  Two spellings of one key are two strings with one decoding.
- A ZK factor is its enrollment id and commitment. In the recovery modules a proof
  exists exactly when the factor's leaf is in the pool, which `MembershipPool`
  shows of the pool and the adapter.
- Which signatures satisfy an ordinary rule is left open in the recovery modules:
  an owner may authorize any call while the account is not frozen.
- New code installed by an upgrade is assumed to behave like the old.
- `u64` counters (epoch, generation, attempt id, revision) do not wrap. Ledgers are
  `u32`: `LedgerMax` stands for the maximum, and every sum is checked by `Fits` as
  `checked_add` does. Numbers of a document have `U32Max` and `U64Max`.
- A temporary entry may be dropped at any time after its lifetime
  (`EvictCollecting`). A persistent entry is archived, which makes it unavailable
  and never absent, so archival and renewals change nothing in the models.
- OpenZeppelin's smart account and spending limit, z3, the JSON Schema validator,
  cargo, the registry contract, Soroban's host and the network are external:
  modelled from how the code uses them, and marked so in the map.
- Views, events and `execute` write nothing of the state modelled. Neither `execute` nor
  a signature can call a hook of a policy on the account's behalf, the names being
  reserved, so a rule's program goes only with the rule.
- A string an SMT-LIB literal is written from is a sequence of characters; `Escape` and a
  character after it stand for a sequence z3 reads as that character.
- The relay's store is the `MemoryKv` of the package: a read sees every write before it.
  Workers KV, which `kv.ts` also fits, promises that only in the end; there a listing may
  miss what was just stored, and an older approval may win without any overlap.
- Two refusals of the adapter are left out, the pool or the verifier that does not answer,
  as is the controller's check that an account is a contract: they refuse and change
  nothing.

## Model checking

Every passing run explores its instances completely. Invariants that say one thing
from several sides are one property with named parts, each with its own comment in
the module.

| Run | Instances | Distinct states |
|---|---|---|
| `Recovery` | `Loss`: two attempts, key rotation, leaving and re-entering recovery. `Protected`: a baseline, a change to Loss to approve, temporary attempts. `Quorum`: two guardians of two, then one | 156,257 |
| `Enrollment` | `Pair`: two replaceable signers, three keys. `Zk`: ZK alone and combined, three factors on two ids. `Switch`: two controllers and none. `Upgrade`: two requests around enrollment and removal | 143,740 |
| `Rules` | two applies of documents with shared signers and policies; three applies around a cap, with spending; documents with and without recovery, rules that expire | 12,081 |
| `Policy` | `Program`: every program of up to three ops on a stack of two, deeper ones of four; every leaf predicate, alone and combined, with arguments that decode, mismatch or are absent. `Account`: an admin rule and one rule of every shape, applied again with fewer rules, calls over four ledgers; the same documents against each other. `Analyze`: the four commands of `perch-analyze` with z3 giving up anywhere | 263,645 |
| `Documents` | texts edited in one or two places: every part of the format, every string and number, two rules, a recovery, documents on either side of the schema's limits | 70,362 |
| `Pool` | `Rollover`: five insertions, trees of four leaves. `Members`: two accounts, two secrets, two statements, two circuits | 575 |
| `Deploy` | two applies and another administrator; a publish, its rerun and its dry run; two publishes with different bytes; a verify among applies | 89,397 |
| `Infra` | incremental builds with edited pins and every spelling; deployments and accounts by anyone | 202,878 |
| `Clients` | `Checks`, `Collect`: posts, genuine and not, and a paged listing. `Apply`: `applyDocument` with retries, a lagging RPC, freezes. `Index`: five leaves in pages of two, one crash anywhere | 374,417 |
| `VerifyRecovery` | a verify of a document with a recovery member | ends in a violation |
| `AnalyzeStrings` | the instances of `Policy` | ends in a violation |
| `RelayShortens` | the instances of `Clients` | ends in a violation |

### What the runs show

*Recovery.* `FreezeMirror`: the account is frozen exactly while an authorized attempt
is live under Protected. `AuthorizedEvidence`: the evidence of an authorized attempt
satisfies the configuration enrolled now. `LifetimeCancelCap`: evidence cancellations
are capped for the life of the record. `ProtectedChangeNeedsCondition`: under Protected
a step that changes the recovery member has a completed recovery or fresh approvals of
that very change behind it. `DeadStaysDead`: what is not live never becomes live again.
`FreezeEnds`: every freeze ends.

*Enrollment.* `RecoveryInv`: the inductive invariant of the proofs. `RevokedNeverApplied`:
no applied document holds a revoked credential. `AuthorizedCompletable`: the target of
an authorized attempt is one `apply_doc` accepts. `EnrolledFactorProvable`: the enrolled
ZK factor's leaf is in the pool. `UpgradeRetiresEvidence`: code changes only by a
request of the present epoch, while nothing is authorized, and retires that epoch.

*Rules.* `InstallsExactly`: every document installs over every other, and records, OZ's
rules and policy state agree afterwards. `NeverDearerThanFull`: no apply costs more than
a full replacement, and prices are taken against counts that are right.
`WindowSurvives`: edits around a cap keep its window. `ImplementsFullReplacement`: the
refinement below.

*Policy.* Programs. `EvalAgreesWithValidate`: what `validate` admits never meets a guard
of `eval`, what it refuses for its structure always does. `StaticReportsHold`: the bounds
are exact and a dead program authorizes nothing. `UndecodedDecidesNothing`: a verdict
does not depend on an argument that fails to decode. Documents at work.
`AuthorizedIffPermitted`: an installed rule authorizes what the document permits, with a
signature, and nothing else, and never a call to a name `check_auth` reserves.
`AdminPathNeverLost`: some rule manages the account without the interpreter.
`WindowsWithinCaps`: no period of a document's cap holds transfers beyond it, also across
applies. `NarrowingReachesNothingNew`: a document that passes `is_narrowing` reaches no
contract and function its parent does not name. Analysis. `VerdictsAreRight`: a success of
`perch-analyze` is a proof, a decided refutation real, under two premises: no address
literal is the account's own, which the analyzer's documentation assumes, and no string
literal holds an escape sequence, for which see below.

*Documents.* `TextIsWhatIsHashed`: an accepted text says what its hash covers, and a
canonical text reads back. `NoLateRefusal`: what validates lowers, what compiles
installs. `RecoveryCanBeCarriedOut`: a recovery that compiles has the guardians, signers
and proofs it needs. `SchemaAgreesWithCompiler`: the schema refuses nothing that
compiles and admits only what it cannot express.

*Pool.* `PoolIsItsTrees`: roots are Merkle roots at every size and the rollover
leaves no hole. `AcceptedIffEnrolled`: every proof of an enrolled credential is accepted,
against any root there was, and no other.

*Deploy, Infra.* `PublishIsFaithful`: a publish binds uploaded bytes, claims no others,
sends nothing when bound or dry. `NeverOverwrites`: an apply lands only on what it read.
`VerifiedMeansInstalled`: OK means installed. `EveryRunEnds`. `BuildsResolve`: what a
build names is what its files say, and is found. `PredictedIsDeployed`: what stands at
a derived or predicted address is what was meant.

*Clients.* `RelayKeepsApprovals`: a slot holds what its guardian signed, a listing serves
what was held throughout, and a sooner expiry displaces only what was stored during
admission. `AppliesWhatWasSigned`: what is signed is current, executes over that and is
what is reported, and nothing is submitted after what was confirmed
(`NothingAfterLanding`). `ServedWitnessProves`: leaf, path and root of an answer of the
indexer belong together. `EveryLeafServable`: in the end, for good, every leaf is.
`WhatStartsEnds`: requests and operations end.

### Refinement

`RuleReconcile` implements `RuleSet` under the mapping that forgets ids, records,
prices and policy state (`ImplementsFullReplacement`): every apply, whichever rules
it keeps, edits or replaces, is one step of removing all rules and adding the
document's.

### Where the code and what is said of it differ

Three runs end in a violation.

- `VerifyRecovery`, of `AppliedVerifies`. `perch-deploy verify` counts the account's
  rules, the recovery rule included, while the comment at `verify.rs:216` says that "A
  count mismatch means a leftover or a missing rule": a document with `recovery` that was
  applied correctly fails verification. A rule that is over when the document is applied
  is not installed, and breaks the count in the other direction.
- `AnalyzeStrings`, of `StringsReadAsWritten`. The comment of `smt_string`
  (`perch-analyze/src/lib.rs:280`) says that "only `"` needs escaping (doubled)", but
  SMT-LIB 2.6 also reads `\u{...}` in a literal as one character. A document whose string
  spells such a sequence is analyzed as if it held that character, and `narrows` may
  report a narrowing that is none.
- `RelayShortens`, of `NeverShortened`. The README of `perch-relay` says that "replaying a
  guardian's older entry cannot shorten its approval". A PUT decides on what it read
  before it awaited admission, so an older entry that overlaps the newer one's PUT may be
  stored last. `RelayKeepsApprovals` says that this is the only way (`SoonerOnlyUnseen`).

Other behaviours met while modelling are part of the models, and the properties above
are stated with them:

- `reachable_calls` takes the functions of every `FnIn`, also below a `Not`, so it is an
  upper bound only for programs the compiler emits.
- `can-call` treats an unknown answer of z3 like a no, and prints that no rule can
  authorize the call; `RefutationIsReal` is therefore about runs in which z3 answered.
- The schema admits an empty signer id and rule name, which `validate` refuses
  (`EmptyNames`).
- `landed` is not set in `applyDocument` when `confirm()` fails for a transaction that
  was included. A retry then applies again, over the revision it reads anew.
- `narrows` and `is_narrowing` compare numbers of signers, not who they are.
- `perch-derive-id` does not normalize a name, as the registry does: it derives the
  address of a deployment from the normalized name (`DerivedIdsAreDeployed`).

### Bounds

Recovery:

- `LedgerMax` (5 and 4) exceeds one full attempt: a ledger of evidence, one of delay,
  one of completion. Beginning later than that meets the overflow checks.
- `MaxAttempts` is two where attempts compete (`Loss`) and one elsewhere, where the
  question is about one attempt and what happens around it.
- `MaxRevision` (3) covers enrolling, changing, and changing back or completing.
- `MaxTtl` is 10 in `Protected`, so collecting attempts are temporary there, and 1
  elsewhere, so that they are persistent from the start.
- `Deadlines` and `Asked` are the freshness bounds and the changes that approvers are
  asked for: one change per instance (two in `Upgrade`), as approvals for other
  statements are inert.

Elsewhere:

- `MaxApplies` (2 or 3): a rule set is reached from another, and left for a third.
- Programs have at most 4 ops over a stack of 2 (`MCProgram!Machine`): both limits are
  met from either side, and so is underflow of every combinator. Documents lower to
  programs under limits of 6 and 4. `LedgerMax` 4 there is two windows of a cap.
- `MaxEdits` (1 or 2): one edit reaches every refusal of the reader, two make a document
  wrong in two places or move a value to another. `Structure` says whether members and
  elements are rearranged as well as replaced.
- `U32Max` 4 and `U64Max` 6 stand for the widths; `Numbers` lie on both sides.
- `Depth` 2 and five insertions fill one tree and begin the next; `ChunkLevel` 1 has
  nodes above and below the stored level.
- `PageLimit` 2 and `MaxPages` 2 let a sync end by its limit and by catching up;
  `MaxCrashes` 1 puts a crash between any two writes.
- `MaxLedger` 4 in `ApplyClient` exceeds the reads of a snapshot by the changes others
  make; `MaxAttempts` 3 is the default. `SnapshotAttempts` and `FinalReadAttempts` are
  2, the code's are 3: each repetition starts alike.
- `Lifetime` 0 and `LedgerMax` 2 in `Deployment`: a signature is good for the ledger it
  was made in, the next ledger finds it expired, and a transaction may land after its
  sender gave up.
- `MaxDepth` and `MaxVersions` 2 in `InfraResolution`: a registry below another, and a
  wasm that was replaced.

Behaviours end when these bounds are reached, so deadlock is not checked. No symmetry
is used: the documents of an instance name their keys.

### Fairness

- `PerchAccount!FairSpec`: weak fairness of `CloseLedger` only. Consensus closes ledgers
  whatever the parties to a recovery do; no guardian, owner, prover or submitter is
  assumed to act. The clock stops at `LedgerMax`, and it is the overflow check at
  promotion that puts the end of every freeze before that.
- `WitnessIndex`: syncs are run again and their awaits come back; the serial queue runs
  its tasks in turn. Crashes, requests and insertions are not fair.
- `Deployment`: a run that has begun goes on. The program is sequential, each call has a
  timeout of 30 s and the wait for a transaction a deadline of 60 s. Failures are not
  fair. Runs are finite, so it does not matter which of several goes on.
- `ApprovalRelay` and `ApplyClient`: an await that is under way comes back, with an
  answer or an error.

## Proofs

The theorems hold for every value of the constants under `DataAssumption` and
`AccountAssumption` (recovery), and `ProgramLimits`, `OpsAssumption`,
`ProgramsAssumption` and `InputsAssumption` (programs), which TLC also evaluates: bounds
are naturals, guardians are finitely many, `None` is no proper value, an op is one of
`rpn.rs` and pops a natural number of verdicts, programs are sequences of ops, and signer
counts and ledgers are naturals.

- `TypeCorrect`: `Spec => []TypeOK`. One lemma per operator on controller states
  (`Save`, `StoreConfig`, `Complete`, `Synced`, ...) shows that it keeps the type of a
  state, and one per action lifts this to the step. That a ledger fits `u32` comes from
  the `Fits` guards.
- `RecoveryInvariant`: `Spec => []RecoveryInv`. None of the safety properties is
  inductive alone. `FreezeMirror` needs to know that the controller which calls
  `rcv_gate` is the adopted one, hence `EnrollmentAgrees`. `NoLiveSibling` needs
  `invalidateBelow = nextAttempt` while an attempt is authorized and live: the promotion
  sets it, and `begin` refuses while it lasts. Evidence and windows need that an attempt
  of the present epoch was begun under the present configuration. `AttemptBook` and
  `AttemptBooks` state these facts. The proof has one lemma per operation on a record
  (`PerchAccountProofs`) and one per action (`RecoveryProofs`).
- From it follow `EnrollmentAlwaysAgrees`, `FreezeMirrorExact`,
  `LostKeySourceStaysApplied`, `SiblingsDie`, `EvidenceMatchesEnrollment` and
  `CancelWindowAlwaysCovers`.
- `HistoryInvariant`: `Spec => []HistoryInv /\ [][HistoryStep]_vars`. `RecoveryInv`
  speaks of the present and does not say how a record came to be what it is, which is
  what the remaining properties need. `HistoryInv` adds it, in five parts.
  `AttemptHistory`: a stored target is a document of its controller that compiles, keeps
  an admin and drops what it replaces, and in the present epoch it holds no revoked
  credential and no used ZK id. That survives a revocation or an enrollment only
  because both move the epoch. `CancelHistory`: the counter of cancellations bounds the
  attempts evidence has cancelled, and was within the cap at the last one.
  `ApprovalHistory` and `PendingHistory`: evidence and upgrade requests belong to the
  epoch and the generation they were made under. The fifth is that enrolled ids, leaves
  and nullifiers agree. `HistoryStep` is what a step may do to dead attempts, to a
  Protected configuration and to the code; it is proved action by action along with the
  invariant, because it needs both invariants before the step.
- From it follow `CancellationsStayCapped`, `RevokedStaysOut`, `FactorStaysProvable` and
  `AuthorizedCanComplete`, and the action properties `DeadAttemptsStayDead`,
  `ProtectedChangesAreConditioned` and `UpgradesRetireEvidence`. With these every
  safety property that the Recovery and Enrollment runs check is proved. `HistoryInv`
  itself is in no configuration; TLC finds it to hold when it is added as an `INVARIANT`
  to that of either run.
- `EvalAgrees`: `MachineSpec => []EvalAgreesWithValidate`, for every program, stack size and
  input. The inductive invariant has three parts: `Simulated`, the depth `validate`
  recorded at each op is what popping and pushing give; `Refused`, why it stopped where
  it did; `Follows`, the stack of `eval` before an op has the depth `validate` recorded
  there. The lemma `RefusedIffStuck` says that a check of `validate` refuses an op at a
  depth exactly when a guard of `eval` would stop it there.
- `StaticReportsAreRight` and `FailsClosed`: `MachineSpec => []StaticReportsHold` and
  `MachineSpec => []UndecodedDecidesNothing`. Both compare `eval` with another recursion
  over the same ops, so the invariant (`StaticInv`) compares them after each op: the stack is as
  deep as `Bounds` counted and has been no deeper than its peak (`Measured`), each verdict
  on it lies within its interval of `Intervals` (`Within`), and for every input that agrees
  where this one decoded, the stack of `Stacks` decides at least as much (`Refining`). A
  step keeps it because And, Or and Negate are monotone in the order of verdicts, Negate
  turning it around, and monotone in the order in which Unknown may become anything
  (`JoinBelow`, `JoinDecided`, `NegateBelow`, `NegateDecided`); `FoldedRelated` carries
  that over any number of operands, by induction. TLC finds the invariant to hold when it
  is added to the Policy run.
- `RelayKeeps`: `Spec => RelayKeepsApprovals`, for any guardians, requests and bodies.
  The invariant says of a PUT what its awaits have established (it parses, it did not
  expire sooner than what was held, it was admitted) and of a GET that everyone held
  throughout it was fetched, is listed or is still ahead of its cursor. That a slot is
  genuine rests on parsing and admission together (`AdmittedGenuine`): without
  simulation only the posted statement, compared while parsing, fixes the call.
- `AppliesSigned`: `ClientSpec => []AppliesWhatWasSigned`. Revisions grow along the chain
  (`Grows`), the pre-sign check leaves a ledger at which the revision was live (`Checked`),
  and a confirmed transaction is one of those that executed, at a ledger the final read
  does not precede (`Confirmed`). That nothing follows it needs the numbers of attempts
  (`LandingInv`): what is waiting or executed is of an attempt so far, what is being
  submitted of the present one, and once `landed` is set there is no other.

  Both assume only `RelayAssumption`, `GuardiansAssumption` (names are different),
  `PostedAssumption` and `ApplyAssumption`.
- `DeployInvariant`: `Spec => []DeployInv`, for any number of runs and commands. The
  invariant has a book for each run and one for the network. A run's book says what the
  step it is at has established: the revision an apply read is never ahead of the
  account's and, while it is the present one, the document is the one it read; what it
  signs is the call it built; a publish binds a hash only once the bytes are on the
  ledger; a verification that found nothing wrong so far has found each rule it passed,
  as long as the revision it began with is still the account's. The network's book says
  of every transaction, waiting or included, which run sent it, and of every success what
  it left for good. From it follow `PublishesFaithfully`, and the action properties
  `OverwritesNothing` and `VerifiedIsInstalled`: with these every safety property of the
  Deploy run is proved. `CmdAssumption` says that a command is one of the three and that
  `None` is no revision; `ComposeAssumption` that a reviewed document lowers to finitely
  many rules, as a sequence filtered by `SelectSeq` is not known to the prover to have a
  length.

- `PoolInvariant`: `PoolSpec => []PoolInv`, for every depth of the trees (`DepthAssumption`:
  at least one) and any accounts, enrollments and secrets. `PoolAssumption` says that the
  halves of an id determine it, `NoneAssumption` that `None` is no refusal. The invariant
  has five books. `TreesBook`: trees below the current one are full, the current one has
  room, and each is `Kept` over its leaves, that is, its root is theirs and its frontier
  holds, at each level at which the next leaf is a right child, the node to its left.
  `LeavesBook`, `RootsBook`, `EnrollmentsBook` and `EventsBook` say which positions are
  filled and that known roots, enrollments and events are those of the filled positions.
  The frontier's values at the other levels are stale, which is why `Kept` says nothing of
  them.

  What the recursive definitions compute (`Pow2`, `Zero`, `Climb`, `Subtree`) is
  shown by induction over levels, which `Least` gets from the least element of a set of
  naturals. Three lemmas carry the rest. `FrontierStep`: `append` on a kept tree gives
  the root over one leaf more, as every node off the new leaf's path is what it was
  (`OffPath`). `PathToRoot`: a leaf and its path give the root. `Descend`: hashes are
  free, so any path that gives the root starts from the leaf at its index.
- From it follow `PoolKeepsTrees` (`PoolIsItsTrees`) and `ProofsShowEnrollment`
  (`AcceptedIffEnrolled`): with these both properties of the Pool run are proved. That a
  proof accepted for one statement was made for no other is read off the hash; that its
  credential is enrolled needs `Descend` for every root the tree ever had, and the
  enrollment that fills that position.

### Only model-checked

- The refinement of `RuleSet`, and everything about documents and lowering: these
  rest on folds over sequences and recursion over nested data, and what those compute for
  every input needs induction with an operator as a parameter, which is out of the
  prover's reach. The pool's trees are defined level by level, so that an induction over
  one set of naturals was enough there.
- The witness builder (`ServedWitnessProves`): the node store after a crash is older or
  newer than the index restored beside it.
- Liveness (`FreezeEnds`, `EveryLeafServable`, `EveryRunEnds`, `WhatStartsEnds`) and
  anything that involves `ENABLED`.

## Not modelled

- The signature verifiers (ed25519, ML-DSA, WebAuthn), the circuits' arithmetic,
  Poseidon and the pairing check: stateless computations over bytes and field elements.
  The models say which statements they are applied to.
- The lexer of `perch-ir` (escapes, number spelling, nesting depth), the byte layout of
  canonical JSON, XDR and value encodings in `perch-deploy` (`scv.rs`, key files,
  argument parsing) and in `perch-js` (`xdr`, `canonical`, rule selection).
- JSON texts whose keys repeat below what the reader sees, and numbers such as `1.0` that
  JSON Schema takes for integers: `Lexical` excludes them from the schema's comparison.
- The SMT-LIB text `perch-analyze` writes, but for how its strings and addresses are read:
  a formula is the set of invocations that satisfy it.
- `verify_plan_matches_doc` (`activation.rs`): it compares the hash of each rule in a
  document with the one in a plan, so with hashes as the values they identify it is an
  equality.
- `registry_contract!`'s runtime mode, which asks a registry on chain and remembers the
  answer, and the registry contract itself.
- The read-only endpoints of the indexer (`leaves`, `root`) and its HTTP server.
- Extensions of storage lifetimes (`renew`, `renew_nullifier`, the pool's): persistent
  entries are archived and restored, never absent.
- Apply backends of several transactions in `perch-js`: the repository has the interface
  and no implementation.
- The forced reconciliation modes of the test utilities, `perch-schema-gen`,
  `perch-artifacts`, `perch-contracts`, `perch-interpreter-js`, tests, benchmarks, fuzz
  targets, testnet scenarios, and the Lean and Komet models.
