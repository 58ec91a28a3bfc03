-------------------------- MODULE DeploymentProofs --------------------------
(***************************************************************************)
(* perch-deploy keeps its promises for every set of runs and commands,     *)
(* however they interleave with each other, with other administrators and  *)
(* with late transactions. The invariant has a book for each run, which    *)
(* says what the step it is at has established, and one for the network,   *)
(* which says of every transaction who sent it and of every success what   *)
(* it left on the chain.                                                   *)
(***************************************************************************)
EXTENDS Deployment, TLAPS

Fields == {"revision", "seen", "ruleId", "verifier", "call", "tx", "snapshot", "next", "bad",
           "bound"}

Typed ==
    /\ acct.revision \in Nat
    /\ DOMAIN pc = ToolRuns /\ DOMAIN local = ToolRuns
    /\ \A r \in ToolRuns : DOMAIN local[r] = Fields

Signs == {"simulate", "resimulate", "send", "poll"}

(* What any run has established: before it starts it holds nothing, a call *)
(* is signed as it was built, an upload is one of its own wasm, nothing is *)
(* sent by a dry run, and nothing is built once the name was bound.        *)
RunBook(r) ==
    /\ pc[r] = "start" => /\ local[r].tx = None /\ local[r].revision = None
                          /\ local[r].next = 1 /\ ~local[r].bound
    /\ local[r].bound => pc[r] \in Outcomes /\ local[r].tx = None
    /\ pc[r] \in Signs =>
         /\ Cmd[r].kind # "verify"
         /\ local[r].call.fn \in {"apply_doc", "publish", "publish_hash"}
    /\ pc[r] \in Signs \ {"simulate"} =>
         /\ local[r].tx.call = local[r].call /\ local[r].tx.source = Cmd[r].key
         /\ local[r].tx.auth.nonce = r
    /\ pc[r] \in {"upload", "send upload", "poll upload"} => Cmd[r].kind = "publish"
    /\ pc[r] \in {"send upload", "poll upload"} =>
         local[r].tx.call = UploadCall(Cmd[r].wasm) /\ local[r].tx.source = Cmd[r].key
    /\ pc[r] \in {"send", "poll", "send upload", "poll upload", "applied", "published"} =>
         ~Cmd[r].dry

(* What an apply holds of the account: the revision it read is never ahead *)
(* and, while it is the present one, the document is the one it read. What *)
(* it built names that revision.                                           *)
ApplyBook(r) ==
    /\ pc[r] \in Signs => local[r].revision # None
    /\ local[r].tx # None => local[r].revision # None /\ local[r].tx.call = local[r].call
    /\ local[r].revision # None =>
         /\ local[r].revision \in Nat /\ local[r].revision <= acct.revision
         /\ local[r].revision = acct.revision => acct.doc = local[r].seen
         /\ local[r].call = ApplyCall(Cmd[r].doc, local[r].revision)

PublishName(r) == <<Cmd[r].name, Cmd[r].version>>

(* What a publish sends is its own wasm, on the ledger before it is bound. *)
PublishBook(r) ==
    /\ pc[r] \in Signs \cup {"upload", "send upload", "poll upload"} =>
         local[r].call = PublishCall(IF Cmd[r].inline THEN "publish" ELSE "publish_hash",
                                     Cmd[r].name, Cmd[r].version, Cmd[r].wasm)
    /\ pc[r] \in Signs => Cmd[r].inline \/ Cmd[r].dry \/ Cmd[r].wasm \in uploaded

(* A verification that found no mismatch so far, at a revision that is     *)
(* still the present one, has found the document and each rule it passed.  *)
VerifyBook(r) ==
    pc[r] \in {"hash", "rules"} =>
        /\ Cmd[r].kind = "verify"
        /\ local[r].revision \in Nat /\ local[r].revision <= acct.revision
        /\ local[r].next \in Nat
        /\ pc[r] = "hash" => local[r].next = 1
        /\ local[r].revision = acct.revision =>
             /\ local[r].snapshot = acct.rules
             /\ pc[r] = "rules" /\ ~local[r].bad =>
                  /\ acct.doc = Cmd[r].doc.hash
                  /\ \A i \in 1 .. Len(Compose(Cmd[r].doc)) :
                       i < local[r].next => RuleIsReviewed(Compose(Cmd[r].doc)[i])

Book(r) ==
    /\ RunBook(r)
    /\ Cmd[r].kind = "apply" => ApplyBook(r)
    /\ Cmd[r].kind = "publish" => PublishBook(r)
    /\ VerifyBook(r)
    /\ pc[r] \in {"published", "already published"} =>
         PublishName(r) \in DOMAIN published /\ published[PublishName(r)] = Cmd[r].wasm

(* Run r, which is not dry, has sent tx.                                   *)
SentBy(r, tx) ==
    /\ Cmd[r].kind # "verify" /\ ~Cmd[r].dry /\ tx.source = Cmd[r].key
    /\ IF tx.call.fn = "upload"
       THEN Cmd[r].kind = "publish" /\ tx.call = UploadCall(Cmd[r].wasm)
       ELSE tx.call = local[r].call /\ tx.auth.nonce = r

(* A transaction on the network: a run under way or over has sent it, and  *)
(* a hash it would bind is one of a wasm on the ledger.                    *)
Sent(tx) ==
    /\ \E r \in ToolRuns : pc[r] # "start" /\ SentBy(r, tx)
    /\ tx.call.fn \in {"apply_doc", "upload", "publish", "publish_hash"}
    /\ tx.call.fn = "publish_hash" => tx.call.wasm \in uploaded

(* What a call that succeeded has left for good.                           *)
Left(call) ==
    /\ call.fn = "upload" => call.wasm \in uploaded
    /\ call.fn \in {"publish", "publish_hash"} =>
         /\ <<call.name, call.version>> \in DOMAIN published
         /\ published[<<call.name, call.version>>] = call.wasm

NetworkBook ==
    /\ \A tx \in mempool \cup DOMAIN status : Sent(tx)
    /\ \A tx \in DOMAIN status : status[tx] = "Success" => Left(tx.call)
    /\ BoundIsUploaded

DeployInv == Typed /\ (\A r \in ToolRuns : Book(r)) /\ NetworkBook

-----------------------------------------------------------------------------
(* What every step does to the chain: uploads and bindings stay.           *)
LedgerGrows ==
    /\ uploaded \subseteq uploaded'
    /\ \A b \in DOMAIN published : b \in DOMAIN published' /\ published'[b] = published[b]

(* And the account and its programs move only with the revision.           *)
ChainGrows ==
    /\ LedgerGrows
    /\ acct'.revision \in Nat
    /\ \/ acct' = acct /\ programs' = programs
       \/ acct'.revision = acct.revision + 1

(* A step that leaves run r alone.                                         *)
Rests(r) == pc'[r] = pc[r] /\ local'[r] = local[r]

(* What an apply_doc call carries.                                         *)
LEMMA ApplyCallFields ==
  \A d, e : ApplyCall(d, e).fn = "apply_doc" /\ ApplyCall(d, e).expected = e
  BY Zenon DEF ApplyCall

(* Applying a document takes the next revision.                            *)
LEMMA InstallMoves ==
    ASSUME NEW d, Install(d)
    PROVE  acct'.revision = acct.revision + 1
  BY DEF Install, Reconciled

(* What an included call leaves, and that it takes nothing away.           *)
LEMMA EffectGrows ==
    ASSUME NEW call, Typed, Runs(call), Effect(call),
           call.fn \in {"apply_doc", "upload", "publish", "publish_hash"}
    PROVE  /\ ChainGrows
           /\ Left(call)'
           /\ \A b \in DOMAIN published' \ DOMAIN published :
                b = <<call.name, call.version>> /\ call.fn \in {"publish", "publish_hash"}
  <1>1. CASE call.fn = "apply_doc"
    <2>1. Install(call.doc) /\ UNCHANGED <<published, uploaded>>
      BY <1>1, Zenon DEF Effect
    <2>2. acct'.revision = acct.revision + 1
      BY <2>1, InstallMoves, Zenon
    <2> QED BY <1>1, <2>1, <2>2 DEF ChainGrows, LedgerGrows, Left, Typed
  <1>2. CASE call.fn = "upload"
    <2>1. uploaded' = uploaded \cup {call.wasm} /\ UNCHANGED <<acct, programs, published>>
      BY <1>2, Zenon DEF Effect
    <2> QED BY <1>2, <2>1, Zenon DEF ChainGrows, LedgerGrows, Left, Typed
  <1>3. CASE call.fn \in {"publish", "publish_hash"}
    <2> DEFINE b == <<call.name, call.version>>
    <2>1. /\ published' = Bind(published, b, call.wasm)
          /\ uploaded \subseteq uploaded' /\ UNCHANGED <<acct, programs>>
      BY <1>3, Zenon DEF Effect
    <2>2. b \notin DOMAIN published
      BY <1>3, Zenon DEF Runs
    <2>3. /\ DOMAIN published' = DOMAIN published \cup {b} /\ published'[b] = call.wasm
          /\ \A c \in DOMAIN published : published'[c] = published[c]
      BY <2>1, <2>2, Zenon DEF Bind
    <2> QED BY <1>3, <2>1, <2>3, Zenon DEF ChainGrows, LedgerGrows, Left, Typed
  <1> QED BY <1>1, <1>2, <1>3, Zenon

(* The rules a verification passed stay reviewed while the account and its *)
(* programs do.                                                            *)
LEMMA RestingVerifyBook ==
    ASSUME NEW r \in ToolRuns, Typed, VerifyBook(r), Rests(r), ChainGrows
    PROVE  VerifyBook(r)'
  <1> SUFFICES ASSUME pc[r] \in {"hash", "rules"} PROVE VerifyBook(r)'
    BY Zenon DEF VerifyBook, Rests
  <1>1. CASE acct' = acct /\ programs' = programs
    <2>1. \A w : RuleIsReviewed(w)' <=> RuleIsReviewed(w)
      BY <1>1, Zenon DEF RuleIsReviewed, ProgramMatches, Rests
    <2> QED BY <1>1, <2>1, Zenon DEF VerifyBook, Rests
  <1>2. CASE acct'.revision = acct.revision + 1
    BY <1>2 DEF VerifyBook, Rests, Typed
  <1> QED BY <1>1, <1>2, Zenon DEF ChainGrows, LedgerGrows

(* The book of a run at rest is kept.                                      *)
LEMMA RestingBook ==
    ASSUME NEW r \in ToolRuns, Typed, Book(r), Rests(r), ChainGrows
    PROVE  Book(r)'
  <1>1. RunBook(r)'
    BY Zenon DEF Book, RunBook, Rests
  <1>2. Cmd[r].kind = "apply" => ApplyBook(r)'
    <2>1. CASE acct' = acct
      BY <2>1, Zenon DEF Book, ApplyBook, Rests, ApplyCall
    <2>2. CASE acct'.revision = acct.revision + 1
      <3> SUFFICES ASSUME Cmd[r].kind = "apply" PROVE ApplyBook(r)'
        BY Zenon
      <3>1. ASSUME local[r].revision # None
            PROVE  /\ local[r].revision \in Nat /\ local[r].revision <= acct'.revision
                   /\ local[r].revision # acct'.revision
        <4>1. local[r].revision \in Nat /\ local[r].revision <= acct.revision
          BY <3>1, Zenon DEF Book, ApplyBook
        <4> QED BY <2>2, <4>1 DEF Typed
      <3> QED BY <3>1, Zenon DEF Book, ApplyBook, Rests, ApplyCall
    <2> QED BY <2>1, <2>2, Zenon DEF ChainGrows, LedgerGrows
  <1>3. Cmd[r].kind = "publish" => PublishBook(r)'
    BY Zenon DEF Book, PublishBook, Rests, ChainGrows, LedgerGrows
  <1>4. VerifyBook(r)'
    BY RestingVerifyBook, Zenon DEF Book
  <1>5. pc'[r] \in {"published", "already published"} =>
          PublishName(r) \in DOMAIN published' /\ published'[PublishName(r)] = Cmd[r].wasm
    BY Zenon DEF Book, Rests, ChainGrows, LedgerGrows
  <1> QED BY <1>1, <1>2, <1>3, <1>4, <1>5, Zenon DEF Book, PublishName

(* No run that has begun changes its call.                                 *)
CallsKept ==
    \A r \in ToolRuns : pc[r] # "start" => pc'[r] # "start" /\ local'[r].call = local[r].call

(* Then what was sent stays sent.                                          *)
LEMMA SentKept ==
    ASSUME NEW tx, Sent(tx), CallsKept, LedgerGrows
    PROVE  Sent(tx)'
  <1>1. PICK r \in ToolRuns : pc[r] # "start" /\ SentBy(r, tx)
    BY Zenon DEF Sent
  <1>2. pc'[r] # "start" /\ SentBy(r, tx)'
    BY <1>1, Zenon DEF CallsKept, SentBy
  <1>3. tx.call.fn = "publish_hash" => tx.call.wasm \in uploaded'
    BY Zenon DEF Sent, LedgerGrows
  <1> QED BY <1>2, <1>3, Zenon DEF Sent

(* What a call left stays, since uploads and bindings do.                  *)
LEMMA LeftKept ==
    ASSUME NEW call, Left(call), LedgerGrows
    PROVE  Left(call)'
  BY Zenon DEF Left, LedgerGrows

(* A step of run r that changes nothing on the chain keeps the invariant   *)
(* if it keeps the book of r.                                              *)
LEMMA RunStep ==
    ASSUME DeployInv, NEW r \in ToolRuns, UNCHANGED chain, Typed', Book(r)',
           \A q \in ToolRuns \ {r} : Rests(q),
           pc[r] # "start" => pc'[r] # "start" /\ local'[r].call = local[r].call
    PROVE  DeployInv'
  <1>1. /\ UNCHANGED <<acct, programs, published, uploaded, mempool, status>>
        /\ ChainGrows /\ LedgerGrows
    BY Zenon DEF chain, ChainGrows, LedgerGrows, DeployInv, Typed
  <1>2. CallsKept
    BY Zenon DEF CallsKept, Rests
  <1>3. ASSUME NEW q \in ToolRuns PROVE Book(q)'
    BY <1>1, RestingBook, Zenon DEF DeployInv
  <1>4. \A tx \in (mempool \cup DOMAIN status)' : Sent(tx)'
    BY <1>1, <1>2, SentKept, Zenon DEF DeployInv, NetworkBook
  <1>5. \A tx \in DOMAIN status' : status'[tx] = "Success" => Left(tx.call)'
    BY <1>1, LeftKept, Zenon DEF DeployInv, NetworkBook
  <1>6. BoundIsUploaded'
    BY <1>1, Zenon DEF DeployInv, NetworkBook, BoundIsUploaded
  <1> QED BY <1>3, <1>4, <1>5, <1>6, Zenon DEF DeployInv, NetworkBook

(* Where a run goes.                                                       *)
LEMMA GotoMoves ==
    ASSUME Typed, NEW r \in ToolRuns, NEW step, Goto(r, step)
    PROVE  /\ DOMAIN pc' = ToolRuns /\ pc'[r] = step
           /\ \A q \in ToolRuns \ {r} : pc'[q] = pc[q]
  BY Zenon DEF Typed, Goto

Ends == Outcomes \ {"applied", "published", "already published"}

(* A run that ends without success leaves everything else as it was.       *)
LEMMA EndBook ==
    ASSUME DeployInv, NEW r \in ToolRuns, NEW step \in Ends, Goto(r, step),
           UNCHANGED <<local, chain>>
    PROVE  DeployInv'
  <1>1. /\ DOMAIN pc' = ToolRuns /\ pc'[r] = step
        /\ \A q \in ToolRuns \ {r} : pc'[q] = pc[q]
    BY GotoMoves, Zenon DEF DeployInv
  <1>2. /\ step \in Outcomes
        /\ step \notin Signs \cup {"start", "upload", "send upload", "poll upload", "hash", "rules",
                                  "applied", "published", "already published"}
    BY Zenon DEF Ends, Outcomes, Signs
  <1>3. Typed' /\ acct' = acct
    BY <1>1, Zenon DEF chain, DeployInv, Typed
  <1>4. Book(r)
    BY Zenon DEF DeployInv
  <1>5. RunBook(r)'
    BY <1>1, <1>2, <1>4, Zenon DEF Book, RunBook, Signs
  <1>6. Cmd[r].kind = "apply" => ApplyBook(r)'
    BY <1>1, <1>2, <1>3, <1>4, Zenon DEF Book, ApplyBook, ApplyCall
  <1>7. PublishBook(r)' /\ VerifyBook(r)'
    BY <1>1, <1>2, Zenon DEF PublishBook, VerifyBook
  <1>8. Book(r)'
    BY <1>1, <1>2, <1>5, <1>6, <1>7, Zenon DEF Book
  <1> QED BY <1>1, <1>2, <1>3, <1>8, RunStep, Zenon DEF Rests

(* apply.rs: what is read of the account.                                  *)
LEMMA ReadAdminStep ==
    ASSUME DeployInv, NEW r \in ToolRuns, ReadAdmin(r)
    PROVE  DeployInv'
  <1>1. Cmd[r].kind = "apply" /\ pc[r] = "start" /\ UNCHANGED chain
    BY Zenon DEF ReadAdmin, Reads
  <1>2. CASE Goto(r, "no admin") /\ UNCHANGED local
    BY <1>1, <1>2, EndBook, Zenon DEF Ends, Outcomes
  <1>3. ASSUME NEW admin, Goto(r, "simulate"),
               local' = [local EXCEPT ![r].revision = acct.revision, ![r].seen = acct.doc,
                   ![r].ruleId = admin.ruleId, ![r].verifier = admin.verifier,
                   ![r].call = ApplyArgs(Cmd[r].doc, acct.revision)]
        PROVE  DeployInv'
    <2>1. /\ DOMAIN pc' = ToolRuns /\ pc'[r] = "simulate"
          /\ \A q \in ToolRuns \ {r} : pc'[q] = pc[q]
      BY <1>3, GotoMoves, Zenon DEF DeployInv
    <2>2. /\ DOMAIN local' = ToolRuns /\ DOMAIN local'[r] = Fields
          /\ \A q \in ToolRuns \ {r} : local'[q] = local[q]
          /\ local'[r].revision = acct.revision /\ local'[r].seen = acct.doc
          /\ local'[r].call = ApplyCall(Cmd[r].doc, acct.revision)
          /\ local'[r].tx = local[r].tx /\ local'[r].bound = local[r].bound
      BY <1>3 DEF DeployInv, Typed, Fields, ApplyArgs
    <2>3. acct' = acct /\ acct.revision \in Nat
      BY <1>1, Zenon DEF chain, DeployInv, Typed
    <2>4. Typed'
      BY <2>1, <2>2, <2>3, Zenon DEF DeployInv, Typed
    <2>5. local[r].tx = None /\ ~local[r].bound
      BY <1>1, Zenon DEF DeployInv, Book, RunBook
    <2>6. RunBook(r)'
      BY <1>1, <2>1, <2>2, <2>5 DEF RunBook, ApplyCall, Signs
    <2>7. ApplyBook(r)'
      BY <2>1, <2>2, <2>3, <2>5, CmdAssumption DEF ApplyBook
    <2>8. Book(r)'
      BY <1>1, <2>1, <2>6, <2>7, Zenon DEF Book, VerifyBook
    <2> QED BY <1>1, <2>1, <2>2, <2>4, <2>8, RunStep, Zenon DEF Rests
  <1> QED BY <1>2, <1>3, Zenon DEF ReadAdmin

(* publish.rs: what the preflight decides of the name.                     *)
LEMMA PreflightDecides ==
    ASSUME NEW name, NEW version, NEW wasm
    PROVE  LET decision == PreflightDecision(FetchHash(name, version), wasm)
           IN  /\ decision \in {"Proceed", "unexpected trap", "already published", "hash mismatch"}
               /\ decision = "Proceed" => <<name, version>> \notin DOMAIN published
               /\ decision = "already published" =>
                    <<name, version>> \in DOMAIN published /\ published[<<name, version>>] = wasm
  <1> DEFINE outcome == FetchHash(name, version)
  <1>1. CASE name \in BadNames
    <2>1. "code" \in DOMAIN outcome /\ outcome.code = 8
      BY <1>1, Zenon DEF FetchHash
    <2> QED BY <2>1 DEF PreflightDecision, NoSuchWasmPublished, NoSuchVersion
  <1>2. CASE name \notin BadNames /\ <<name, version>> \in DOMAIN published
    <2>1. "code" \notin DOMAIN outcome /\ outcome.wasm = published[<<name, version>>]
      BY <1>2, Zenon DEF FetchHash
    <2> QED BY <1>2, <2>1, Zenon DEF PreflightDecision
  <1>3. CASE name \notin BadNames /\ <<name, version>> \notin DOMAIN published
    <2>1. "code" \in DOMAIN outcome /\ outcome.code \in {NoSuchWasmPublished, NoSuchVersion}
      BY <1>3, Zenon DEF FetchHash
    <2> QED BY <1>3, <2>1, Zenon DEF PreflightDecision
  <1> QED BY <1>1, <1>2, <1>3, Zenon

(* publish.rs: the preflight, and the call it builds when the name is      *)
(* free.                                                                   *)
LEMMA PreflightStep ==
    ASSUME DeployInv, NEW r \in ToolRuns, Preflight(r)
    PROVE  DeployInv'
  <1> DEFINE decision == PreflightDecision(FetchHash(Cmd[r].name, Cmd[r].version), Cmd[r].wasm)
             call == PublishCall(IF Cmd[r].inline THEN "publish" ELSE "publish_hash",
                                 Cmd[r].name, Cmd[r].version, Cmd[r].wasm)
             step == IF decision = "Proceed"
                     THEN IF Cmd[r].inline THEN "simulate" ELSE "upload"
                     ELSE decision
  <1>1. Cmd[r].kind = "publish" /\ pc[r] = "start" /\ UNCHANGED chain /\ Goto(r, step)
    BY Zenon DEF Preflight, Reads
  <1>2. local' = [local EXCEPT ![r].ruleId = Cmd[r].ruleId, ![r].verifier = Cmd[r].verifier,
            ![r].bound = PublishName(r) \in DOMAIN published, ![r].call = call]
    BY Zenon DEF Preflight, PublishName
  <1>3. /\ decision \in {"Proceed", "unexpected trap", "already published", "hash mismatch"}
        /\ decision = "Proceed" => PublishName(r) \notin DOMAIN published
        /\ decision = "already published" =>
             PublishName(r) \in DOMAIN published /\ published[PublishName(r)] = Cmd[r].wasm
    BY PreflightDecides, Zenon DEF PublishName
  <1> HIDE DEF decision
  <1>4. /\ DOMAIN pc' = ToolRuns /\ pc'[r] = step
        /\ \A q \in ToolRuns \ {r} : pc'[q] = pc[q]
    BY <1>1, GotoMoves, Zenon DEF DeployInv
  <1>5. /\ DOMAIN local' = ToolRuns /\ DOMAIN local'[r] = Fields
        /\ \A q \in ToolRuns \ {r} : local'[q] = local[q]
        /\ local'[r].call = call /\ local'[r].tx = local[r].tx
        /\ local'[r].bound <=> PublishName(r) \in DOMAIN published
    BY <1>2, Zenon DEF DeployInv, Typed, Fields
  <1>6. UNCHANGED <<acct, published, uploaded>>
    BY <1>1, Zenon DEF chain
  <1>7. Typed'
    BY <1>4, <1>5, <1>6, Zenon DEF DeployInv, Typed
  <1>8. local[r].tx = None
    BY <1>1, Zenon DEF DeployInv, Book, RunBook
  <1>9. call.fn \in {"publish", "publish_hash"}
    BY Zenon DEF PublishCall
  <1>10. /\ step # "start"
         /\ step \notin {"hash", "rules", "published", "applied"}
         /\ step \notin {"send upload", "poll upload", "resimulate", "send", "poll"}
         /\ step = "simulate" => decision = "Proceed" /\ Cmd[r].inline
         /\ step = "upload" => decision = "Proceed"
         /\ step = "already published" => decision = "already published"
         /\ decision # "Proceed" => step = decision
    BY <1>3, Zenon
  <1> HIDE DEF step, call
  <1>11. RunBook(r)'
    <2>1. local'[r].bound => pc'[r] \in Outcomes /\ local'[r].tx = None
      BY <1>3, <1>4, <1>5, <1>8, <1>10, Zenon DEF Outcomes
    <2> QED BY <1>1, <1>4, <1>5, <1>9, <1>10, <2>1, Zenon DEF RunBook, Signs
  <1>12. PublishBook(r)'
    BY <1>4, <1>5, <1>10, Zenon DEF PublishBook, Signs, call
  <1>13. Book(r)'
    <2>1. pc'[r] \in {"published", "already published"} =>
            PublishName(r) \in DOMAIN published' /\ published'[PublishName(r)] = Cmd[r].wasm
      BY <1>3, <1>4, <1>6, <1>10, Zenon
    <2> QED BY <1>1, <1>4, <1>10, <1>11, <1>12, <2>1, Zenon DEF Book, VerifyBook, PublishName
  <1> QED BY <1>1, <1>4, <1>5, <1>7, <1>13, RunStep, Zenon DEF Rests

(* tx.rs: a step that sets at most the run's transaction, and goes where   *)
(* it is one to send.                                                      *)
LEMMA BuildStep ==
    ASSUME DeployInv, NEW r \in ToolRuns, NEW step, NEW tx, Goto(r, step), UNCHANGED chain,
           local' = [local EXCEPT ![r].tx = tx] \/ (local' = local /\ tx = local[r].tx),
           pc[r] \in {"upload", "simulate", "resimulate"},
           step \in {"send upload", "simulate", "resimulate", "send"},
           step \in {"send upload", "simulate"} =>
               pc[r] = "upload" /\ tx.call = UploadCall(Cmd[r].wasm),
           step \in {"resimulate", "send"} =>
               pc[r] # "upload" /\ tx.call = local[r].call /\ tx.auth.nonce = r,
           step # "simulate" => tx.source = Cmd[r].key,
           step = "simulate" => Cmd[r].dry,
           step \in {"send upload", "send"} => ~Cmd[r].dry
    PROVE  DeployInv'
  <1>1. /\ DOMAIN pc' = ToolRuns /\ pc'[r] = step
        /\ \A q \in ToolRuns \ {r} : pc'[q] = pc[q]
    BY GotoMoves, Zenon DEF DeployInv
  <1>2. /\ DOMAIN local' = ToolRuns /\ DOMAIN local'[r] = Fields
        /\ \A q \in ToolRuns \ {r} : local'[q] = local[q]
        /\ local'[r].tx = tx /\ local'[r].bound = local[r].bound
        /\ local'[r].call = local[r].call /\ local'[r].revision = local[r].revision
        /\ local'[r].seen = local[r].seen
    BY Zenon DEF DeployInv, Typed, Fields
  <1>3. UNCHANGED <<acct, published, uploaded>>
    BY Zenon DEF chain
  <1>4. Typed'
    BY <1>1, <1>2, <1>3, Zenon DEF DeployInv, Typed
  <1>5. Book(r)
    BY Zenon DEF DeployInv
  <1>6. /\ ~local[r].bound
        /\ pc[r] = "upload" => Cmd[r].kind = "publish"
        /\ Cmd[r].kind # "verify"
    BY <1>5, Zenon DEF Book, RunBook, Outcomes, Signs
  <1>7. Cmd[r].kind = "publish" =>
          local[r].call = PublishCall(IF Cmd[r].inline THEN "publish" ELSE "publish_hash",
                                      Cmd[r].name, Cmd[r].version, Cmd[r].wasm)
    BY <1>5, Zenon DEF Book, PublishBook, Signs
  <1>8. local[r].call.fn \in {"apply_doc", "publish", "publish_hash"}
    <2>1. CASE pc[r] = "upload"
      <3>1. \A fn \in {"publish", "publish_hash"} :
              PublishCall(fn, Cmd[r].name, Cmd[r].version, Cmd[r].wasm).fn = fn
        BY Zenon DEF PublishCall
      <3> QED BY <1>6, <1>7, <2>1, <3>1, Zenon
    <2>2. CASE pc[r] # "upload"
      BY <1>5, <2>2, Zenon DEF Book, RunBook, Signs
    <2> QED BY <2>1, <2>2, Zenon
  <1>9. RunBook(r)'
    BY <1>1, <1>2, <1>6, <1>8, Zenon DEF RunBook, Signs
  <1>10. Cmd[r].kind = "apply" => ApplyBook(r)'
    BY <1>1, <1>2, <1>3, <1>5, <1>6, Zenon DEF Book, ApplyBook, Signs, ApplyCall
  <1>11. Cmd[r].kind = "publish" => PublishBook(r)'
    BY <1>1, <1>2, <1>3, <1>5, <1>7, Zenon DEF Book, PublishBook, Signs
  <1>12. Book(r)'
    BY <1>1, <1>9, <1>10, <1>11, Zenon DEF Book, VerifyBook
  <1> QED BY <1>1, <1>2, <1>4, <1>12, RunStep, Zenon DEF Rests

(* tx.rs: the unsigned upload a by-hash publish sends first.               *)
LEMMA PrepareUploadStep ==
    ASSUME DeployInv, NEW r \in ToolRuns, PrepareUpload(r)
    PROVE  DeployInv'
  <1> DEFINE tx == BuildTx(r, UploadCall(Cmd[r].wasm))
             step == AfterUploadSimulation(r)
  <1>1. /\ pc[r] = "upload" /\ Goto(r, step) /\ UNCHANGED chain
        /\ local' = [local EXCEPT ![r].tx = tx]
    BY Zenon DEF PrepareUpload, Reads
  <1>2. /\ step \in {"simulate", "send upload"}
        /\ step = "simulate" <=> Cmd[r].dry
    BY Zenon DEF AfterUploadSimulation
  <1>3. tx.call = UploadCall(Cmd[r].wasm) /\ tx.source = Cmd[r].key
    BY Zenon DEF BuildTx
  <1> HIDE DEF tx, step
  <1> QED BY <1>1, <1>2, <1>3, BuildStep, Zenon

(* tx.rs: the first simulation, and the authorization signed over it.      *)
LEMMA SimulateStep ==
    ASSUME DeployInv, NEW r \in ToolRuns, Simulate(r)
    PROVE  DeployInv'
  <1>1. pc[r] = "simulate" /\ UNCHANGED chain
    BY Zenon DEF Simulate, Reads
  <1>2. CASE Goto(r, "stale") /\ UNCHANGED local
    BY <1>1, <1>2, EndBook, Zenon DEF Ends, Outcomes
  <1>3. ASSUME NEW entry, entry.nonce = r, Goto(r, "resimulate"),
               local' = [local EXCEPT ![r].tx = [BuildTx(r, local[r].call) EXCEPT !.auth = entry]]
        PROVE  DeployInv'
    <2> DEFINE tx == [BuildTx(r, local[r].call) EXCEPT !.auth = entry]
    <2>1. tx.call = local[r].call /\ tx.source = Cmd[r].key /\ tx.auth.nonce = r
      BY <1>3, Zenon DEF BuildTx
    <2> HIDE DEF tx
    <2> QED BY <1>1, <1>3, <2>1, BuildStep, Zenon DEF tx
  <1>4. \A expiration, call, key, verifier, ruleId :
          /\ SignAuthEntry(r, expiration, call, key, verifier, ruleId).nonce = r
          /\ SignDelegatedAuthEntry(r, expiration, call, key, ruleId).nonce = r
    BY Zenon DEF SignAuthEntry, SignDelegatedAuthEntry
  <1> QED
    <2> DEFINE tx == BuildTx(r, local[r].call)
               expiration == Simulation(tx).latestLedger + Lifetime
               entry == IF local[r].verifier # None
                        THEN SignAuthEntry(r, expiration, tx.call, Cmd[r].key, local[r].verifier,
                                           local[r].ruleId)
                        ELSE SignDelegatedAuthEntry(r, expiration, tx.call, Cmd[r].key,
                                                    local[r].ruleId)
    <2>1. entry.nonce = r
      BY <1>4
    <2>2. \/ Goto(r, "stale") /\ UNCHANGED local
          \/ /\ Goto(r, "resimulate")
             /\ local' = [local EXCEPT ![r].tx = [tx EXCEPT !.auth = entry]]
      BY Zenon DEF Simulate
    <2> HIDE DEF entry
    <2> QED BY <1>2, <1>3, <2>1, <2>2, Zenon

(* tx.rs: the simulation in enforcing mode, after which a dry run stops.   *)
LEMMA ResimulateStep ==
    ASSUME DeployInv, NEW r \in ToolRuns, Resimulate(r)
    PROVE  DeployInv'
  <1>1. pc[r] = "resimulate" /\ UNCHANGED <<local, chain>>
    BY Zenon DEF Resimulate, Reads
  <1>2. \/ Goto(r, "rejected") \/ Goto(r, "dry")
        \/ Goto(r, "send") /\ ~Cmd[r].dry
    BY Zenon DEF Resimulate
  <1>3. CASE Goto(r, "rejected") \/ Goto(r, "dry")
    BY <1>1, <1>3, EndBook, Zenon DEF Ends, Outcomes
  <1>4. CASE Goto(r, "send") /\ ~Cmd[r].dry
    <2>1. /\ local[r].tx.call = local[r].call /\ local[r].tx.source = Cmd[r].key
          /\ local[r].tx.auth.nonce = r
      BY <1>1, Zenon DEF DeployInv, Book, RunBook, Signs
    <2> QED BY <1>1, <1>4, <2>1, BuildStep, Zenon
  <1> QED BY <1>2, <1>3, <1>4, Zenon

(* tx.rs: a success the poll sees has left what the call says.             *)
LEMMA PollStep ==
    ASSUME DeployInv, NEW r \in ToolRuns, Poll(r)
    PROVE  DeployInv'
  <1> DEFINE tx == local[r].tx
  <1>1. /\ pc[r] \in {"poll", "poll upload"} /\ tx \in DOMAIN status
        /\ UNCHANGED <<local, chain>>
    BY Zenon DEF Poll, Reads
  <1>2. CASE Goto(r, "failed")
    BY <1>1, <1>2, EndBook, Zenon DEF Ends, Outcomes
  <1>3. CASE status[tx] = "Success" /\ Goto(r, Done(r))
    <2>1. Left(tx.call)
      BY <1>1, <1>3, Zenon DEF DeployInv, NetworkBook
    <2>2. /\ DOMAIN pc' = ToolRuns /\ pc'[r] = Done(r)
          /\ \A q \in ToolRuns \ {r} : pc'[q] = pc[q]
      BY <1>3, GotoMoves, Zenon DEF DeployInv
    <2>3. UNCHANGED <<acct, published, uploaded>> /\ Typed'
      BY <1>1, <2>2, Zenon DEF chain, DeployInv, Typed
    <2>4. Book(r) /\ ~local[r].bound /\ ~Cmd[r].dry /\ Cmd[r].kind # "verify"
      BY <1>1, Zenon DEF DeployInv, Book, RunBook, Outcomes, Signs
    <2>5. CASE pc[r] = "poll upload"
      <3>1. Done(r) = "simulate" /\ Cmd[r].kind = "publish" /\ tx.call = UploadCall(Cmd[r].wasm)
        BY <2>4, <2>5, Zenon DEF Done, Book, RunBook
      <3>2. Cmd[r].wasm \in uploaded
        BY <2>1, <3>1 DEF Left, UploadCall
      <3>3. local[r].call = PublishCall(IF Cmd[r].inline THEN "publish" ELSE "publish_hash",
                                        Cmd[r].name, Cmd[r].version, Cmd[r].wasm)
        BY <2>4, <2>5, <3>1, Zenon DEF Book, PublishBook
      <3>4. local[r].call.fn \in {"publish", "publish_hash"}
        <4>1. \A fn \in {"publish", "publish_hash"} :
                PublishCall(fn, Cmd[r].name, Cmd[r].version, Cmd[r].wasm).fn = fn
          BY Zenon DEF PublishCall
        <4> QED BY <3>3, <4>1, Zenon
      <3>5. RunBook(r)'
        BY <1>1, <2>2, <2>4, <3>1, <3>4, Zenon DEF RunBook, Signs
      <3>6. PublishBook(r)'
        BY <1>1, <2>2, <2>3, <3>1, <3>2, <3>3, Zenon DEF PublishBook, Signs
      <3>7. Book(r)'
        BY <2>2, <3>1, <3>5, <3>6, Zenon DEF Book, VerifyBook
      <3> QED BY <1>1, <2>2, <2>3, <3>1, <3>7, RunStep, Zenon DEF Rests
    <2>6. CASE pc[r] = "poll"
      <3>1. /\ Done(r) \in {"applied", "published"}
            /\ Done(r) = "published" => Cmd[r].kind = "publish"
        BY <2>4, <2>6, CmdAssumption, Zenon DEF Done
      <3>2. Cmd[r].kind = "publish" =>
              PublishName(r) \in DOMAIN published /\ published[PublishName(r)] = Cmd[r].wasm
        <4> SUFFICES ASSUME Cmd[r].kind = "publish"
                     PROVE  PublishName(r) \in DOMAIN published
                            /\ published[PublishName(r)] = Cmd[r].wasm
          BY Zenon
        <4>1. tx.call = PublishCall(IF Cmd[r].inline THEN "publish" ELSE "publish_hash",
                                    Cmd[r].name, Cmd[r].version, Cmd[r].wasm)
          BY <2>4, <2>6, Zenon DEF Book, RunBook, PublishBook, Signs
        <4>2. \A fn \in {"publish", "publish_hash"} :
                LET call == PublishCall(fn, Cmd[r].name, Cmd[r].version, Cmd[r].wasm)
                IN  /\ call.fn = fn /\ call.wasm = Cmd[r].wasm
                    /\ <<call.name, call.version>> = PublishName(r)
          BY Zenon DEF PublishCall, PublishName
        <4>3. tx.call.fn \in {"publish", "publish_hash"}
              /\ <<tx.call.name, tx.call.version>> = PublishName(r) /\ tx.call.wasm = Cmd[r].wasm
          BY <4>1, <4>2, Zenon
        <4> QED BY <2>1, <4>3, Zenon DEF Left
      <3>3. RunBook(r)'
        BY <1>1, <2>2, <2>4, <3>1, Zenon DEF RunBook, Signs
      <3>4. Cmd[r].kind = "apply" => ApplyBook(r)'
        BY <1>1, <2>2, <2>3, <2>4, <2>6, <3>1, Zenon DEF Book, ApplyBook, Signs, ApplyCall
      <3>5. PublishBook(r)' /\ VerifyBook(r)'
        BY <2>2, <3>1, Zenon DEF PublishBook, VerifyBook, Signs
      <3>6. Book(r)'
        BY <2>2, <2>3, <3>1, <3>2, <3>3, <3>4, <3>5, Zenon DEF Book, PublishName
      <3> QED BY <1>1, <2>2, <2>3, <3>1, <3>6, RunStep, Zenon DEF Rests
    <2> QED BY <1>1, <2>5, <2>6, Zenon
  <1> QED BY <1>2, <1>3, Zenon DEF Poll

(* The book of the network is kept by what adds to it properly.            *)
LEMMA NetworkKept ==
    ASSUME NetworkBook, CallsKept, LedgerGrows,
           \A tx \in (mempool' \cup DOMAIN status') \ (mempool \cup DOMAIN status) : Sent(tx)',
           \A tx \in DOMAIN status' :
               \/ tx \in DOMAIN status /\ status'[tx] = status[tx]
               \/ status'[tx] = "Success" => Left(tx.call)',
           \A b \in DOMAIN published' \ DOMAIN published : published'[b] \in uploaded'
    PROVE  NetworkBook'
  <1>1. \A tx \in (mempool \cup DOMAIN status)' : Sent(tx)'
    BY SentKept, Zenon DEF NetworkBook
  <1>2. \A tx \in DOMAIN status' : status'[tx] = "Success" => Left(tx.call)'
    BY LeftKept, Zenon DEF NetworkBook
  <1>3. BoundIsUploaded'
    BY Zenon DEF NetworkBook, BoundIsUploaded, LedgerGrows
  <1> QED BY <1>1, <1>2, <1>3, Zenon DEF NetworkBook

(* tx.rs: what a run sends is its own, and it is not dry.                  *)
LEMMA SendStep ==
    ASSUME DeployInv, NEW r \in ToolRuns, Send(r)
    PROVE  DeployInv'
  <1> DEFINE tx == local[r].tx
             poll == IF pc[r] = "send" THEN "poll" ELSE "poll upload"
  <1>1. /\ pc[r] \in {"send", "send upload"}
        /\ UNCHANGED <<local, acct, programs, published, uploaded, seqs, nonces, status, ledger>>
    BY Zenon DEF Send
  <1>2. CASE Goto(r, "failed") /\ UNCHANGED mempool
    BY <1>1, <1>2, EndBook, Zenon DEF Ends, Outcomes, chain
  <1>3. CASE Goto(r, poll) /\ mempool' \subseteq mempool \cup {tx}
    <2>1. /\ DOMAIN pc' = ToolRuns /\ pc'[r] = poll
          /\ \A q \in ToolRuns \ {r} : pc'[q] = pc[q]
      BY <1>3, GotoMoves, Zenon DEF DeployInv
    <2>2. Typed' /\ ChainGrows /\ CallsKept
      BY <1>1, <2>1, Zenon DEF DeployInv, Typed, ChainGrows, LedgerGrows, CallsKept
    <2>3. Book(r) /\ ~local[r].bound /\ ~Cmd[r].dry
      BY <1>1, Zenon DEF DeployInv, Book, RunBook, Outcomes, Signs
    <2>4. RunBook(r)'
      <3>1. CASE pc[r] = "send"
        BY <1>1, <2>1, <2>3, <3>1, Zenon DEF Book, RunBook, Signs
      <3>2. CASE pc[r] = "send upload"
        BY <1>1, <2>1, <2>3, <3>2, Zenon DEF Book, RunBook, Signs
      <3> QED BY <1>1, <3>1, <3>2, Zenon
    <2>5. Cmd[r].kind = "apply" => ApplyBook(r)'
      BY <1>1, <2>1, <2>3, Zenon DEF Book, ApplyBook, RunBook, Signs, ApplyCall
    <2>6. Cmd[r].kind = "publish" => PublishBook(r)'
      BY <1>1, <2>1, <2>3, Zenon DEF Book, PublishBook, Signs
    <2>7. Book(r)'
      BY <1>1, <2>1, <2>4, <2>5, <2>6, Zenon DEF Book, VerifyBook
    <2>8. \A q \in ToolRuns : Book(q)'
      BY <1>1, <2>1, <2>2, <2>7, RestingBook, Zenon DEF DeployInv, Rests
    <2>9. Sent(tx)
      <3>1. CASE pc[r] = "send"
        <4>1. /\ Cmd[r].kind # "verify" /\ tx.call = local[r].call /\ tx.source = Cmd[r].key
              /\ tx.auth.nonce = r /\ tx.call.fn \in {"apply_doc", "publish", "publish_hash"}
          BY <2>3, <3>1, Zenon DEF Book, RunBook, Signs
        <4>2. tx.call.fn = "publish_hash" => tx.call.wasm \in uploaded
          <5>1. CASE Cmd[r].kind = "apply"
            BY <2>3, <3>1, <4>1, <5>1 DEF Book, ApplyBook, ApplyCall, Signs
          <5>2. CASE Cmd[r].kind = "publish"
            <6>1. \A fn \in {"publish", "publish_hash"} :
                    LET call == PublishCall(fn, Cmd[r].name, Cmd[r].version, Cmd[r].wasm)
                    IN  call.fn = fn /\ call.wasm = Cmd[r].wasm
              BY Zenon DEF PublishCall
            <6>2. tx.call = PublishCall(IF Cmd[r].inline THEN "publish" ELSE "publish_hash",
                                        Cmd[r].name, Cmd[r].version, Cmd[r].wasm)
              BY <2>3, <3>1, <4>1, <5>2, Zenon DEF Book, PublishBook, Signs
            <6>3. Cmd[r].inline \/ Cmd[r].wasm \in uploaded
              BY <2>3, <3>1, <5>2, Zenon DEF Book, PublishBook, Signs
            <6> QED BY <6>1, <6>2, <6>3, Zenon
          <5> QED BY <4>1, <5>1, <5>2, CmdAssumption, Zenon
        <4> QED BY <2>3, <3>1, <4>1, <4>2, Zenon DEF Sent, SentBy
      <3>2. CASE pc[r] = "send upload"
        <4>1. /\ Cmd[r].kind = "publish" /\ tx.call = UploadCall(Cmd[r].wasm)
              /\ tx.source = Cmd[r].key
          BY <2>3, <3>2, Zenon DEF Book, RunBook
        <4>2. tx.call.fn = "upload"
          BY <4>1 DEF UploadCall
        <4> QED BY <2>3, <3>2, <4>1, <4>2, Zenon DEF Sent, SentBy
      <3> QED BY <1>1, <3>1, <3>2, Zenon
    <2>10. Sent(tx)'
      BY <1>1, <2>2, <2>9, SentKept, Zenon DEF ChainGrows
    <2>11. NetworkBook'
      <3>1. \A t \in (mempool' \cup DOMAIN status') \ (mempool \cup DOMAIN status) : Sent(t)'
        BY <1>1, <1>3, <2>10, Zenon
      <3> QED BY <1>1, <2>2, <3>1, NetworkKept, Zenon DEF DeployInv, ChainGrows
    <2> QED BY <2>2, <2>8, <2>11, Zenon DEF DeployInv
  <1> QED BY <1>2, <1>3, Zenon DEF Send

(* verify.rs: the rules and the revision, read at once.                    *)
LEMMA SnapshotStep ==
    ASSUME DeployInv, NEW r \in ToolRuns, Snapshot(r)
    PROVE  DeployInv'
  <1>1. /\ Cmd[r].kind = "verify" /\ pc[r] = "start" /\ Goto(r, "hash") /\ UNCHANGED chain
        /\ local' = [local EXCEPT ![r].revision = acct.revision, ![r].snapshot = acct.rules]
    BY Zenon DEF Snapshot, Reads
  <1>2. /\ DOMAIN pc' = ToolRuns /\ pc'[r] = "hash"
        /\ \A q \in ToolRuns \ {r} : pc'[q] = pc[q]
    BY <1>1, GotoMoves, Zenon DEF DeployInv
  <1>3. /\ DOMAIN local' = ToolRuns /\ DOMAIN local'[r] = Fields
        /\ \A q \in ToolRuns \ {r} : local'[q] = local[q]
        /\ local'[r].revision = acct.revision /\ local'[r].snapshot = acct.rules
        /\ local'[r].tx = local[r].tx /\ local'[r].bound = local[r].bound
        /\ local'[r].next = local[r].next
    BY <1>1, Zenon DEF DeployInv, Typed, Fields
  <1>4. acct' = acct /\ acct.revision \in Nat /\ Typed'
    BY <1>1, <1>2, <1>3, Zenon DEF chain, DeployInv, Typed
  <1>5. ~local[r].bound /\ local[r].next = 1
    BY <1>1, Zenon DEF DeployInv, Book, RunBook
  <1>6. RunBook(r)'
    BY <1>2, <1>3, <1>5, Zenon DEF RunBook, Signs
  <1>7. VerifyBook(r)'
    BY <1>1, <1>2, <1>3, <1>4, <1>5 DEF VerifyBook
  <1>8. Book(r)'
    BY <1>1, <1>2, <1>6, <1>7, Zenon DEF Book
  <1> QED BY <1>1, <1>2, <1>3, <1>4, <1>8, RunStep, Zenon DEF Rests

(* verify.rs: the hash of the installed document, read later.              *)
LEMMA CheckAppliedHashStep ==
    ASSUME DeployInv, NEW r \in ToolRuns, CheckAppliedHash(r)
    PROVE  DeployInv'
  <1>1. /\ pc[r] = "hash" /\ Goto(r, "rules") /\ UNCHANGED chain
        /\ local' = [local EXCEPT ![r].bad = acct.doc # Cmd[r].doc.hash]
    BY Zenon DEF CheckAppliedHash, Reads
  <1>2. /\ DOMAIN pc' = ToolRuns /\ pc'[r] = "rules"
        /\ \A q \in ToolRuns \ {r} : pc'[q] = pc[q]
    BY <1>1, GotoMoves, Zenon DEF DeployInv
  <1>3. /\ DOMAIN local' = ToolRuns /\ DOMAIN local'[r] = Fields
        /\ \A q \in ToolRuns \ {r} : local'[q] = local[q]
        /\ local'[r].bad <=> acct.doc # Cmd[r].doc.hash
        /\ local'[r].revision = local[r].revision /\ local'[r].snapshot = local[r].snapshot
        /\ local'[r].tx = local[r].tx /\ local'[r].bound = local[r].bound
        /\ local'[r].next = local[r].next /\ local'[r].call = local[r].call
    BY <1>1, Zenon DEF DeployInv, Typed, Fields
  <1>4. acct' = acct /\ acct.revision \in Nat /\ Typed'
    BY <1>1, <1>2, <1>3, Zenon DEF chain, DeployInv, Typed
  <1>5. Book(r)
    BY Zenon DEF DeployInv
  <1>6. ~local[r].bound /\ local[r].next = 1 /\ Cmd[r].kind = "verify"
    BY <1>1, <1>5, Zenon DEF Book, RunBook, VerifyBook, Outcomes
  <1>7. RunBook(r)'
    BY <1>2, <1>3, <1>6, Zenon DEF RunBook, Signs
  <1>8. VerifyBook(r)'
    BY <1>1, <1>2, <1>3, <1>4, <1>5, <1>6 DEF Book, VerifyBook
  <1>9. Book(r)'
    BY <1>2, <1>6, <1>7, <1>8, Zenon DEF Book
  <1> QED BY <1>1, <1>2, <1>3, <1>4, <1>9, RunStep DEF Rests

(* A rule that check_rule and check_program accept is one of the account,  *)
(* if the snapshot still is its rules.                                     *)
LEMMA AcceptedIsReviewed ==
    ASSUME NEW want,
           \E c \in Named(acct.rules, want.name) :
               c.ctx = want.ctx /\ ProgramMatches(want.install, c.id)
    PROVE  RuleIsReviewed(want)
  <1>1. PICK c \in Named(acct.rules, want.name) :
          c.ctx = want.ctx /\ ProgramMatches(want.install, c.id)
    BY Zenon
  <1>2. PICK k \in DOMAIN acct.rules : c = acct.rules[k] /\ acct.rules[k].name = want.name
    BY <1>1, Zenon DEF Named
  <1>3. c \in Range(acct.rules)
    BY <1>2, Zenon DEF Range
  <1> QED BY <1>1, <1>2, <1>3, Zenon DEF RuleIsReviewed

(* verify.rs: one rule of the reviewed document after the other.           *)
LEMMA CheckRuleStep ==
    ASSUME DeployInv, NEW r \in ToolRuns, CheckRule(r)
    PROVE  DeployInv'
  <1> DEFINE n == local[r].next
             want == Compose(Cmd[r].doc)[n]
             ok == \E c \in Named(local[r].snapshot, want.name) :
                       c.ctx = want.ctx /\ ProgramMatches(want.install, c.id)
  <1>1. /\ pc[r] = "rules" /\ UNCHANGED <<pc, chain>>
        /\ local' = [local EXCEPT ![r].next = n + 1, ![r].bad = local[r].bad \/ ~ok]
    BY Zenon DEF CheckRule, Reads, Typed, DeployInv
  <1> HIDE DEF ok
  <1>2. /\ DOMAIN local' = ToolRuns /\ DOMAIN local'[r] = Fields
        /\ \A q \in ToolRuns \ {r} : local'[q] = local[q]
        /\ local'[r].next = n + 1
        /\ local'[r].bad <=> (local[r].bad \/ ~ok)
        /\ local'[r].revision = local[r].revision /\ local'[r].snapshot = local[r].snapshot
        /\ local'[r].tx = local[r].tx /\ local'[r].bound = local[r].bound
        /\ local'[r].call = local[r].call
    BY <1>1, Zenon DEF DeployInv, Typed, Fields
  <1>3. UNCHANGED <<acct, programs>> /\ Typed'
    BY <1>1, <1>2, Zenon DEF chain, DeployInv, Typed
  <1>4. Book(r)
    BY Zenon DEF DeployInv
  <1>5. ~local[r].bound /\ Cmd[r].kind = "verify" /\ n \in Nat
    BY <1>1, <1>4, Zenon DEF Book, RunBook, VerifyBook, Outcomes
  <1>6. RunBook(r)'
    BY <1>1, <1>2, <1>5, Zenon DEF RunBook, Signs
  <1>7. \A w : RuleIsReviewed(w) => RuleIsReviewed(w)'
    BY <1>2, <1>3, Zenon DEF RuleIsReviewed, ProgramMatches
  <1>8. ASSUME local[r].revision = acct.revision, ~local'[r].bad,
               NEW i \in 1 .. Len(Compose(Cmd[r].doc)), i < n + 1
        PROVE  RuleIsReviewed(Compose(Cmd[r].doc)[i])
    <2>1. ~local[r].bad /\ ok /\ local[r].snapshot = acct.rules
      BY <1>1, <1>2, <1>4, <1>8, Zenon DEF Book, VerifyBook
    <2>2. CASE i = n
      BY <2>1, <2>2, AcceptedIsReviewed, Zenon DEF ok
    <2>3. CASE i < n
      BY <1>1, <1>4, <1>8, <2>1, <2>3, Zenon DEF Book, VerifyBook
    <2> QED BY <1>5, <1>8, <2>2, <2>3
  <1>9. VerifyBook(r)'
    <2>1. /\ local[r].revision \in Nat /\ local[r].revision <= acct.revision
          /\ local[r].revision = acct.revision =>
               local[r].snapshot = acct.rules /\ (~local[r].bad => acct.doc = Cmd[r].doc.hash)
      BY <1>1, <1>4, Zenon DEF Book, VerifyBook
    <2> QED BY <1>1, <1>2, <1>3, <1>5, <1>7, <1>8, <2>1 DEF VerifyBook
  <1>10. Book(r)'
    BY <1>1, <1>5, <1>6, <1>9, Zenon DEF Book
  <1> QED BY <1>1, <1>2, <1>3, <1>10, RunStep, Zenon DEF Rests

(* verify.rs: the verdict ends the run.                                    *)
LEMMA ConcludeStep ==
    ASSUME DeployInv, NEW r \in ToolRuns, Conclude(r)
    PROVE  DeployInv'
  <1>1. UNCHANGED <<local, chain>> /\ Goto(r, Verdict(r))
    BY Zenon DEF Conclude, Reads
  <1>2. Verdict(r) \in Ends
    BY Zenon DEF Verdict, Ends, Outcomes
  <1> QED BY <1>1, <1>2, EndBook, Zenon

(* A step of run r.                                                        *)
LEMMA StepKeeps ==
    ASSUME DeployInv, NEW r \in ToolRuns, Step(r) \/ Fail(r)
    PROVE  DeployInv'
  <1>1. CASE Timeout(r) \/ Fail(r)
    <2>1. \/ Goto(r, "timed out") \/ Goto(r, "failed")
      BY <1>1, Zenon DEF Timeout, Fail
    <2>2. UNCHANGED <<local, chain>>
      BY <1>1, Zenon DEF Timeout, Fail, Reads
    <2> QED BY <2>1, <2>2, EndBook, Zenon DEF Ends, Outcomes
  <1> QED BY Zenon, <1>1, ReadAdminStep, PreflightStep, PrepareUploadStep, SimulateStep, ResimulateStep,
             SendStep, PollStep, SnapshotStep, CheckAppliedHashStep, CheckRuleStep, ConcludeStep
          DEF Step

-----------------------------------------------------------------------------
(* The network, and others.                                                *)
LEMMA IncludeStep ==
    ASSUME DeployInv, NEW tx \in mempool, Include(tx), UNCHANGED <<tools, others>>
    PROVE  DeployInv'
  <1>1. /\ UNCHANGED <<pc, local, mempool>>
        /\ tx.call.fn \in {"apply_doc", "upload", "publish", "publish_hash"}
        /\ tx.call.fn = "publish_hash" => tx.call.wasm \in uploaded
        /\ Sent(tx) /\ Typed /\ NetworkBook
    BY Zenon DEF Include, tools, DeployInv, NetworkBook, Sent
  <1>2. CallsKept
    BY <1>1, Zenon DEF CallsKept
  <1>3. /\ ChainGrows
        /\ \A t \in DOMAIN status' :
             \/ t \in DOMAIN status /\ status'[t] = status[t]
             \/ t = tx /\ (status'[t] = "Success" => Left(tx.call)')
        /\ \A b \in DOMAIN published' \ DOMAIN published : published'[b] \in uploaded'
    <2>1. CASE Executes(tx) /\ Effect(tx.call) /\ status' = Bind(status, tx, "Success")
      <3>1. Runs(tx.call)
        BY <2>1, Zenon DEF Executes
      <3>2. /\ ChainGrows
            /\ Left(tx.call)'
            /\ \A b \in DOMAIN published' \ DOMAIN published :
                 b = <<tx.call.name, tx.call.version>> /\ tx.call.fn \in {"publish", "publish_hash"}
        BY <1>1, <2>1, <3>1, EffectGrows, Zenon
      <3>3. ASSUME NEW b \in DOMAIN published' \ DOMAIN published
            PROVE  published'[b] \in uploaded'
        <4>1. published'[b] = tx.call.wasm /\ tx.call.fn \in {"publish", "publish_hash"}
          BY <3>2, Zenon DEF Left
        <4>2. CASE tx.call.fn = "publish"
          BY <2>1, <4>1, <4>2, Zenon DEF Effect
        <4>3. CASE tx.call.fn = "publish_hash"
          BY <1>1, <3>2, <4>1, <4>3, Zenon DEF ChainGrows, LedgerGrows
        <4> QED BY <4>1, <4>2, <4>3, Zenon
      <3>4. \A t \in DOMAIN status' : t = tx \/ (t \in DOMAIN status /\ status'[t] = status[t])
        BY <2>1, Zenon DEF Bind
      <3> QED BY <3>2, <3>3, <3>4, Zenon
    <2>2. CASE /\ status' = Bind(status, tx, "Failed")
               /\ UNCHANGED <<acct, programs, published, uploaded>>
      <3>1. /\ \A t \in DOMAIN status' : t = tx \/ (t \in DOMAIN status /\ status'[t] = status[t])
            /\ status'[tx] = "Failed"
        BY <2>2, Zenon DEF Bind
      <3>2. ChainGrows
        BY <1>1, <2>2, Zenon DEF ChainGrows, LedgerGrows, Typed
      <3> QED BY <2>2, <3>1, <3>2, Zenon
    <2> QED BY <2>1, <2>2, Zenon DEF Include
  <1>4. \A t \in (mempool' \cup DOMAIN status') \ (mempool \cup DOMAIN status) : Sent(t)'
    BY <1>1, <1>3, Zenon
  <1>5. NetworkBook'
    BY <1>1, <1>2, <1>3, <1>4, NetworkKept, Zenon DEF ChainGrows
  <1>6. Typed'
    BY <1>1, <1>3, Zenon DEF Typed, ChainGrows, LedgerGrows
  <1>7. \A r \in ToolRuns : Book(r)'
    BY <1>1, <1>3, RestingBook, Zenon DEF DeployInv, Rests
  <1> QED BY <1>5, <1>6, <1>7, Zenon DEF DeployInv

(* A step of the chain alone that sends and binds nothing.                 *)
LEMMA QuietStep ==
    ASSUME DeployInv, UNCHANGED <<pc, local, published, uploaded, status>>,
           mempool' \subseteq mempool, ChainGrows
    PROVE  DeployInv'
  <1>1. CallsKept
    BY Zenon DEF CallsKept
  <1>2. NetworkBook'
    BY <1>1, NetworkKept, Zenon DEF DeployInv, ChainGrows
  <1>3. Typed'
    BY Zenon DEF DeployInv, Typed, ChainGrows, LedgerGrows
  <1>4. \A r \in ToolRuns : Book(r)'
    BY RestingBook, Zenon DEF DeployInv, Rests
  <1> QED BY <1>2, <1>3, <1>4, Zenon DEF DeployInv

(* A transaction dropped, a ledger closed, a document another              *)
(* administrator applied.                                                  *)
LEMMA OthersStep ==
    ASSUME DeployInv,
           \/ \E tx \in mempool : Forget(tx) /\ UNCHANGED <<tools, others>>
           \/ CloseLedger /\ UNCHANGED <<tools, others>>
           \/ \E doc \in OtherDocs : OtherApply(doc)
    PROVE  DeployInv'
  <1>1. ASSUME NEW tx, Forget(tx), UNCHANGED tools PROVE DeployInv'
    <2>1. ChainGrows
      BY <1>1, Zenon DEF Forget, ChainGrows, LedgerGrows, DeployInv, Typed
    <2> QED BY <1>1, <2>1, QuietStep, Zenon DEF Forget, tools
  <1>2. ASSUME CloseLedger, UNCHANGED tools PROVE DeployInv'
    <2>1. ChainGrows
      BY <1>2, Zenon DEF CloseLedger, ChainGrows, LedgerGrows, DeployInv, Typed
    <2> QED BY <1>2, <2>1, QuietStep, Zenon DEF CloseLedger, tools
  <1>3. ASSUME NEW doc, OtherApply(doc) PROVE DeployInv'
    <2>1. acct'.revision = acct.revision + 1
      BY <1>3, InstallMoves, Zenon DEF OtherApply
    <2>2. ChainGrows
      BY <1>3, <2>1 DEF OtherApply, ChainGrows, LedgerGrows, DeployInv, Typed
    <2> QED BY <1>3, <2>2, QuietStep, Zenon DEF OtherApply, tools
  <1> QED BY <1>1, <1>2, <1>3, Zenon

-----------------------------------------------------------------------------
(* At the start no run holds anything and nothing was sent.                *)
LEMMA InitDeploy == Init => DeployInv
  <1> SUFFICES ASSUME Init PROVE DeployInv
    BY Zenon
  <1>1. /\ acct.revision = 0 /\ published = <<>> /\ mempool = {} /\ status = <<>>
        /\ pc = [r \in ToolRuns |-> "start"] /\ local = [r \in ToolRuns |-> Fresh]
    BY Zenon DEF Init, ChainInit
  <1>2. /\ DOMAIN Fresh = Fields /\ Fresh.tx = None /\ Fresh.revision = None /\ Fresh.next = 1
        /\ ~Fresh.bound
    BY Zenon DEF Fresh, Fields
  <1>3. Typed
    BY <1>1, <1>2 DEF Typed
  <1>4. NetworkBook
    BY <1>1 DEF NetworkBook, BoundIsUploaded
  <1>5. ASSUME NEW r \in ToolRuns PROVE Book(r)
    BY <1>1, <1>2, Zenon DEF Book, RunBook, ApplyBook, PublishBook, VerifyBook, Signs
  <1> QED BY <1>3, <1>4, <1>5, Zenon DEF DeployInv

(* Every step keeps the books.                                             *)
LEMMA NextDeploy ==
    ASSUME DeployInv, [Next]_vars
    PROVE  DeployInv'
  <1>1. CASE UNCHANGED vars
    <2>1. UNCHANGED <<pc, local, acct, programs, published, uploaded, status, mempool>>
      BY <1>1, Zenon DEF vars, chain, tools
    <2>2. ChainGrows
      BY <2>1, Zenon DEF ChainGrows, LedgerGrows, DeployInv, Typed
    <2> QED BY <2>1, <2>2, QuietStep, Zenon
  <1>2. CASE Next
    BY <1>2, StepKeeps, IncludeStep, OthersStep, Zenon DEF Next
  <1> QED BY <1>1, <1>2, Zenon

(* The invariant: at every step, what each run has established so far and  *)
(* what the network holds are as the books say.                            *)
THEOREM DeployInvariant == Spec => []DeployInv
  <1>1. Init => DeployInv
    BY InitDeploy, Zenon
  <1>2. DeployInv /\ [Next]_vars => DeployInv'
    BY NextDeploy, Zenon
  <1> QED BY <1>1, <1>2, PTL DEF Spec

(* publish.rs, tx.rs: a publish binds uploaded bytes, reports only its     *)
(* own, sends nothing for a bound name and nothing when dry, whatever      *)
(* times out, fails or lands late.                                         *)
THEOREM PublishesFaithfully == Spec => []PublishIsFaithful
  <1>1. DeployInv => PublishIsFaithful
    <2> SUFFICES ASSUME DeployInv PROVE PublishIsFaithful
      BY Zenon
    <2>1. PublishedIsLocal
      BY Zenon DEF DeployInv, Book, PublishName, PublishedIsLocal
    <2>2. BoundIsUploaded
      BY Zenon DEF DeployInv, NetworkBook
    <2>3. RerunSendsNothing
      BY Zenon DEF DeployInv, Book, RunBook, RerunSendsNothing
    <2>4. DryRunSendsNothing
      <3>1. \A r \in ToolRuns : Cmd[r].kind # "verify" /\ Cmd[r].dry =>
              pc[r] \notin {"poll", "poll upload", "applied", "published"}
        BY Zenon DEF DeployInv, Book, RunBook
      <3>2. \A tx \in mempool \cup DOMAIN status : \E r \in ToolRuns : SentBy(r, tx)
        BY Zenon DEF DeployInv, NetworkBook, Sent
      <3> QED BY <3>1, <3>2, Zenon DEF DryRunSendsNothing, SentBy
    <2> QED BY <2>1, <2>2, <2>3, <2>4, Zenon DEF PublishIsFaithful
  <1> QED BY <1>1, DeployInvariant, PTL

(* apply.rs, "it never overwrites a change made after that read": the      *)
(* revision in the call is compared on chain, and revisions never return.  *)
THEOREM OverwritesNothing == Spec => NeverOverwrites
  <1> DEFINE Lands == \A r \in ToolRuns :
                 Cmd[r].kind = "apply" /\ local[r].tx # None
                 /\ local[r].tx \notin DOMAIN status /\ local[r].tx \in DOMAIN status'
                 /\ status'[local[r].tx] = "Success"
                 => acct.doc = local[r].seen /\ acct.revision = local[r].revision
  <1>1. DeployInv /\ [Next]_vars => Lands
    <2> SUFFICES ASSUME DeployInv, [Next]_vars, NEW r \in ToolRuns, Cmd[r].kind = "apply",
                        local[r].tx # None, local[r].tx \notin DOMAIN status,
                        local[r].tx \in DOMAIN status', status'[local[r].tx] = "Success"
                 PROVE  acct.doc = local[r].seen /\ acct.revision = local[r].revision
      BY Zenon DEF Lands
    <2>1. status' # status
      BY Zenon
    <2>2. PICK tx \in mempool : Include(tx)
      <3>1. Next
        BY <2>1, Zenon DEF vars, chain
      <3>2. ASSUME NEW q \in ToolRuns, Step(q) \/ Fail(q) PROVE FALSE
        BY <2>1, <3>2, Zenon
           DEF Step, Fail, ReadAdmin, Preflight, PrepareUpload, Simulate, Resimulate, Send, Poll,
               Timeout, Snapshot, CheckAppliedHash, CheckRule, Conclude, Reads, chain
      <3> QED BY <2>1, <3>1, <3>2, Zenon DEF Next, Forget, CloseLedger, OtherApply
    <2>3. tx = local[r].tx /\ Executes(tx)
      BY <2>2 DEF Include, Bind
    <2>4. /\ local[r].revision \in Nat /\ tx.call = ApplyCall(Cmd[r].doc, local[r].revision)
          /\ local[r].revision = acct.revision => acct.doc = local[r].seen
      BY <2>3, Zenon DEF DeployInv, Book, ApplyBook
    <2>5. tx.call.fn = "apply_doc" /\ tx.call.expected = local[r].revision
      <3> DEFINE call == ApplyCall(Cmd[r].doc, local[r].revision)
      <3>1. call.fn = "apply_doc" /\ call.expected = local[r].revision
        BY ApplyCallFields, Zenon
      <3>2. tx.call = call
        BY <2>4, Zenon
      <3> HIDE DEF call
      <3> QED BY <3>1, <3>2, Zenon
    <2>6. tx.call.expected = acct.revision
      BY <2>3, <2>4, <2>5, CmdAssumption, Zenon DEF Executes, Runs
    <2> QED BY <2>4, <2>5, <2>6, Zenon
  <1>2. NeverOverwrites <=> [][Lands]_vars
    BY Zenon DEF NeverOverwrites
  <1> HIDE DEF Lands
  <1> QED BY <1>1, <1>2, DeployInvariant, PTL DEF Spec

(* verify.rs, "verification OK: installed == reviewed": the reads are      *)
(* steps of their own, and the revision read last ties them together.      *)
THEOREM VerifiedIsInstalled == Spec => VerifiedMeansInstalled
  <1> DEFINE Verifies == \A r \in ToolRuns :
                 pc[r] # "verified" /\ pc'[r] = "verified" => InstalledIsReviewed(r)
  <1>1. DeployInv /\ [Next]_vars => Verifies
    <2> SUFFICES ASSUME DeployInv, [Next]_vars, NEW r \in ToolRuns,
                        pc[r] # "verified", pc'[r] = "verified"
                 PROVE  InstalledIsReviewed(r)
      BY Zenon DEF Verifies
    <2>1. Conclude(r) /\ Verdict(r) = "verified"
      <3>1. PICK q \in ToolRuns : Step(q) \/ Fail(q)
        BY Zenon DEF Next, vars, tools, OtherApply
      <3>2. ASSUME NEW step, step # "verified" PROVE ~Goto(q, step)
        BY <3>2, Zenon DEF DeployInv, Typed, Goto
      <3>3. ~Preflight(q)
        <4> DEFINE decision ==
                     PreflightDecision(FetchHash(Cmd[q].name, Cmd[q].version), Cmd[q].wasm)
        <4>1. decision \in {"Proceed", "unexpected trap", "already published", "hash mismatch"}
          BY PreflightDecides, Zenon
        <4> HIDE DEF decision
        <4>2. /\ ~Goto(q, IF Cmd[q].inline THEN "simulate" ELSE "upload")
              /\ ~Goto(q, decision)
          BY <3>2, <4>1, Zenon
        <4> QED BY <4>2, Zenon DEF Preflight, decision
      <3>4. ~ReadAdmin(q) /\ ~PrepareUpload(q) /\ ~Simulate(q) /\ ~Resimulate(q)
        <4>1. ReadAdmin(q) => Goto(q, "no admin") \/ Goto(q, "simulate")
          BY Zenon DEF ReadAdmin
        <4>2. PrepareUpload(q) => Goto(q, "simulate") \/ Goto(q, "send upload")
          BY Zenon DEF PrepareUpload, AfterUploadSimulation
        <4>3. Simulate(q) => Goto(q, "stale") \/ Goto(q, "resimulate")
          BY Zenon DEF Simulate
        <4>4. Resimulate(q) => Goto(q, "rejected") \/ Goto(q, "dry") \/ Goto(q, "send")
          BY Zenon DEF Resimulate
        <4>5. /\ ~Goto(q, "no admin") /\ ~Goto(q, "simulate") /\ ~Goto(q, "send upload")
              /\ ~Goto(q, "stale") /\ ~Goto(q, "resimulate")
              /\ ~Goto(q, "rejected") /\ ~Goto(q, "dry") /\ ~Goto(q, "send")
          BY <3>2, Zenon
        <4> QED BY <4>1, <4>2, <4>3, <4>4, <4>5, Zenon
      <3>5. ~Send(q) /\ ~Poll(q) /\ ~Timeout(q) /\ ~Fail(q)
        <4>1. Send(q) => Goto(q, "failed") \/ Goto(q, "poll") \/ Goto(q, "poll upload")
          BY Zenon DEF Send
        <4>2. Poll(q) => \/ Goto(q, "failed") \/ Goto(q, "simulate")
                         \/ Goto(q, "applied") \/ Goto(q, "published")
          BY Zenon DEF Poll, Done
        <4>3. /\ ~Goto(q, "failed") /\ ~Goto(q, "poll") /\ ~Goto(q, "poll upload")
              /\ ~Goto(q, "simulate") /\ ~Goto(q, "applied") /\ ~Goto(q, "published")
              /\ ~Goto(q, "timed out")
          BY <3>2, Zenon
        <4> QED BY <4>1, <4>2, <4>3, Zenon DEF Timeout, Fail
      <3>6. ~Snapshot(q) /\ ~CheckAppliedHash(q) /\ ~CheckRule(q)
        BY <3>2, Zenon DEF Snapshot, CheckAppliedHash, CheckRule
      <3>7. Conclude(q)
        BY <3>1, <3>3, <3>4, <3>5, <3>6, Zenon DEF Step
      <3>8. Goto(q, Verdict(q))
        BY <3>7, Zenon DEF Conclude
      <3>9. q = r /\ Verdict(q) = "verified"
        BY <3>8, Zenon DEF DeployInv, Typed, Goto
      <3> QED BY <3>7, <3>9, Zenon
    <2>2. /\ pc[r] = "rules" /\ local[r].next > Len(Compose(Cmd[r].doc))
          /\ acct.revision = local[r].revision /\ ~local[r].bad
          /\ Len(local[r].snapshot) = Len(Compose(Cmd[r].doc))
      BY <2>1, Zenon DEF Conclude, Verdict, CountMatches
    <2>3. /\ Cmd[r].kind = "verify" /\ local[r].next \in Nat
          /\ local[r].snapshot = acct.rules /\ acct.doc = Cmd[r].doc.hash
          /\ \A i \in 1 .. Len(Compose(Cmd[r].doc)) :
               i < local[r].next => RuleIsReviewed(Compose(Cmd[r].doc)[i])
      BY <2>2, Zenon DEF DeployInv, Book, VerifyBook
    <2>4. Len(Compose(Cmd[r].doc)) \in Nat
      BY <2>3, ComposeAssumption, Zenon
    <2> QED BY <2>2, <2>3, <2>4 DEF InstalledIsReviewed
  <1>2. VerifiedMeansInstalled <=> [][Verifies]_vars
    BY Zenon DEF VerifiedMeansInstalled
  <1> HIDE DEF Verifies
  <1> QED BY <1>1, <1>2, DeployInvariant, PTL DEF Spec
=============================================================================
