------------------------- MODULE PolicyEnforcement -------------------------
(***************************************************************************)
(* An applied document at work: perch-smart-account installs the rules it  *)
(* lowers to, and each call is put to one of them. OZ's check of a rule    *)
(* (its scope, its validity, its signers when it has no policy) and its    *)
(* spending_limit are external; perch-interpreter's hooks and the names    *)
(* check_auth reserves are modelled from their source.                     *)
(*                                                                         *)
(* The set of keys that signed is a set of OZ signers. A call is           *)
(* [contract |-> TRUE, to, fn, args, amount].                              *)
(***************************************************************************)
EXTENDS PolicyLowering, FiniteSetsExt

CONSTANTS
    Docs,       \* the documents that may be applied
    Calls,      \* the calls that may be put to a rule
    SigningKeys,\* the keys that may sign
    LedgerMax,  \* bound on the ledger
    MaxSpends   \* bound on the transfers recorded

VARIABLES
    doc,        \* the applied document, None before the first
    rules,      \* the rules installed for it: [rule ids -> compiled rules]
    programs,   \* DataKey::Program of the interpreter: [rules that have one -> install params]
    spends,     \* transfers the spending limit recorded: <<rule, ledger, amount>>
    ledger

vars == <<doc, rules, programs, spends, ledger>>

Init ==
    /\ doc = None /\ rules = <<>> /\ programs = <<>> /\ spends = <<>>
    /\ ledger = 1

(***************************************************************************)
(* Applying a document: it compiles, keeps an admin path, and the rules    *)
(* that are already over are not installed.                                *)
(***************************************************************************)
Live(r) == r.validUntil # None => r.validUntil >= ledger

(* install of the interpreter: at most one program per rule, and a valid   *)
(* one.                                                                    *)
InterpreterInstall(rs) ==
    /\ \A i \in DOMAIN rs : rs[i].install # None => Validates(rs[i].install.program)
    /\ programs' = [i \in {j \in DOMAIN rs : rs[j].install # None} |-> rs[i].install]

ApplyDoc(d) ==
    LET compiled == [i \in DOMAIN Plan(d) |-> ToCompiled(Plan(d)[i])]
    IN  /\ doc = None
        /\ CompileParsed(d) = "Ok"
        /\ AdminSurvives(compiled)
        /\ doc' = d
        /\ rules' = SelectSeq(compiled, Live)
        /\ InterpreterInstall(rules')
        /\ UNCHANGED <<spends, ledger>>

(* The applied document again, or without one of its rules. What is left   *)
(* is unchanged and keeps its id, program and window; OZ uninstalls the    *)
(* policies of a rule it removes. Edits of a rule are RuleReconcile's.     *)
Shorter(d) == {d} \cup {[d EXCEPT !.rules = RemoveAt(d.rules, k)] : k \in DOMAIN d.rules}

Reapply(d) ==
    LET compiled == [i \in DOMAIN Plan(d) |-> ToCompiled(Plan(d)[i])]
        kept == {i \in DOMAIN rules : rules[i] \in Range(SelectSeq(compiled, Live))}
    IN  /\ doc # None
        /\ CompileParsed(d) = "Ok"
        /\ AdminSurvives(compiled)
        /\ doc' = d
        /\ rules' = Restrict(rules, kept)
        /\ programs' = Restrict(programs, DOMAIN programs \cap kept)
        /\ spends' = SelectSeq(spends, LAMBDA s : s[1] \in kept)
        /\ UNCHANGED ledger

(***************************************************************************)
(* A call under a rule.                                                    *)
(***************************************************************************)
Target(scope) == IF scope.type = "self-admin" THEN SelfAddr ELSE scope.address

Authenticated(r, who) == SelectSeq(r.signers, LAMBDA s : s \in who)

InterpreterEnforce(i, call, who) ==
    LET n == Len(Authenticated(rules[i], who))
    IN  /\ n > 0
        /\ i \in DOMAIN programs
        /\ EvalProgram(programs[i].program,
                       [context |-> call, signerCount |-> n, ledger |-> ledger]) = True

(* What rule i has spent in the window that ends with this ledger.         *)
Spent(i, period) ==
    FoldLeft(LAMBDA sum, s : IF s[1] = i /\ s[2] + period > ledger THEN sum + s[3] ELSE sum, 0, spends)

SpendingLimitEnforce(i, call, who) ==
    /\ call.fn = "transfer" /\ call.amount >= 0
    /\ Authenticated(rules[i], who) # <<>>
    /\ Spent(i, rules[i].cap.periodLedgers) + call.amount <= rules[i].cap.limit

(* RESERVED_INVOKER_ONLY_FNS, two of them: hooks only contracts call.      *)
ReservedFns == {"install", "rcv_gate"}

Authorizes(i, call, who) ==
    LET r == rules[i]
    IN  /\ call.fn \notin ReservedFns
        /\ call.to = Target(r.scope) /\ Live(r)
        /\ (r.install = None /\ r.cap = None) => Authenticated(r, who) = r.signers
        /\ r.install # None => InterpreterEnforce(i, call, who)
        /\ r.cap # None => SpendingLimitEnforce(i, call, who)

Call(i, call, who) ==
    /\ Authorizes(i, call, who)
    /\ spends' = IF rules[i].cap # None /\ call.amount > 0
                 THEN Append(spends, <<i, ledger, call.amount>>) ELSE spends
    /\ Len(spends') <= MaxSpends
    /\ UNCHANGED <<doc, rules, programs, ledger>>

CloseLedger ==
    /\ ledger < LedgerMax
    /\ ledger' = ledger + 1
    /\ UNCHANGED <<doc, rules, programs, spends>>

Next ==
    \/ \E d \in Docs : ApplyDoc(d)
    \/ \E i \in DOMAIN rules, call \in Calls, who \in SUBSET SigningKeys : Call(i, call, who)
    \/ doc # None /\ \E d \in Shorter(doc) : Reapply(d)
    \/ CloseLedger

Spec == Init /\ [][Next]_vars

(***************************************************************************)
(* What a document's rule says, without any lowering.                      *)
(***************************************************************************)
(* The ids whose key signed.                                               *)
SignedIds(who) == {doc.signers[i].id : i \in {j \in DOMAIN doc.signers : OzSigner(doc.signers[j].method) \in who}}

Holds(pred, args, index) ==
    /\ index < Len(args)
    /\ LET arg == args[index + 1]
       IN  CASE pred.type = "is-self"       -> arg.type = "address" /\ arg.value = SelfAddr
             [] pred.type = "address-eq"    -> arg.type = "address" /\ arg.value = pred.address
             [] pred.type = "u32-eq"        -> arg.type = "u32" /\ arg.value = pred.value
             [] pred.type = "string-in"     ->
                    /\ arg.type = "string" /\ Len(arg.value) <= MaxStringPredLen
                    /\ \E v \in Range(pred.values) : arg.value = Chars(v)
             [] pred.type = "string-prefix" -> arg.type = "string" /\ IsPrefix(Chars(pred.prefix), arg.value)

Permits(rule, i, call, who) ==
    LET ids == Range(rule.principals.signers) \cap SignedIds(who)
    IN  /\ call.to = Target(rule.scope)
        /\ rule.notAfterLedger # None => ledger < rule.notAfterLedger
        /\ IF rule.principals.type = "all" THEN ids = Range(rule.principals.signers)
           ELSE Cardinality(ids) >= rule.principals.m
        /\ rule.functions # None => call.fn \in Range(rule.functions)
        /\ rule.args # None =>
               \A k \in DOMAIN rule.args : Holds(rule.args[k].pred, call.args, rule.args[k].index)
        /\ rule.cap # None =>
               /\ call.fn = "transfer"
               /\ Spent(i, rule.cap.periodLedgers) + call.amount <= Decimals[rule.cap.limit]

Source(i) == CHOOSE r \in Range(doc.rules) : r.name = rules[i].name

(***************************************************************************)
(* Properties.                                                             *)
(***************************************************************************)
(* Lowering keeps the meaning of a document: an installed rule authorizes  *)
(* a call exactly when the rule in the document permits it and its name is *)
(* not reserved, whatever the principals, predicates, bound, cap, ledger   *)
(* and keys, and whichever rules were removed beside it. INV-1 of the      *)
(* compiler: never without a signature of one of the signers it names.     *)
AuthorizedIffPermitted ==
    \A i \in DOMAIN rules, call \in Calls, who \in SUBSET SigningKeys :
        /\ Authorizes(i, call, who) <=>
               Permits(Source(i), i, call, who) /\ call.fn \notin ReservedFns
        /\ Authorizes(i, call, who) => Range(rules[i].signers) \cap who # {}

(* INV-2: however many ledgers pass and whichever rules are dropped, some  *)
(* rule still lets its signers manage the account, without the             *)
(* interpreter.                                                            *)
AdminPathNeverLost ==
    doc # None =>
        \E i \in DOMAIN rules \ DOMAIN programs : \A call \in Calls :
            call.to = SelfAddr /\ call.fn \notin ReservedFns
                => Authorizes(i, call, Range(rules[i].signers))

(* No window of the period a document's rule names ever holds transfers    *)
(* beyond the limit it names, however calls, ledgers and removals of other *)
(* rules interleave.                                                       *)
WindowsWithinCaps ==
    \A i \in DOMAIN rules : Source(i).cap # None =>
        LET cap == Source(i).cap
            Within(l) == FoldLeft(LAMBDA sum, s :
                             IF s[1] = i /\ s[2] <= l /\ s[2] + cap.periodLedgers > l
                             THEN sum + s[3] ELSE sum, 0, spends)
        IN  \A l \in 1 .. ledger : Within(l) <= Decimals[cap.limit]

(* A document that is a narrowing of another reaches nothing it does not:  *)
(* a call the applied document authorizes is to a contract and function    *)
(* that some rule of every document it narrows names.                      *)
NarrowingReachesNothingNew ==
    doc # None =>
        LET reached == {call \in Calls : \E i \in DOMAIN rules, who \in SUBSET SigningKeys :
                            Authorizes(i, call, who)}
            Names(parent, call) == \E r \in Range(parent.rules) :
                /\ Target(r.scope) = call.to
                /\ r.functions # None => call.fn \in Range(r.functions)
        IN  \A parent \in Docs :
                (\E call \in reached : ~Names(parent, call)) => ~Attenuate(parent, doc)
=============================================================================
