--------------------------- MODULE PolicyLowering ---------------------------
(***************************************************************************)
(* perch-compile: a validated document lowered to the rules an account     *)
(* installs (lib.rs) and the check that one plan narrows another           *)
(* (attenuation.rs); and compile_parsed of perch-doc-compiler around it.   *)
(*                                                                         *)
(* A hash stands for what it is taken of: rule_hash is the rule's own      *)
(* canonical value, doc_hash the document's.                               *)
(***************************************************************************)
EXTENDS DocumentValidation, PolicyProgram

CONSTANTS
    Network,          \* the name whose hash is the chain's network id
    MaxDocSigners,    \* MAX_DOC_SIGNERS
    MaxDocRules,      \* MAX_DOC_RULES
    LongNames,        \* strings longer than MAX_RULE_NAME_BYTES
    MaxDocCanonicalBytes, \* MAX_DOC_CANONICAL_BYTES
    CanonicalBytes(_),    \* the length of a document's canonical text
    Canonicalize(_,_) \* a verifier's canonical form of key bytes, or None

ASSUME PredLimits == MaxStringPredLen = MaxStrArgLen

(***************************************************************************)
(* validate of perch-program run to its end (ProgramMachine takes it op by *)
(* op).                                                                    *)
(***************************************************************************)
Validates(ops) ==
    LET Depth(sp, op) == IF sp < 0 \/ Stuck(op, sp) THEN -1 ELSE sp - Pops(op) + 1
    IN  Len(ops) \in 1 .. MaxProgramLen /\ FoldLeft(Depth, 0, ops) = 1

(***************************************************************************)
(* lower_rule.                                                             *)
(***************************************************************************)
(* The declaration an id resolves to: the first with that id.              *)
Decl(doc, id) ==
    doc.signers[CHOOSE i \in DOMAIN doc.signers :
        /\ doc.signers[i].id = id
        /\ \A j \in 1 .. i - 1 : doc.signers[j].id # id]

MinSigners(p) == IF p.type = "all" THEN Len(p.signers) ELSE p.m

LowerArgPred(index, pred) ==
    CASE pred.type = "is-self"       -> [op |-> "ArgAddrIsSelf", i |-> index]
      [] pred.type = "address-eq"    -> [op |-> "ArgAddrEq", i |-> index, want |-> pred.address]
      [] pred.type = "u32-eq"        -> [op |-> "ArgU32Eq", i |-> index, want |-> pred.value]
      [] pred.type = "string-in"     ->
             [op |-> "ArgStrIn", i |-> index, set |-> [k \in DOMAIN pred.values |-> Chars(pred.values[k])]]
      [] pred.type = "string-prefix" -> [op |-> "ArgStrPrefix", i |-> index, prefix |-> Chars(pred.prefix)]

(* All of: the signer floor, the function list, each argument predicate.   *)
BuildProgram(rule) ==
    LET floor == IF MinSigners(rule.principals) = 0 THEN 1 ELSE MinSigners(rule.principals)
        leaves == <<[op |-> "MinSigners", n |-> floor]>>
            \o (IF rule.functions = None THEN <<>> ELSE <<[op |-> "FnIn", fns |-> rule.functions]>>)
            \o (IF rule.args = None THEN <<>>
                ELSE [i \in DOMAIN rule.args |-> LowerArgPred(rule.args[i].index, rule.args[i].pred)])
    IN  Append(leaves, [op |-> "All", n |-> Len(leaves)])

(* INV-2: a rule that needs no policy, since the native check of all its   *)
(* signers is all it says.                                                 *)
ConstraintFree(rule) ==
    rule.principals.type = "all" /\ rule.functions = None /\ rule.args = None /\ rule.cap = None

LowerError(doc, rule) ==
    IF rule.principals.type = "self-authenticating" THEN "Unsupported"
    ELSE IF ~(Range(rule.principals.signers) \subseteq Declared(doc)) THEN "UnknownSignerRef"
    ELSE IF rule.cap # None /\ rule.cap.limit \notin DOMAIN Decimals THEN "InvalidCap"
    ELSE IF ~ConstraintFree(rule) /\ ~Validates(BuildProgram(rule)) THEN "InvalidProgram"
    ELSE "Ok"

RuleHash(rule) == RuleToCv(rule)

(* Mutant: a bounded rule is still valid in the ledger that ends it.       *)
ValidUntilInclusive(rule) == rule.notAfterLedger

(* OZ keeps a rule valid in the ledger valid_until names.                  *)
ValidUntil(rule) == IF rule.notAfterLedger = None THEN None ELSE rule.notAfterLedger - 1

(* Mutant: a window is one ledger shorter than its period.                 *)
LowerCapShort(cap) == [limit |-> Decimals[cap.limit], periodLedgers |-> cap.periodLedgers - 1]

(* The parameters of the spending limit a cap becomes.                     *)
LowerCap(cap) == [limit |-> Decimals[cap.limit], periodLedgers |-> cap.periodLedgers]

LowerRule(doc, rule) ==
    [name |-> rule.name, scope |-> rule.scope,
     signers |-> [i \in DOMAIN rule.principals.signers |-> Decl(doc, rule.principals.signers[i]).method],
     validUntil |-> ValidUntil(rule),
     install |-> IF ConstraintFree(rule) THEN None
                 ELSE [program |-> BuildProgram(rule), docHash |-> RuleHash(rule)],
     cap |-> IF rule.cap = None THEN None ELSE LowerCap(rule.cap)]

(* compile: the error of the first rule that has one.                      *)
CompileError(doc) ==
    LET bad == {i \in DOMAIN doc.rules : LowerError(doc, doc.rules[i]) # "Ok"}
    IN  IF bad = {} THEN "Ok"
        ELSE LowerError(doc, doc.rules[CHOOSE i \in bad : \A j \in bad : i <= j])

Plan(doc) == [i \in DOMAIN doc.rules |-> LowerRule(doc, doc.rules[i])]

(***************************************************************************)
(* attenuation.rs over the reach analysis.rs reads from a plan.            *)
(***************************************************************************)
Reach(r) == IF r.install = None THEN [any |-> TRUE] ELSE RuleFunctions(r.install.program)

FnCovers(parent, child) == parent.any \/ (~child.any /\ child.only \subseteq parent.only)

(* Mutant: a narrowing need not stay in the scope it narrows.              *)
IsNarrowingAnywhere(parent, child) ==
    \A i \in DOMAIN child : \E j \in DOMAIN parent : FnCovers(Reach(parent[j]), Reach(child[i]))

IsNarrowing(parent, child) ==
    \A i \in DOMAIN child : \E j \in DOMAIN parent :
        parent[j].scope = child[i].scope /\ FnCovers(Reach(parent[j]), Reach(child[i]))

Attenuate(parent, child) ==
    /\ CompileError(parent) = "Ok" /\ CompileError(child) = "Ok"
    /\ IsNarrowing(Plan(parent), Plan(child))

(***************************************************************************)
(* compile_parsed, to_compiled and canonical_credentials.                  *)
(***************************************************************************)
CanonicalKey(method) ==
    method.type = "external" =>
        Canonicalize(method.verifier, HexDecode[method.key]) = HexDecode[method.key]

TooLarge(doc) ==
    \/ Len(doc.signers) > MaxDocSigners \/ Len(doc.rules) > MaxDocRules
    \/ \E i \in DOMAIN doc.rules : doc.rules[i].name \in LongNames

CompileParsed(doc) ==
    IF Validate(doc) # {} THEN "DocInvalid"
    ELSE IF doc.network # Network THEN "WrongNetwork"
    ELSE IF TooLarge(doc) THEN "DocTooLarge"
    ELSE IF CompileError(doc) # "Ok" THEN "DocCompile"
    ELSE IF CanonicalBytes(doc) > MaxDocCanonicalBytes THEN "DocTooLarge"
    ELSE IF \E i \in DOMAIN doc.signers : ~CanonicalKey(doc.signers[i].method)
    THEN "KeyNotCanonicalizable"
    ELSE "Ok"

(* A lowered rule in OZ's types: a key is its bytes.                       *)
OzSigner(method) ==
    IF method.type = "delegated" THEN <<method.address>> ELSE <<method.verifier, HexDecode[method.key]>>

(* Mutant: an admin rule that lapses is admin enough.                      *)
AdminSurvivesBounded(rules) ==
    \E i \in DOMAIN rules : rules[i].scope.type = "self-admin" /\ rules[i].signers # <<>>
                             /\ rules[i].install = None /\ rules[i].cap = None

AdminSurvives(rules) ==
    \E i \in DOMAIN rules :
        /\ rules[i].scope.type = "self-admin" /\ rules[i].validUntil = None
        /\ rules[i].signers # <<>> /\ rules[i].install = None /\ rules[i].cap = None

ToCompiled(r) ==
    [r EXCEPT !.signers = [i \in DOMAIN r.signers |-> OzSigner(r.signers[i])]]
=============================================================================
