------------------------- MODULE DocumentValidation -------------------------
(***************************************************************************)
(* validate of perch-ir: what a document that parsed may still get wrong.  *)
(* The code collects every violation; the model collects their kinds.      *)
(*                                                                         *)
(* What the checks tell apart of a string is given by the constants: the   *)
(* lead letter of a well-formed strkey, the bytes a hex string decodes to, *)
(* the number a decimal string spells, the length of any other string.     *)
(***************************************************************************)
EXTENDS PolicyDocument

CONSTANTS
    StrkeyLead,      \* [strings that are strkeys -> {"C", "G"}]
    HexDecode,       \* [strings that are hex -> sequences of bytes]
    Sha256Hexes,     \* strings of 64 lowercase hex characters
    FieldElements,   \* those of them below the scalar field modulus
    Decimals,        \* [strings that parse as an i128 -> integers]
    Symbols,         \* strings that are a Soroban Symbol
    Spelling,        \* [strings whose characters matter -> sequences]
    MaxStringPredLen,\* MAX_STRING_PRED_LEN
    MaxSignerKeyLen  \* MAX_SIGNER_KEY_LEN

ACKSentinel == "this-policy-authenticates-or-anyone-can-fire-this-rule"

IsStrkeyShape(s, leads) == s \in DOMAIN StrkeyLead /\ StrkeyLead[s] \in leads

IsContractAddressShape(s) == IsStrkeyShape(s, {"C"})

IsAddressShape(s) == IsStrkeyShape(s, {"C", "G"})

IsHex(s) == s \in DOMAIN HexDecode

Chars(s) == IF s \in DOMAIN Spelling THEN Spelling[s] ELSE <<s>>

IsSha256Hex(s) == s \in Sha256Hexes

(***************************************************************************)
(* The kinds of violation.                                                 *)
(***************************************************************************)
SignerErrorKinds ==
    {"UnsupportedVersion", "EmptySignerId", "DuplicateSignerId", "DuplicateSignerKey",
     "InvalidSignerKeyHex", "SignerKeyLength", "InvalidVerifierAddress", "InvalidDelegatedAddress"}

RuleErrorKinds ==
    {"EmptyRuleName", "DuplicateRuleName", "InvalidContractAddress", "EmptyPrincipalSigners",
     "DuplicatePrincipalSigner", "UnknownSignerRef", "InvalidThreshold", "WrongAckSentinel",
     "InvalidPolicyAddress", "InvalidInstallParamHex", "EmptyFunctions", "EmptyFunctionName",
     "DuplicateFunction", "InvalidFunctionName", "EmptyArgs", "DuplicateArgIndex",
     "EmptyStringInValues", "DuplicateStringInValue", "StringPredicateTooLong", "InvalidArgAddress",
     "ZeroNotAfterLedger", "InvalidCapLimit", "ZeroCapPeriod", "InvalidCapToken", "CapWithoutToken",
     "CapTokenMismatch", "RuleScopedToRecoveryContract"}

RecoveryErrorKinds ==
    {"EmptyRecoveryReplaceable", "DuplicateRecoveryReplaceable", "UnknownRecoveryReplaceableRef",
     "ZeroRecoveryDelayLedgers", "ZeroRecoveryExpiryLedgers", "ZeroRecoveryMaxCancels",
     "InvalidRecoveryController", "InvalidBaselineDocHash", "EmptyGuardianSet", "DuplicateGuardian",
     "InvalidGuardianAddress", "InvalidGuardianQuorum", "InvalidRecoveryAdapter", "InvalidCircuitId",
     "InvalidEnrollmentId", "InvalidCommitment", "InvalidRecoveryPool"}

ErrorKinds == SignerErrorKinds \cup RuleErrorKinds \cup RecoveryErrorKinds

(* The kinds whose condition holds; the conditions are a function from     *)
(* kinds.                                                                  *)
Raised(conditions) == {kind \in DOMAIN conditions : conditions[kind]}

Repeats(seq) == \E i, j \in DOMAIN seq : i < j /\ seq[i] = seq[j]

(***************************************************************************)
(* Signers: one physical key may stand under one id only.                  *)
(***************************************************************************)
(* Mutant: keys are compared as they are spelled.                          *)
KeyMaterialSpelled(method) ==
    IF method.type = "delegated" THEN <<method.address>> ELSE <<method.verifier, method.key>>

KeyMaterial(method) ==
    IF method.type = "delegated" THEN <<method.address>>
    ELSE <<method.verifier, HexDecode[method.key]>>

Decodable(method) == method.type = "external" => IsHex(method.key)

SignerErrors(signers) ==
    LET ids == [i \in DOMAIN signers |-> signers[i].id]
        Decoded == {i \in DOMAIN signers : Decodable(signers[i].method)}
        External == {i \in DOMAIN signers : signers[i].method.type = "external"}
        KeyLen(i) == Len(HexDecode[signers[i].method.key])
    IN  Raised(
        [EmptySignerId      |-> "" \in Range(ids),
         DuplicateSignerId  |-> Repeats(SelectSeq(ids, LAMBDA id : id # "")),
         DuplicateSignerKey |-> \E i, j \in Decoded :
             i < j /\ KeyMaterial(signers[i].method) = KeyMaterial(signers[j].method),
         InvalidSignerKeyHex |-> Decoded # DOMAIN signers,
         SignerKeyLength     |-> \E i \in External \cap Decoded : KeyLen(i) \notin 1 .. MaxSignerKeyLen,
         InvalidVerifierAddress |->
             \E i \in External : ~IsContractAddressShape(signers[i].method.verifier),
         InvalidDelegatedAddress |->
             \E i \in DOMAIN signers \ External : ~IsAddressShape(signers[i].method.address)])

(***************************************************************************)
(* Rules.                                                                  *)
(***************************************************************************)
PrincipalSignerErrors(signers, declared) ==
    Raised([EmptyPrincipalSigners    |-> signers = <<>>,
            DuplicatePrincipalSigner |-> Repeats(signers),
            UnknownSignerRef         |-> ~(Range(signers) \subseteq declared)])

PrincipalsErrors(p, declared) ==
    CASE p.type = "all" -> PrincipalSignerErrors(p.signers, declared)
      [] p.type = "threshold" ->
             PrincipalSignerErrors(p.signers, declared)
             \cup Raised([InvalidThreshold |-> p.m \notin 1 .. Len(p.signers)])
      [] OTHER ->
             Raised([WrongAckSentinel       |-> p.ack # ACKSentinel,
                     InvalidPolicyAddress   |-> ~IsContractAddressShape(p.policy),
                     InvalidInstallParamHex |-> ~IsHex(p.installParamHex)])

FunctionErrors(functions) ==
    Raised([EmptyFunctions      |-> functions = <<>>,
            EmptyFunctionName   |-> "" \in Range(functions),
            InvalidFunctionName |-> ~(Range(functions) \subseteq Symbols \cup {""}),
            DuplicateFunction   |-> Repeats(functions)])

(* An over-long candidate of string-in is dead, not an error; an over-long *)
(* prefix is.                                                              *)
PredErrors(pred) ==
    CASE pred.type = "string-in" ->
             Raised([EmptyStringInValues    |-> pred.values = <<>>,
                     DuplicateStringInValue |-> Repeats(pred.values)])
      [] pred.type = "string-prefix" ->
             Raised([StringPredicateTooLong |-> Len(Chars(pred.prefix)) > MaxStringPredLen])
      [] pred.type = "address-eq" -> Raised([InvalidArgAddress |-> ~IsAddressShape(pred.address)])
      [] OTHER -> {}

ArgErrors(args) ==
    Raised([EmptyArgs |-> args = <<>>,
            DuplicateArgIndex |-> Repeats([i \in DOMAIN args |-> args[i].index])])
    \cup UNION {PredErrors(args[i].pred) : i \in DOMAIN args}

CapErrors(cap, scope) ==
    LET named == cap.token # None
    IN  Raised(
        [InvalidCapLimit |-> ~(cap.limit \in DOMAIN Decimals /\ Decimals[cap.limit] > 0),
         ZeroCapPeriod   |-> cap.periodLedgers = 0,
         CapWithoutToken |-> scope.type = "self-admin",
         InvalidCapToken |-> scope.type = "contract" /\ named /\ ~IsContractAddressShape(cap.token),
         CapTokenMismatch |->
             /\ scope.type = "contract" /\ named /\ IsContractAddressShape(cap.token)
             /\ cap.token # scope.address])

IfSome(option, Errors(_)) == IF option = None THEN {} ELSE Errors(option)

RuleErrors(rule, declared) ==
    LET OfCap(cap) == CapErrors(cap, rule.scope)
    IN  Raised([InvalidContractAddress |->
                    rule.scope.type = "contract" /\ ~IsContractAddressShape(rule.scope.address),
                ZeroNotAfterLedger |-> rule.notAfterLedger = 0])
        \cup PrincipalsErrors(rule.principals, declared)
        \cup IfSome(rule.functions, FunctionErrors) \cup IfSome(rule.args, ArgErrors)
        \cup IfSome(rule.cap, OfCap)

(***************************************************************************)
(* Recovery.                                                               *)
(***************************************************************************)
(* Mutant: a guardian may be listed twice.                                 *)
GuardianSetErrorsRepeated(g) ==
    Raised([EmptyGuardianSet       |-> g.guardians = <<>>,
            InvalidGuardianAddress |-> \E a \in Range(g.guardians) : ~IsAddressShape(a),
            InvalidGuardianQuorum  |-> g.quorum \notin 1 .. Len(g.guardians)])

GuardianSetErrors(g) ==
    Raised([EmptyGuardianSet       |-> g.guardians = <<>>,
            DuplicateGuardian      |-> Repeats(g.guardians),
            InvalidGuardianAddress |-> \E a \in Range(g.guardians) : ~IsAddressShape(a),
            InvalidGuardianQuorum  |-> g.quorum \notin 1 .. Len(g.guardians)])

ZkFactorErrors(z) ==
    Raised([InvalidRecoveryAdapter |-> ~IsContractAddressShape(z["adapter"]),
            InvalidCircuitId       |-> ~IsSha256Hex(z["circuit-id"]),
            InvalidRecoveryPool    |-> ~IsContractAddressShape(z["pool"]),
            InvalidEnrollmentId    |-> ~IsSha256Hex(z["enrollment-id"]),
            InvalidCommitment      |-> z["commitment"] \notin FieldElements])

RecoveryErrors(r, declared) ==
    Raised([EmptyRecoveryReplaceable      |-> r.replaceable = <<>>,
            DuplicateRecoveryReplaceable  |-> Repeats(r.replaceable),
            UnknownRecoveryReplaceableRef |-> ~(Range(r.replaceable) \subseteq declared),
            ZeroRecoveryDelayLedgers      |-> r.windows["delay-ledgers"] = 0,
            ZeroRecoveryExpiryLedgers     |-> r.windows["expiry-ledgers"] = 0,
            ZeroRecoveryMaxCancels        |-> r.windows["max-cancels"] = 0,
            InvalidRecoveryController     |-> ~IsContractAddressShape(r.controller),
            InvalidBaselineDocHash        |-> r.baseline # None /\ ~IsSha256Hex(r.baseline)])
    \cup IfSome(r.mode.guardianSet, GuardianSetErrors) \cup IfSome(r.mode.zk, ZkFactorErrors)

ZkContractErrors(doc, r) ==
    Raised([RuleScopedToRecoveryContract |->
        /\ r.mode.zk # None
        /\ \E i \in DOMAIN doc.rules :
               /\ doc.rules[i].scope.type = "contract"
               /\ doc.rules[i].scope.address \in {r.mode.zk["adapter"], r.mode.zk["pool"]}])

(***************************************************************************)
(* The document.                                                           *)
(***************************************************************************)
Declared(doc) == {doc.signers[i].id : i \in DOMAIN doc.signers}

Validate(doc) ==
    LET names == [i \in DOMAIN doc.rules |-> doc.rules[i].name]
        OfRecovery(r) == RecoveryErrors(r, Declared(doc)) \cup ZkContractErrors(doc, r)
    IN  Raised([UnsupportedVersion |-> doc.version # 1,
                EmptyRuleName      |-> "" \in Range(names),
                DuplicateRuleName  |-> Repeats(SelectSeq(names, LAMBDA n : n # ""))])
        \cup SignerErrors(doc.signers)
        \cup UNION {RuleErrors(doc.rules[i], Declared(doc)) : i \in DOMAIN doc.rules}
        \cup IfSome(doc.recovery, OfRecovery)
=============================================================================
