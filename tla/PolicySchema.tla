---------------------------- MODULE PolicySchema ----------------------------
(***************************************************************************)
(* perch-schema: the JSON Schema generated for policy documents, and what  *)
(* it has to do with the reader and the checks behind it.                  *)
(*                                                                         *)
(* A schema is a function from keywords to their arguments, as in the      *)
(* generated file. A pattern is the set of strings it matches. closed      *)
(* stands for additionalProperties: false, the chain of if/then entries    *)
(* for the record [if, then] of each.                                      *)
(***************************************************************************)
EXTENDS DocumentText

CONSTANTS
    StrkeyShape,  \* [strings of a strkey's shape -> {"C", "G"}], good checksum or not
    WideLimits,   \* positive decimals as wide as the largest i128, and larger
    NonAscii,     \* strings with a character outside ASCII
    ManyChars     \* strings of more than MAX_RULE_NAME_BYTES characters

(* A good strkey has the shape, and an ASCII character is one byte.        *)
ASSUME SchemaStrings ==
    /\ \A s \in DOMAIN StrkeyLead : s \in DOMAIN StrkeyShape /\ StrkeyShape[s] = StrkeyLead[s]
    /\ WideLimits \cap DOMAIN Decimals = {}
    /\ ManyChars \subseteq LongNames /\ LongNames \ NonAscii \subseteq ManyChars

(***************************************************************************)
(* A JSON Schema validator. A keyword says nothing of a value of another   *)
(* type than its own. 1.0 is an integer to it, and equal to 1.             *)
(***************************************************************************)
IsNumber(v) == v.t \in {"number", "fraction"}

TypeIs(v, type) == IF type = "integer" THEN IsNumber(v) ELSE v.t = type

SameValue(v, w) == (v.t = w.t \/ (IsNumber(v) /\ IsNumber(w))) /\ v.v = w.v

RECURSIVE Conforms(_, _)
Conforms(schema, v) ==
    LET On(keyword, type, ok) == keyword \in DOMAIN schema /\ TypeIs(v, type) => ok
    IN  /\ "type" \in DOMAIN schema => TypeIs(v, schema.type)
        /\ "const" \in DOMAIN schema => SameValue(v, schema.const)
        /\ "enum" \in DOMAIN schema => v \in schema.enum
        /\ On("minimum", "integer", v.v >= schema.minimum)
        /\ On("maximum", "integer", v.v <= schema.maximum)
        /\ On("pattern", "string", v.v \in schema.pattern)
        /\ On("maxLength", "string", v.v \notin schema.maxLength)
        /\ On("minLength", "string", v.v # "")
        /\ On("minItems", "array", Len(v.v) >= schema.minItems)
        /\ On("maxItems", "array", Len(v.v) <= schema.maxItems)
        /\ On("uniqueItems", "array", ~Repeats(v.v))
        /\ On("items", "array", \A i \in DOMAIN v.v : Conforms(schema.items, v.v[i]))
        /\ On("required", "object", schema.required \subseteq Keys(v))
        /\ On("closed", "object", Keys(v) \subseteq DOMAIN schema.properties)
        /\ On("properties", "object",
              \A k \in Keys(v) \cap DOMAIN schema.properties : Conforms(schema.properties[k], Get(v, k)))
        /\ "oneOf" \in DOMAIN schema => Cardinality({i \in DOMAIN schema.oneOf : Conforms(schema.oneOf[i], v)}) = 1
        /\ "allOf" \in DOMAIN schema => \A i \in DOMAIN schema.allOf :
               Conforms(schema.allOf[i].if, v) => Conforms(schema.allOf[i].then, v)

(***************************************************************************)
(* The patterns and the fields that recur.                                 *)
(***************************************************************************)
AnyString == [type |-> "string"]

Matching(strings) == [type |-> "string", pattern |-> strings]

Shaped(leads) == {s \in DOMAIN StrkeyShape : StrkeyShape[s] \in leads}

ContractAddress == Matching(Shaped({"C"}))

Address == Matching(Shaped({"C", "G"}))

Sha256Hex == Matching(Sha256Hexes)

SignerKeyPattern == {s \in DOMAIN HexDecode : Len(HexDecode[s]) \in 1 .. MaxSignerKeyLen}

(* Only the number of digits is bounded, not the number.                   *)
LimitPattern == {s \in DOMAIN Decimals : Decimals[s] > 0} \cup WideLimits

RuleNamePattern == STRING \ NonAscii

U32Field(min) == [type |-> "integer", minimum |-> min, maximum |-> U32Max]

Const(tag) == [const |-> Str(tag)]

(* An object with exactly these members; optional ones may be missing.     *)
Object(properties, optional) ==
    [type |-> "object", closed |-> TRUE, required |-> DOMAIN properties \ optional, properties |-> properties]

Strings1 == [type |-> "array", minItems |-> 1, uniqueItems |-> TRUE, items |-> AnyString]

(* Of a list of each length up to cap, the bound is at most that length.   *)
CountBoundChain(list, bound, cap) ==
    [len \in 1 .. cap |->
        [if   |-> [required |-> {list, bound}, properties |-> list :> [minItems |-> len, maxItems |-> len]],
         then |-> [properties |-> bound :> [maximum |-> len]]]]

(***************************************************************************)
(* policy_defs.                                                            *)
(***************************************************************************)
SignerDecl ==
    [type |-> "object", oneOf |->
        <<Object(("id" :> AnyString) @@ ("verifier" :> ContractAddress) @@ ("key" :> Matching(SignerKeyPattern)), {}),
          Object(("id" :> AnyString) @@ ("address" :> Address), {})>>]

ScopeDef ==
    [type |-> "object", oneOf |->
        <<Object(("type" :> Const("contract")) @@ ("address" :> ContractAddress), {}),
          Object("type" :> Const("self-admin"), {})>>]

PrincipalsDef ==
    [type |-> "object", allOf |-> CountBoundChain("signers", "m", MaxDocSigners), oneOf |->
        <<Object(("type" :> Const("all")) @@ ("signers" :> Strings1), {}),
          Object(("type" :> Const("threshold")) @@ ("signers" :> Strings1) @@ ("m" :> U32Field(1)), {}),
          Object(("type" :> Const("self-authenticating")) @@ ("policy" :> ContractAddress)
                 @@ ("install-param-hex" :> Matching(DOMAIN HexDecode)) @@ ("ack" :> Const(ACKSentinel)), {})>>]

ArgPredDef ==
    [type |-> "object", oneOf |->
        <<Object("type" :> Const("is-self"), {}),
          Object(("type" :> Const("address-eq")) @@ ("address" :> Address), {}),
          Object(("type" :> Const("string-in")) @@ ("values" :> Strings1), {}),
          Object(("type" :> Const("string-prefix")) @@ ("prefix" :> AnyString), {}),
          Object(("type" :> Const("u32-eq")) @@ ("value" :> U32Field(0)), {})>>]

ArgConstraintDef == Object(("index" :> U32Field(0)) @@ ("pred" :> ArgPredDef), {})

CapConstraintDef ==
    Object(("token" :> ContractAddress) @@ ("limit" :> Matching(LimitPattern))
           @@ ("period-ledgers" :> U32Field(1)), {"token"})

RuleDef ==
    Object(("name" :> [type |-> "string", pattern |-> RuleNamePattern, maxLength |-> ManyChars])
           @@ ("scope" :> ScopeDef) @@ ("principals" :> PrincipalsDef)
           @@ ("functions" :> [Strings1 EXCEPT !.items = [type |-> "string", minLength |-> 1]])
           @@ ("args" :> [type |-> "array", minItems |-> 1, items |-> ArgConstraintDef])
           @@ ("not-after-ledger" :> U32Field(1)) @@ ("cap" :> CapConstraintDef),
           {"functions", "args", "not-after-ledger", "cap"})

GuardianMembers ==
    ("guardians" :> [Strings1 EXCEPT !.items = Address]) @@ ("quorum" :> U32Field(1))

ZkMembers ==
    [name \in ZkFields |-> IF name \in {"adapter", "pool"} THEN ContractAddress ELSE Sha256Hex]

(* Mutant: the quorum is not bounded by the number of guardians.           *)
RecoveryModeDefUnbounded ==
    [type |-> "object", oneOf |->
        <<Object(("type" :> Const("guardian-only")) @@ GuardianMembers, {}),
          Object(("type" :> Const("zk-only")) @@ ZkMembers, {}),
          Object(("type" :> Const("combined")) @@ GuardianMembers @@ ZkMembers, {})>>]

RecoveryModeDef ==
    [type |-> "object", allOf |-> CountBoundChain("guardians", "quorum", MaxDocSigners), oneOf |->
        <<Object(("type" :> Const("guardian-only")) @@ GuardianMembers, {}),
          Object(("type" :> Const("zk-only")) @@ ZkMembers, {}),
          Object(("type" :> Const("combined")) @@ GuardianMembers @@ ZkMembers, {})>>]

RecoveryConfigDef ==
    Object(("profile" :> [enum |-> {Str("loss"), Str("protected")}]) @@ ("mode" :> RecoveryModeDef)
           @@ ("controller" :> ContractAddress) @@ ("baseline" :> Object("doc-hash" :> Sha256Hex, {}))
           @@ ("replaceable" :> Strings1) @@ [w \in Windows |-> U32Field(1)],
           {"baseline"})

ListOf(items, max) == [type |-> "array", items |-> items, maxItems |-> max]

DocSchema ==
    Object(("version" :> [const |-> Num(1)]) @@ ("network" :> AnyString)
           @@ ("signers" :> ListOf(SignerDecl, MaxDocSigners)) @@ ("rules" :> ListOf(RuleDef, MaxDocRules))
           @@ ("recovery" :> RecoveryConfigDef),
           {"network", "recovery"})

(***************************************************************************)
(* What the schema leaves to the reader and to validate.                   *)
(***************************************************************************)
RECURSIVE Whole(_)
Whole(v) ==
    CASE v.t = "object" -> \A i \in DOMAIN v.v : Whole(v.v[i][2])
      [] v.t = "array"  -> \A i \in DOMAIN v.v : Whole(v.v[i])
      [] OTHER          -> v.t # "fraction"

RECURSIVE StringsOf(_)
StringsOf(v) ==
    CASE v.t = "object" -> UNION {StringsOf(v.v[i][2]) : i \in DOMAIN v.v}
      [] v.t = "array"  -> UNION {StringsOf(v.v[i]) : i \in DOMAIN v.v}
      [] v.t = "string" -> {v.v}
      [] OTHER          -> {}

(* The lexical part of the format: a key written once, a number written as *)
(* an integer.                                                             *)
Lexical == Once(text) /\ Whole(text)

SchemaValid == Conforms(DocSchema, text)

EmptyNames == {"EmptySignerId", "EmptyRuleName"}

(* Checks that relate two places of a document, or need more than a        *)
(* pattern of one string.                                                  *)
Semantic ==
    {"DuplicateSignerId", "DuplicateSignerKey", "UnknownSignerRef", "DuplicateRuleName", "DuplicateArgIndex",
     "UnknownRecoveryReplaceableRef", "CapTokenMismatch", "CapWithoutToken", "RuleScopedToRecoveryContract",
     "InvalidFunctionName", "StringPredicateTooLong", "InvalidCommitment"}

BadChecksum == {s \in DOMAIN StrkeyShape : s \notin DOMAIN StrkeyLead}

AddressErrors ==
    {"InvalidVerifierAddress", "InvalidDelegatedAddress", "InvalidContractAddress", "InvalidPolicyAddress",
     "InvalidArgAddress", "InvalidCapToken", "InvalidRecoveryController", "InvalidGuardianAddress",
     "InvalidRecoveryAdapter", "InvalidRecoveryPool"}

(* The violations docs/schema.md leaves outside the schema, for this text. *)
Outside(doc, errors) ==
    Semantic
    \cup (IF StringsOf(text) \cap BadChecksum # {} THEN AddressErrors ELSE {})
    \cup (IF StringsOf(text) \cap WideLimits # {} THEN {"InvalidCapLimit"} ELSE {})
    \cup (IF /\ doc.recovery # None /\ doc.recovery.mode.guardianSet # None
             /\ Len(doc.recovery.mode.guardianSet.guardians) > MaxDocSigners
          THEN {"InvalidGuardianQuorum"} ELSE {})
    \cup (IF "UnknownSignerRef" \in errors THEN {"InvalidThreshold"} ELSE {})

(***************************************************************************)
(* Properties.                                                             *)
(***************************************************************************)
(* An editor that trusts the schema refuses no document the compiler       *)
(* takes: a document that validate passes, within the compiler's caps and  *)
(* with ASCII rule names, conforms to the schema.                          *)
SchemaAdmitsWhatCompiles ==
    LET doc == Doc(text)
    IN  /\ Accepted /\ Validate(doc) = {} /\ ~TooLarge(doc)
        /\ \A i \in DOMAIN doc.rules : doc.rules[i].name \notin NonAscii
        => SchemaValid

(* The schema refuses what it can: a conforming text with its keys once    *)
(* and its numbers whole is read, is within the compiler's caps, and       *)
(* validate finds nothing in it but an empty name and what needs more than *)
(* a pattern. A threshold above its list goes by only with an undeclared   *)
(* signer in the list, a quorum above its guardians only when there are    *)
(* more guardians than the chain counts.                                   *)
SchemaLeavesOnlySemantics ==
    LET doc == Doc(text)
        errors == Validate(doc)
    IN  \/ Accepted /\ ~TooLarge(doc) /\ errors \subseteq Outside(doc, errors) \cup EmptyNames
        \/ ~(Lexical /\ SchemaValid)

(* Schema and compiler agree, but for what a schema cannot express.        *)
SchemaAgreesWithCompiler == SchemaAdmitsWhatCompiles /\ SchemaLeavesOnlySemantics
=============================================================================
