--------------------------- MODULE PolicyDocument ---------------------------
(***************************************************************************)
(* perch-ir: reading a policy document from JSON (parse.rs) and writing    *)
(* its canonical form (canon.rs).                                          *)
(*                                                                         *)
(* A JSON value is [t |-> its kind, v |-> its content]. The reader's       *)
(* object is a sequence of <<key, value>> pairs, in source order and with  *)
(* duplicates, as the lexer hands them over. The writer sorts the members  *)
(* of an object, so a canonical object is a function from keys to values.  *)
(* A string is an atom. An integer literal is a "number"; one with a       *)
(* fraction or an exponent is a "fraction".                                *)
(*                                                                         *)
(* Each reading function has two halves: XOk(v), whether it succeeds, and  *)
(* X(v), the part of the document it then returns.                         *)
(***************************************************************************)
EXTENDS Integers, FiniteSets, Sequences, SequencesExt, TLC

CONSTANTS
    None,       \* an Option that is None
    U32Max,     \* the largest u32
    U64Max      \* the largest u64

ASSUME WidthAssumption == U32Max \in Nat /\ U64Max \in Nat /\ 1 <= U32Max /\ U32Max < U64Max

Str(s) == [t |-> "string", v |-> s]

Num(n) == [t |-> "number", v |-> n]

Arr(items) == [t |-> "array", v |-> items]

Obj(members) == [t |-> "object", v |-> members]

Null == [t |-> "null", v |-> 0]

(***************************************************************************)
(* The document.                                                           *)
(***************************************************************************)
U32 == 0 .. U32Max

Maybe(type) == type \cup {None}

SignerDecls ==
    [id : STRING, method : [type : {"delegated"}, address : STRING]
                           \cup [type : {"external"}, verifier : STRING, key : STRING]]

Scopes == [type : {"contract"}, address : STRING] \cup [type : {"self-admin"}]

PrincipalLists ==
    [type : {"all"}, signers : Seq(STRING)]
    \cup [type : {"threshold"}, signers : Seq(STRING), m : U32]
    \cup [type : {"self-authenticating"}, policy : STRING, installParamHex : STRING, ack : STRING]

ArgPreds ==
    [type : {"is-self"}] \cup [type : {"address-eq"}, address : STRING]
    \cup [type : {"string-in"}, values : Seq(STRING)] \cup [type : {"string-prefix"}, prefix : STRING]
    \cup [type : {"u32-eq"}, value : U32]

ArgConstraints == [index : U32, pred : ArgPreds]

Caps == [token : Maybe(STRING), limit : STRING, periodLedgers : U32]

DocRules ==
    [name : STRING, scope : Scopes, principals : PrincipalLists, functions : Maybe(Seq(STRING)),
     args : Maybe(Seq(ArgConstraints)), notAfterLedger : Maybe(U32), cap : Maybe(Caps)]

ZkFields == {"adapter", "circuit-id", "pool", "enrollment-id", "commitment"}

ZkFactors == [ZkFields -> STRING]

GuardianSets == [guardians : Seq(STRING), quorum : U32]

RecoveryModes ==
    {m \in [guardianSet : Maybe(GuardianSets), zk : Maybe(ZkFactors)] : m.guardianSet # None \/ m.zk # None}

Windows == {"delay-ledgers", "expiry-ledgers", "max-cancels"}

RecoveryConfigs ==
    [profile : {"loss", "protected"}, mode : RecoveryModes, controller : STRING,
     baseline : Maybe(STRING), replaceable : Seq(STRING), windows : [Windows -> U32]]

PolicyDocs ==
    [version : U32, network : Maybe(STRING), signers : Seq(SignerDecls), rules : Seq(DocRules),
     recovery : Maybe(RecoveryConfigs)]

(***************************************************************************)
(* Reading: the helpers on the value tree.                                 *)
(***************************************************************************)
Keys(v) == {v.v[i][1] : i \in DOMAIN v.v}

Places(v, name) == {i \in DOMAIN v.v : v.v[i][1] = name}

Get(v, name) == v.v[CHOOSE i \in Places(v, name) : TRUE][2]

(* field: a key that occurs twice is an error.                             *)
Field(v, name) == Cardinality(Places(v, name)) <= 1

ReqField(v, name) == Field(v, name) /\ name \in Keys(v)

OptField(v, name) == Field(v, name) /\ (name \in Keys(v) => Get(v, name).t # "null")

DenyUnknown(v, known) == Keys(v) \subseteq known

AsObject(v) == v.t = "object"

AsArray(v) == v.t = "array"

AsStr(v) == v.t = "string"

AsU32(v) == v.t = "number" /\ v.v \in U32

(* An object with exactly these members, each at most once and no optional *)
(* one null.                                                               *)
Members(v, required, optional) ==
    /\ AsObject(v)
    /\ DenyUnknown(v, required \cup optional)
    /\ \A name \in required : ReqField(v, name)
    /\ \A name \in optional : OptField(v, name)

(* tag: an object whose type is tag, with these members besides.           *)
Tag(v, tag, required) ==
    /\ AsObject(v) /\ ReqField(v, "type") /\ Get(v, "type") = Str(tag)
    /\ Members(v, {"type"} \cup required, {})

Present(v, name, Ok(_)) == name \in Keys(v) => Ok(Get(v, name))

Option(v, name, Read(_)) == IF name \in Keys(v) THEN Read(Get(v, name)) ELSE None

Text(v) == v.v

Texts(v) == [i \in DOMAIN v.v |-> v.v[i].v]

Each(v, Read(_)) == [i \in DOMAIN v.v |-> Read(v.v[i])]

(***************************************************************************)
(* Reading: signers.                                                       *)
(***************************************************************************)
Fields(v, names, Ok(_)) == \A name \in names : Ok(Get(v, name))

(* Mutant: the fields of an external signer are let be beside an address.  *)
SignerOkMixed(v) ==
    /\ AsObject(v)
    /\ IF "address" \in Keys(v)
       THEN Members(v, {"id", "address"}, {"verifier", "key"}) /\ Fields(v, {"id", "address"}, AsStr)
       ELSE Members(v, {"id", "verifier", "key"}, {}) /\ Fields(v, {"id", "verifier", "key"}, AsStr)

(* An address makes the signer delegated.                                  *)
SignerOk(v) ==
    /\ AsObject(v)
    /\ LET names == IF "address" \in Keys(v) THEN {"id", "address"} ELSE {"id", "verifier", "key"}
       IN  Members(v, names, {}) /\ Fields(v, names, AsStr)

SignerMethod(v) ==
    IF "address" \in Keys(v)
    THEN [type |-> "delegated", address |-> Get(v, "address").v]
    ELSE [type |-> "external", verifier |-> Get(v, "verifier").v, key |-> Get(v, "key").v]

Signer(v) == [id |-> Get(v, "id").v, method |-> SignerMethod(v)]

(***************************************************************************)
(* Reading: rules.                                                         *)
(***************************************************************************)
ScopeOk(v) ==
    \/ Tag(v, "contract", {"address"}) /\ AsStr(Get(v, "address"))
    \/ Tag(v, "self-admin", {})

Scope(v) ==
    IF Get(v, "type").v = "contract" THEN [type |-> "contract", address |-> Get(v, "address").v]
    ELSE [type |-> "self-admin"]

AsTexts(v) == AsArray(v) /\ \A i \in DOMAIN v.v : AsStr(v.v[i])

PrincipalsOk(v) ==
    \/ Tag(v, "all", {"signers"}) /\ AsTexts(Get(v, "signers"))
    \/ Tag(v, "threshold", {"signers", "m"}) /\ AsTexts(Get(v, "signers")) /\ AsU32(Get(v, "m"))
    \/ /\ Tag(v, "self-authenticating", {"policy", "install-param-hex", "ack"})
       /\ Fields(v, {"policy", "install-param-hex", "ack"}, AsStr)

Principals(v) ==
    LET type == Get(v, "type").v
    IN  CASE type = "all" -> [type |-> type, signers |-> Texts(Get(v, "signers"))]
          [] type = "threshold" ->
                 [type |-> type, signers |-> Texts(Get(v, "signers")), m |-> Get(v, "m").v]
          [] OTHER -> [type |-> type, policy |-> Get(v, "policy").v,
                       installParamHex |-> Get(v, "install-param-hex").v, ack |-> Get(v, "ack").v]

PredOk(v) ==
    \/ Tag(v, "is-self", {})
    \/ Tag(v, "address-eq", {"address"}) /\ AsStr(Get(v, "address"))
    \/ Tag(v, "string-in", {"values"}) /\ AsTexts(Get(v, "values"))
    \/ Tag(v, "string-prefix", {"prefix"}) /\ AsStr(Get(v, "prefix"))
    \/ Tag(v, "u32-eq", {"value"}) /\ AsU32(Get(v, "value"))

Pred(v) ==
    LET type == Get(v, "type").v
    IN  CASE type = "is-self"       -> [type |-> type]
          [] type = "address-eq"    -> [type |-> type, address |-> Get(v, "address").v]
          [] type = "string-in"     -> [type |-> type, values |-> Texts(Get(v, "values"))]
          [] type = "string-prefix" -> [type |-> type, prefix |-> Get(v, "prefix").v]
          [] type = "u32-eq"        -> [type |-> type, value |-> Get(v, "value").v]

ArgConstraintOk(v) ==
    Members(v, {"index", "pred"}, {}) /\ AsU32(Get(v, "index")) /\ PredOk(Get(v, "pred"))

ArgConstraint(v) == [index |-> Get(v, "index").v, pred |-> Pred(Get(v, "pred"))]

CapOk(v) ==
    /\ Members(v, {"limit", "period-ledgers"}, {"token"})
    /\ Present(v, "token", AsStr) /\ AsStr(Get(v, "limit")) /\ AsU32(Get(v, "period-ledgers"))

Cap(v) ==
    [token |-> Option(v, "token", Text), limit |-> Get(v, "limit").v,
     periodLedgers |-> Get(v, "period-ledgers").v]

RuleOk(v) ==
    /\ Members(v, {"name", "scope", "principals"}, {"functions", "args", "not-after-ledger", "cap"})
    /\ AsStr(Get(v, "name")) /\ ScopeOk(Get(v, "scope")) /\ PrincipalsOk(Get(v, "principals"))
    /\ Present(v, "functions", AsTexts)
    /\ LET ArgsOk(a) == AsArray(a) /\ \A i \in DOMAIN a.v : ArgConstraintOk(a.v[i])
       IN  Present(v, "args", ArgsOk)
    /\ Present(v, "not-after-ledger", AsU32) /\ Present(v, "cap", CapOk)

Rule(v) ==
    LET Args(a) == Each(a, ArgConstraint)
    IN  [name |-> Get(v, "name").v, scope |-> Scope(Get(v, "scope")),
         principals |-> Principals(Get(v, "principals")),
         functions |-> Option(v, "functions", Texts), args |-> Option(v, "args", Args),
         notAfterLedger |-> Option(v, "not-after-ledger", Text), cap |-> Option(v, "cap", Cap)]

(***************************************************************************)
(* Reading: the recovery member.                                           *)
(***************************************************************************)
ProfileOk(v) == AsStr(v) /\ v.v \in {"loss", "protected"}

GuardianFields == {"guardians", "quorum"}

GuardianSetOk(v) == AsTexts(Get(v, "guardians")) /\ AsU32(Get(v, "quorum"))

GuardianSet(v) == [guardians |-> Texts(Get(v, "guardians")), quorum |-> Get(v, "quorum").v]

ZkFactorOk(v) == Fields(v, ZkFields, AsStr)

ZkFactor(v) == [name \in ZkFields |-> Get(v, name).v]

ModeOk(v) ==
    \/ Tag(v, "guardian-only", GuardianFields) /\ GuardianSetOk(v)
    \/ Tag(v, "zk-only", ZkFields) /\ ZkFactorOk(v)
    \/ Tag(v, "combined", GuardianFields \cup ZkFields) /\ GuardianSetOk(v) /\ ZkFactorOk(v)

Mode(v) ==
    LET type == Get(v, "type").v
    IN  [guardianSet |-> IF type = "zk-only" THEN None ELSE GuardianSet(v),
         zk          |-> IF type = "guardian-only" THEN None ELSE ZkFactor(v)]

BaselineOk(v) == Members(v, {"doc-hash"}, {}) /\ AsStr(Get(v, "doc-hash"))

Baseline(v) == Get(v, "doc-hash").v

RecoveryOk(v) ==
    /\ Members(v, {"profile", "mode", "controller", "replaceable"} \cup Windows, {"baseline"})
    /\ ProfileOk(Get(v, "profile")) /\ ModeOk(Get(v, "mode")) /\ AsStr(Get(v, "controller"))
    /\ Present(v, "baseline", BaselineOk) /\ AsTexts(Get(v, "replaceable"))
    /\ Fields(v, Windows, AsU32)

Recovery(v) ==
    [profile |-> Get(v, "profile").v, mode |-> Mode(Get(v, "mode")),
     controller |-> Get(v, "controller").v, baseline |-> Option(v, "baseline", Baseline),
     replaceable |-> Texts(Get(v, "replaceable")), windows |-> [w \in Windows |-> Get(v, w).v]]

(***************************************************************************)
(* Reading: the document. An integer version other than 1 is reported      *)
(* before anything else that is wrong.                                     *)
(***************************************************************************)
DocOk(v) ==
    /\ Members(v, {"version", "signers", "rules"}, {"network", "recovery"})
    /\ AsU32(Get(v, "version")) /\ Present(v, "network", AsStr)
    /\ AsArray(Get(v, "signers")) /\ \A i \in DOMAIN Get(v, "signers").v : SignerOk(Get(v, "signers").v[i])
    /\ AsArray(Get(v, "rules")) /\ \A i \in DOMAIN Get(v, "rules").v : RuleOk(Get(v, "rules").v[i])
    /\ Present(v, "recovery", RecoveryOk)

Doc(v) ==
    [version |-> Get(v, "version").v, network |-> Option(v, "network", Text),
     signers |-> Each(Get(v, "signers"), Signer), rules |-> Each(Get(v, "rules"), Rule),
     recovery |-> Option(v, "recovery", Recovery)]

OtherVersions(v) ==
    {v.v[i][2].v : i \in {j \in Places(v, "version") :
        /\ v.v[j][2].t = "number"
        /\ v.v[j][2].v \in (0 .. U64Max) \ {1}}}

FromJson(v) ==
    IF AsObject(v) /\ OtherVersions(v) # {} THEN "UnsupportedVersion"
    ELSE IF DocOk(v) THEN "Ok" ELSE "Json"

(***************************************************************************)
(* Writing: the canonical value of a document. A None is left out.         *)
(***************************************************************************)
Member(name, value, written) == IF value = None THEN <<>> ELSE name :> written

WriteTexts(texts) == Arr([i \in DOMAIN texts |-> Str(texts[i])])

SignerToCv(s) ==
    Obj(("id" :> Str(s.id)) @@
        IF s.method.type = "external"
        THEN ("verifier" :> Str(s.method.verifier)) @@ ("key" :> Str(s.method.key))
        ELSE "address" :> Str(s.method.address))

ScopeToCv(scope) ==
    Obj(("type" :> Str(scope.type)) @@
        IF scope.type = "contract" THEN "address" :> Str(scope.address) ELSE <<>>)

PrincipalsToCv(p) ==
    Obj(("type" :> Str(p.type)) @@
        CASE p.type = "all"       -> "signers" :> WriteTexts(p.signers)
          [] p.type = "threshold" -> ("signers" :> WriteTexts(p.signers)) @@ ("m" :> Num(p.m))
          [] OTHER -> ("policy" :> Str(p.policy)) @@ ("ack" :> Str(p.ack))
                      @@ ("install-param-hex" :> Str(p.installParamHex)))

PredToCv(p) ==
    Obj(("type" :> Str(p.type)) @@
        CASE p.type = "is-self"       -> <<>>
          [] p.type = "address-eq"    -> "address" :> Str(p.address)
          [] p.type = "string-in"     -> "values" :> WriteTexts(p.values)
          [] p.type = "string-prefix" -> "prefix" :> Str(p.prefix)
          [] p.type = "u32-eq"        -> "value" :> Num(p.value))

ArgConstraintToCv(a) == Obj(("index" :> Num(a.index)) @@ ("pred" :> PredToCv(a.pred)))

CapToCv(cap) ==
    Obj(Member("token", cap.token, Str(cap.token)) @@ ("limit" :> Str(cap.limit))
        @@ ("period-ledgers" :> Num(cap.periodLedgers)))

RuleToCv(r) ==
    LET WriteArgs(args) == Arr([i \in DOMAIN args |-> ArgConstraintToCv(args[i])])
    IN  Obj(("name" :> Str(r.name)) @@ ("scope" :> ScopeToCv(r.scope))
            @@ ("principals" :> PrincipalsToCv(r.principals))
            @@ Member("functions", r.functions, WriteTexts(r.functions))
            @@ Member("args", r.args, WriteArgs(r.args))
            @@ Member("not-after-ledger", r.notAfterLedger, Num(r.notAfterLedger))
            @@ Member("cap", r.cap, CapToCv(r.cap)))

ModeToCv(mode) ==
    LET type == IF mode.zk = None THEN "guardian-only"
                ELSE IF mode.guardianSet = None THEN "zk-only" ELSE "combined"
        guardians == IF mode.guardianSet = None THEN <<>>
                     ELSE ("guardians" :> WriteTexts(mode.guardianSet.guardians))
                          @@ ("quorum" :> Num(mode.guardianSet.quorum))
        zk == IF mode.zk = None THEN <<>> ELSE [name \in ZkFields |-> Str(mode.zk[name])]
    IN  Obj(("type" :> Str(type)) @@ guardians @@ zk)

RecoveryToCv(r) ==
    LET baseline == Obj("doc-hash" :> Str(r.baseline))
    IN  Obj(("profile" :> Str(r.profile)) @@ ("mode" :> ModeToCv(r.mode))
            @@ ("controller" :> Str(r.controller)) @@ Member("baseline", r.baseline, baseline)
            @@ ("replaceable" :> WriteTexts(r.replaceable)) @@ [w \in Windows |-> Num(r.windows[w])])

DocToCv(doc) ==
    Obj(("version" :> Num(doc.version)) @@ Member("network", doc.network, Str(doc.network))
        @@ ("signers" :> Arr([i \in DOMAIN doc.signers |-> SignerToCv(doc.signers[i])]))
        @@ ("rules" :> Arr([i \in DOMAIN doc.rules |-> RuleToCv(doc.rules[i])]))
        @@ Member("recovery", doc.recovery, RecoveryToCv(doc.recovery)))
=============================================================================
