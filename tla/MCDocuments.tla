----------------------------- MODULE MCDocuments -----------------------------
(***************************************************************************)
(* Documents that between them use every part of the format and stand on   *)
(* either side of every limit the checks and the schema encode, and the    *)
(* strings that tell the checks apart. A behaviour edits the documents of  *)
(* one instance.                                                           *)
(***************************************************************************)
EXTENDS PolicySchema

VARIABLE instance

MCStrkeyLead == ("CT" :> "C") @@ ("CV" :> "C") @@ ("CP" :> "C") @@ ("GA" :> "G")

MCHexDecode == ("aa" :> <<10>>) @@ ("AA" :> <<10>>) @@ ("" :> <<>>) @@ ("bb" :> <<11>>) @@ ("cc" :> <<12>>)

MCDecimals == ("0" :> 0) @@ ("2" :> 2)

MCSpelling == ("x" :> <<1>>) @@ ("xyz" :> <<1, 2, 3>>)

MCCanonicalize(verifier, key) == IF key = <<12>> THEN None ELSE key

MCCanonicalBytes(d) == Len(d.signers) + 2 * Len(d.rules)

Delegated(id, a) == [id |-> id, method |-> [type |-> "delegated", address |-> a]]

External(id, k) == [id |-> id, method |-> [type |-> "external", verifier |-> "CV", key |-> k]]

Signers == <<Delegated("a", "GA"), External("b", "aa")>>

RuleOf(name, scope, principals, functions, args, bound, cap) ==
    [name |-> name, scope |-> scope, principals |-> principals, functions |-> functions,
     args |-> args, notAfterLedger |-> bound, cap |-> cap]

DocOf(signers, rules, recovery) ==
    [version |-> 1, network |-> "net", signers |-> signers, rules |-> rules, recovery |-> recovery]

SelfAdmin == [type |-> "self-admin"]

Contract == [type |-> "contract", address |-> "CT"]

All(ids) == [type |-> "all", signers |-> ids]

Threshold(ids, m) == [type |-> "threshold", signers |-> ids, m |-> m]

SelfAuthenticating ==
    [type |-> "self-authenticating", policy |-> "CP", installParamHex |-> "aa", ack |-> ACKSentinel]

CapOf(token) == [token |-> token, limit |-> "2", periodLedgers |-> 1]

Arguments ==
    <<[index |-> 0, pred |-> [type |-> "is-self"]],
      [index |-> 1, pred |-> [type |-> "address-eq", address |-> "GA"]],
      [index |-> 2, pred |-> [type |-> "string-in", values |-> <<"x", "xyz">>]],
      [index |-> 3, pred |-> [type |-> "string-prefix", prefix |-> "x"]],
      [index |-> 4, pred |-> [type |-> "u32-eq", value |-> 1]]>>

Zk == [name \in ZkFields |-> CASE name = "adapter" -> "CV" [] name = "pool" -> "CP" [] OTHER -> "sha"]

Guardians == [guardians |-> <<"GA", "CT">>, quorum |-> 1]

RecoveryOf(guardians, zk, baseline) ==
    [profile |-> "loss", mode |-> [guardianSet |-> guardians, zk |-> zk], controller |-> "CT",
     baseline |-> baseline, replaceable |-> <<"a">>, windows |-> [w \in Windows |-> 1]]

(* Every part of the format.                                               *)
Wide ==
    {DocOf(Signers, <<RuleOf("r", Contract, Threshold(<<"a", "b">>, 2), <<"f">>, Arguments, 2, CapOf("CT"))>>,
           RecoveryOf(Guardians, Zk, "sha")),
     DocOf(<<>>, <<RuleOf("r", SelfAdmin, SelfAuthenticating, None, None, None, None)>>,
           RecoveryOf(None, Zk, None)),
     DocOf(Signers, <<>>, RecoveryOf(Guardians, None, None))}

(* One rule, with every option it may have.                                *)
Narrow ==
    {DocOf(Signers, <<RuleOf("r", Contract, Threshold(<<"a", "b">>, 2), <<"f">>,
                             <<Arguments[5]>>, 2, CapOf(None))>>, None)}

(* What the checks compare.                                                *)
Ruled ==
    {DocOf(Signers, <<RuleOf("p", SelfAdmin, All(<<"a">>), None, None, None, None),
                      RuleOf("q", Contract, Threshold(<<"a", "b">>, 1), <<"f">>, None, 2, CapOf(None))>>, None),
     DocOf(<<External("a", "aa"), External("b", "bb")>>,
           <<RuleOf("q", Contract, All(<<"a", "b">>), None, <<Arguments[3], Arguments[4]>>, None, None)>>, None)}

(* A recovery by two guardians and a proof.                                *)
Recoverable ==
    {DocOf(Signers, <<RuleOf("p", SelfAdmin, All(<<"a">>), None, None, None, None),
                      RuleOf("q", Contract, All(<<"b">>), None, None, None, None)>>,
           RecoveryOf([Guardians EXCEPT !.quorum = 2], Zk, None))}

MCJunk == {Null, Num(1), Str("f"), Arr(<<>>), [t |-> "fraction", v |-> 1]}

MCStrings == {"", "a", "p", "CT", "AA", "cc", "0", "transfer", "long"}

MCStrkeyShape == MCStrkeyLead @@ ("CX" :> "C") @@ ("GX" :> "G")

(* One more guardian, and one more signer in a rule, than the chain counts. *)
Beyond ==
    {DocOf(Signers, <<>>, RecoveryOf([guardians |-> <<"GA", "CT", "CV">>, quorum |-> 3], None, None)),
     DocOf(Signers, <<RuleOf("r", SelfAdmin, Threshold(<<"a", "b", "x">>, 3), None, None, None, None)>>, None)}

Bordering == Wide \cup Ruled \cup Recoverable \cup Beyond

MCSchemaStrings ==
    {"", "a", "r", "CT", "CX", "GX", "GA", "aa", "AA", "0", "2", "wide", "long", "accent", "accents", "SHA", "nope"}

-----------------------------------------------------------------------------

Instance(originals, strings, numbers, maxEdits) ==
    [originals |-> originals, strings |-> strings, numbers |-> numbers, maxEdits |-> maxEdits,
     junk |-> {}, gained |-> {}]

WithJunk(i) == [i EXCEPT !.junk = MCJunk, !.gained = {"address", "stray"}]

Instances ==
    [Text |-> WithJunk(Instance(Wide, {"a", "type"}, {0, 5, 7}, 1)),
     Hash |-> [Instance(Narrow, {"a"}, {7}, 2) EXCEPT !.junk = {Null}, !.gained = {"stray"}],
     Values |-> Instance(Ruled, MCStrings, 0 .. 3, 1),
     Rules |-> Instance(Ruled, {"p", "cc", "transfer"}, {0, 3}, 2),
     Recovery |-> Instance(Recoverable, {"a", "CT"}, {0, 3}, 2),
     Schema |-> WithJunk(Instance(Bordering, MCSchemaStrings, 0 .. 5, 1)),
     Bounds |-> Instance(Beyond, {"CX", "GA"}, {2, 4, 5}, 2)]

Of(i) == INSTANCE DocumentText WITH
            Originals <- i.originals, Strings <- i.strings, Numbers <- i.numbers,
            Junk <- i.junk, Gained <- i.gained, MaxEdits <- i.maxEdits

MCInit == \E i \in DOMAIN Instances : instance = i /\ Of(Instances[i])!Init

MCNext ==
    /\ \E i \in DOMAIN Instances : instance = i /\ Of(Instances[i])!Next
    /\ UNCHANGED instance

MCSpec == MCInit /\ [][MCNext]_<<vars, instance>>
=============================================================================
