------------------------------ MODULE MCRules ------------------------------
(***************************************************************************)
(* Small instances of RuleReconcile, which a behaviour picks one of.       *)
(* Documents of the account's admin rule and up to one more in either      *)
(* order, whose signers, keys, bound, program and cap vary, with or        *)
(* without recovery.                                                       *)
(***************************************************************************)
EXTENDS RuleReconcile

CONSTANTS adminName, tokenName, i1, i2, x, y, z, token, c1, c2

VARIABLE instance

Text(name, scope, ids, notAfter, program, cap) ==
    [name |-> name, scope |-> scope, ids |-> ids, notAfter |-> notAfter,
     program |-> program, cap |-> cap]

MCAdmin == <<x>>

XY == [i \in {i1, i2} |-> IF i = i1 THEN x ELSE y]

YX == [i \in {i1, i2} |-> IF i = i1 THEN y ELSE x]

ZY == [i \in {i1, i2} |-> IF i = i1 THEN z ELSE y]

(* Distinct ids hold distinct keys (perch_ir::validate): two that trade    *)
(* keys, and one whose key is rotated.                                     *)
Keys == {XY, YX, ZY}

AdminText(ids) == Text(adminName, Self, ids, None, None, None)

(* A rule on the token: free of constraints, constrained, or capped.       *)
Limits == {<<None, None>>, <<1, None>>, <<1, 5>>, <<2, 5>>, <<1, 6>>}

TokenTexts(idss, bounds) ==
    {Text(tokenName, token, ids, na, pc[1], pc[2]) : ids \in idss, na \in bounds, pc \in Limits}

Doc(rules, keys, recovery) == [rules |-> rules, keys |-> keys, recovery |-> recovery]

Recoveries == {None} \cup [controller : {c1, c2}, config : {1}] \cup [controller : {c1}, config : {2}]

(* Every change of one or two rules, in either order.                      *)
PairDocs ==
    LET admins == {AdminText(<<i1>>), AdminText(<<i1, i2>>)}
        texts == TokenTexts({<<i1>>, <<i2, i1>>}, {None})
    IN  {Doc(<<t>>, k, None) : t \in admins, k \in Keys}
        \cup {Doc(<<t, u>>, k, None) : t \in admins, u \in texts, k \in Keys}
        \cup {Doc(<<u, t>>, k, None) : t \in admins, u \in texts, k \in {XY}}

(* Long histories of capped rules: keys rotate, the program and the cap    *)
(* change, the rule is bounded, leaves and returns.                        *)
CapDocs ==
    {Doc(<<AdminText(<<i1>>), u>>, k, None) :
        u \in {Text(tokenName, token, ids, limit[1], limit[2], limit[3]) :
                ids \in {<<i1>>, <<i1, i2>>},
                limit \in {<<None, 1, 5>>, <<None, 2, 5>>, <<None, 1, 6>>, <<3, 1, 5>>}},
        k \in {XY, ZY}}
    \cup {Doc(<<AdminText(<<i1>>)>>, XY, None)}

(* Recovery enrolled, reconfigured, moved and removed beside other rules.  *)
RecoveryDocs ==
    {Doc(rules, k, r) :
        rules \in {<<AdminText(<<i1>>)>>,
                   <<AdminText(<<i1>>), Text(RecoveryName, Self, <<i1>>, None, 1, None)>>,
                   <<AdminText(<<i1>>), Text(tokenName, token, <<i1>>, 2, 1, 5)>>},
        k \in {XY, ZY}, r \in Recoveries}

Instances ==
    {[docs |-> PairDocs, ledgers |-> 1, applies |-> 2, spent |-> 0],
     [docs |-> CapDocs, ledgers |-> 3, applies |-> 3, spent |-> 1],
     [docs |-> RecoveryDocs, ledgers |-> 2, applies |-> 3, spent |-> 0]}

MCDocs == PairDocs \cup CapDocs \cup RecoveryDocs

-----------------------------------------------------------------------------

Of(i) == INSTANCE RuleReconcile WITH
            Docs <- i.docs, LedgerMax <- i.ledgers, MaxApplies <- i.applies, MaxSpent <- i.spent

MCInit == Init /\ instance \in Instances

MCNext ==
    /\ \E i \in Instances : instance = i /\ Of(i)!Next
    /\ UNCHANGED instance

MCSpec == MCInit /\ [][MCNext]_<<vars, instance>>
=============================================================================
