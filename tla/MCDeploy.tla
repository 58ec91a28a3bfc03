------------------------------ MODULE MCDeploy ------------------------------
(***************************************************************************)
(* Instances of Deployment: administrators that apply at the same time,    *)
(* publishes that are run again, verifications that others overtake.       *)
(***************************************************************************)
EXTENDS Deployment

CONSTANTS k1, k2, ci, me, reg, none

Admin(keys) == [name |-> "admin", scope |-> me, signers |-> {<<"External", "v", k>> : k \in keys},
                install |-> none, over |-> FALSE]
CiRule(install) ==
    [name |-> "ci", scope |-> reg, signers |-> {<<"External", "v", ci>>, <<"Delegated", ci>>},
     install |-> install, over |-> FALSE]
Doc(hash, rules, recovery) == [hash |-> hash, rules |-> rules, recovery |-> recovery]

DocA == Doc("A", <<Admin({k1}), CiRule("p1")>>, FALSE)
DocB == Doc("B", <<Admin({k1}), CiRule("p2")>>, FALSE)
DocC == Doc("C", <<CiRule(none), Admin({k1, k2})>>, FALSE)
DocR == Doc("R", <<Admin({k1}), CiRule("p1")>>, TRUE)
DocE == Doc("E", <<Admin({k2}), [CiRule("p1") EXCEPT !.over = TRUE]>>, FALSE)

MCAdminSigners == {<<"External", "v", k1>>}
MCKeys == {k1, k2, ci}

ApplyDoc(doc, key, dry) == [kind |-> "apply", doc |-> doc, key |-> key, dry |-> dry]
Publish(wasm, inline, verifier, dry) ==
    [kind |-> "publish", name |-> "perch", version |-> 1, wasm |-> wasm, inline |-> inline,
     verifier |-> verifier, ruleId |-> 1, key |-> ci, dry |-> dry]
Verify(doc) == [kind |-> "verify", doc |-> doc]

MCCmd ==
    [a1 |-> ApplyDoc(DocA, k1, FALSE), a2 |-> ApplyDoc(DocB, k1, FALSE),
     p1 |-> Publish("w1", FALSE, "v", FALSE), p2 |-> Publish("w1", TRUE, none, FALSE),
     p3 |-> Publish("w2", FALSE, none, TRUE), t2 |-> Publish("w2", FALSE, none, FALSE),
     t3 |-> [Publish("w1", FALSE, none, FALSE) EXCEPT !.name = "bad"],
     v1 |-> Verify(DocA), v2 |-> Verify(DocR)]

MCRuns == DOMAIN MCCmd

(* What each instance runs: the invocations that may begin, the ledgers,   *)
(* the documents of others and how often these are applied.                *)
Instances ==
    [Apply    |-> [runs |-> {"a1", "a2"}, ledgers |-> 2, docs |-> {DocC, DocE}, applies |-> 1],
     Publish  |-> [runs |-> {"p1", "p2", "p3"}, ledgers |-> 1, docs |-> {DocA}, applies |-> 1],
     Twins    |-> [runs |-> {"p1", "t2", "t3"}, ledgers |-> 1, docs |-> {DocA}, applies |-> 1],
     Verify   |-> [runs |-> {"v1"}, ledgers |-> 1, docs |-> {DocA, DocB, DocC}, applies |-> 3],
     Recovery |-> [runs |-> {"v2"}, ledgers |-> 1, docs |-> {DocR}, applies |-> 1]]

CONSTANT Covered   \* the instances of a run

VARIABLE instance

Of(i) == INSTANCE Deployment
    WITH ToolRuns <- i.runs, LedgerMax <- i.ledgers, OtherDocs <- i.docs, MaxOther <- i.applies

MCInit == instance \in Covered /\ Init

MCNext ==
    /\ \E name \in Covered : instance = name /\ Of(Instances[name])!Next
    /\ UNCHANGED instance

MCSpec == MCInit /\ [][MCNext]_<<vars, instance>> /\ Fairness

=============================================================================
