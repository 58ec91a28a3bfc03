------------------------------ MODULE MCShapes ------------------------------
(***************************************************************************)
(* The parts the documents of the instances are made of: a small alphabet  *)
(* of addresses, keys and strings, and the clauses of rules over it.       *)
(***************************************************************************)
EXTENDS PolicyLowering

MCStrkeyLead == ("CT" :> "C") @@ ("CU" :> "C") @@ ("CV" :> "C") @@ ("GA" :> "G") @@ ("CSELF" :> "C")

MCHexDecode == ("aa" :> <<10>>) @@ ("AA" :> <<10>>) @@ ("bb" :> <<11>>)

MCDecimals == ("0" :> 0) @@ ("1" :> 1) @@ ("2" :> 2)

MCSpelling == ("x" :> <<1>>) @@ ("xy" :> <<1, 2>>) @@ ("xyz" :> <<1, 2, 3>>) @@ ("esc" :> <<9, 1>>)

MCCanonicalize(verifier, key) == IF key = <<11>> THEN <<10>> ELSE key

MCCanonicalBytes(d) == Len(d.signers) + Len(d.rules)

Delegated(id, a) == [id |-> id, method |-> [type |-> "delegated", address |-> a]]

External(id, k) == [id |-> id, method |-> [type |-> "external", verifier |-> "CV", key |-> k]]

All(ids) == [type |-> "all", signers |-> ids]

Threshold(ids, m) == [type |-> "threshold", signers |-> ids, m |-> m]

Admin ==
    [name |-> "admin", scope |-> [type |-> "self-admin"], principals |-> All(<<"a">>),
     functions |-> None, args |-> None, notAfterLedger |-> None, cap |-> None]

OnArg(i, pred) == [index |-> i, pred |-> pred]

U32Eq == [type |-> "u32-eq", value |-> 1]

ArgLists ==
    {<<OnArg(0, U32Eq)>>, <<OnArg(0, [type |-> "is-self"]), OnArg(1, U32Eq)>>,
     <<OnArg(0, [type |-> "address-eq", address |-> "GA"])>>,
     <<OnArg(0, [type |-> "string-in", values |-> <<"x", "xyz">>])>>,
     <<OnArg(0, [type |-> "string-prefix", prefix |-> "x"])>>}

DocOf(signers, rules_) ==
    [version |-> 1, network |-> "net", signers |-> signers, rules |-> rules_, recovery |-> None]

Both == <<Delegated("a", "GA"), External("b", "aa")>>

Addr(a) == [type |-> "address", value |-> a]

U(n) == [type |-> "u32", value |-> n]

S(s) == [type |-> "string", value |-> s]
=============================================================================
