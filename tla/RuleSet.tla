------------------------------- MODULE RuleSet -------------------------------
(***************************************************************************)
(* What apply_doc promises of an account's context rules: after it, the    *)
(* rules in force are exactly the document's live ones, as if every rule   *)
(* had been removed and the document's added (replace_all in rules.rs).    *)
(* Ids, records, prices and the state of policies are not part of it.      *)
(***************************************************************************)
EXTENDS CompiledRules

CONSTANTS Docs, LedgerMax, AdminSigners

VARIABLES
    now,     \* the current ledger
    grants   \* the rules in force

Init == now = 1 /\ grants = {AdminRule(AdminSigners)}

(* rules.rs replace_all: remove every rule, then add every desired one.    *)
ReplaceRules(doc) ==
    /\ grants' = ToSet(Desired(doc, now))
    /\ UNCHANGED now

CloseLedger == now < LedgerMax /\ now' = now + 1 /\ UNCHANGED grants

Next == CloseLedger \/ \E doc \in Docs : ReplaceRules(doc)

Spec == Init /\ [][Next]_<<now, grants>>
=============================================================================
