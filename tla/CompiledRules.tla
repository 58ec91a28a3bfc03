---------------------------- MODULE CompiledRules ----------------------------
(***************************************************************************)
(* The context rules a policy document asks an account to install, as      *)
(* perch-smart-account/src/rules.rs derives them from a compiled document. *)
(*                                                                         *)
(* A rule's text is what the document says of it: name, scope, signer ids, *)
(* bound, program and cap. A hash stands for what it identifies, so the    *)
(* interpreter's parameters (a program and its rule's hash) are the text.  *)
(***************************************************************************)
EXTENDS Naturals, Sequences, FiniteSets, SequencesExt

CONSTANTS
    None,
    Self,           \* the account's own address, as a scope
    Interpreter,    \* the perch-interpreter policy
    SpendingLimit,  \* the perch-spending-limit policy
    Controllers,    \* recovery controllers
    Signers,        \* OZ signers: a key under its verifier, or a delegate
    Admin,          \* the name of the constructor's rule
    RecoveryName    \* the name of the recovery rule

Policies == {Interpreter, SpendingLimit} \cup Controllers

(* A rule as the account records it, without its OZ id.                    *)
InstalledRule(recovery, name, scope, validUntil, signers, policies) ==
    [recovery |-> recovery, name |-> name, scope |-> scope,
     validUntil |-> validUntil, signers |-> signers, policies |-> policies]

(* An in-place edit can turn one rule into the other.                      *)
SameSlot(r, s) ==
    /\ r.recovery = s.recovery
    /\ r.recovery \/ r.name = s.name
    /\ r.scope = s.scope

AdminRule(signers) == InstalledRule(FALSE, Admin, Self, None, signers, <<>>)

Expired(validUntil, now) == validUntil # None /\ validUntil < now

(* lower_rule, to_compiled and document_rule: the ids become the keys the  *)
(* document declares for them, the last ledger is one below the bound, and *)
(* a program and a cap each attach their policy.                           *)
DocumentRule(doc, text) ==
    InstalledRule(FALSE, text.name, text.scope,
        IF text.notAfter = None THEN None ELSE text.notAfter - 1,
        [i \in DOMAIN text.ids |-> doc.keys[text.ids[i]]],
        [p \in (IF text.program = None THEN {} ELSE {Interpreter})
               \cup (IF text.cap = None THEN {} ELSE {SpendingLimit}) |->
            IF p = Interpreter THEN text ELSE text.cap])

(* The zero-signer rule whose only policy is the adopted controller.       *)
RecoveryRule(recovery) ==
    InstalledRule(TRUE, RecoveryName, Self, None, <<>>,
                  [p \in {recovery.controller} |-> recovery.config])

(* The rules the document asks for at ledger now: a rule already past its  *)
(* bound is dead, and dropped.                                             *)
Desired(doc, now) ==
    LET rules == [i \in DOMAIN doc.rules |-> DocumentRule(doc, doc.rules[i])]
    IN  SelectSeq(rules, LAMBDA r : ~Expired(r.validUntil, now))
        \o (IF doc.recovery = None THEN <<>> ELSE <<RecoveryRule(doc.recovery)>>)
=============================================================================
