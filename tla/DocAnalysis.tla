---------------------------- MODULE DocAnalysis ----------------------------
(***************************************************************************)
(* perch-analyze: the questions its commands put to z3 about a document,   *)
(* rule by rule, and what they conclude from the answers.                  *)
(*                                                                         *)
(* A formula is the set of the invocations that satisfy it. z3 is          *)
(* external: it decides whether that set is empty, or gives up. An         *)
(* invocation is an input of PolicyProgram: its context, the number of     *)
(* authenticated signers, the ledger.                                      *)
(*                                                                         *)
(* A command is [kind, doc] with kind "dead-rules", [kind, doc, function]  *)
(* with "can-call", [kind, doc, contract, allowed] with "only-calls", or   *)
(* [kind, parent, doc] with "narrows", where doc is the child.             *)
(***************************************************************************)
EXTENDS PolicyLowering

CONSTANTS
    Commands,     \* the command lines
    Invocations,  \* the invocations the formulas range over
    Escape        \* what begins an escape sequence of an SMT-LIB string

VARIABLES
    cmd,          \* the command, None before it starts
    findings,     \* per rule taken so far: a verdict, or what tells it from its parent's
    exit          \* the exit code, None while it runs

analysisVars == <<cmd, findings, exit>>

AnalysisInit == cmd = None /\ findings = <<>> /\ exit = None

(***************************************************************************)
(* The encoding. The addresses rules name are interned from 1, the         *)
(* account's own like any other. An argument is 0 when it is the account,  *)
(* and beyond the last when no rule names it.                              *)
(***************************************************************************)
AddressesOf(rule) ==
    IF rule.args = None THEN <<>>
    ELSE LET eqs == SelectSeq(rule.args, LAMBDA c : c.pred.type = "address-eq")
         IN  [i \in DOMAIN eqs |-> eqs[i].pred.address]

AddrId(interned, address) ==
    CHOOSE i \in DOMAIN interned :
        interned[i] = address /\ \A j \in 1 .. i - 1 : interned[j] # address

ArgAddr(interned, address) ==
    IF address = SelfAddr THEN 0
    ELSE IF address \in Range(interned) THEN AddrId(interned, address) ELSE Len(interned) + 1

(* What z3 reads of the literal smt_string writes. Only quotes are escaped *)
(* in it, so an escape sequence the text happens to hold, here Escape and  *)
(* one character, is read as that character.                               *)
SmtString(chars) ==
    LET Read(read, c) == IF read # <<>> /\ Last(read) = Escape THEN Append(Front(read), c)
                         ELSE Append(read, c)
    IN  FoldLeft(Read, <<>>, chars)

PredHolds(interned, i, pred, in) ==
    /\ i < Len(in.context.args)
    /\ LET arg == in.context.args[i + 1]
       IN  CASE pred.type = "is-self"    -> arg.type = "address" /\ ArgAddr(interned, arg.value) = 0
             [] pred.type = "address-eq" ->
                    arg.type = "address" /\ ArgAddr(interned, arg.value) = AddrId(interned, pred.address)
             [] pred.type = "u32-eq"     -> arg.type = "u32" /\ arg.value = pred.value
             [] pred.type = "string-in"  ->
                    /\ arg.type = "string" /\ Len(arg.value) <= MaxStrArgLen
                    /\ \E v \in Range(pred.values) : Len(Chars(v)) <= MaxStrArgLen
                                                  /\ arg.value = SmtString(Chars(v))
             [] pred.type = "string-prefix" ->
                    /\ Len(Chars(pred.prefix)) <= MaxStrArgLen
                    /\ arg.type = "string" /\ IsPrefix(SmtString(Chars(pred.prefix)), arg.value)

SignerFloor(p) ==
    LET n == CASE p.type = "all"       -> Len(p.signers)
               [] p.type = "threshold" -> p.m
               [] OTHER                -> 1
    IN  IF n < 1 THEN 1 ELSE n

RuleAllows(interned, rule, in) ==
    /\ in.signerCount >= SignerFloor(rule.principals)
    /\ rule.functions # None => in.context.contract /\ in.context.fn \in Range(rule.functions)
    /\ rule.args # None => \A k \in DOMAIN rule.args :
           in.context.contract /\ PredHolds(interned, rule.args[k].index, rule.args[k].pred, in)

Allowed(rule) == {in \in Invocations : RuleAllows(AddressesOf(rule), rule, in)}

(***************************************************************************)
(* The query each command makes of a rule, and what it finds without one.  *)
(***************************************************************************)
(* The first rule of the parent with the name, if any.                     *)
ParentsOf(rule) ==
    {cmd.parent.rules[i] : i \in {j \in DOMAIN cmd.parent.rules :
        /\ cmd.parent.rules[j].name = rule.name
        /\ \A k \in 1 .. j - 1 : cmd.parent.rules[k].name # rule.name}}

OnTarget(rule) == rule.scope.type = "contract" /\ rule.scope.address = cmd.contract

(* What is concluded of a rule before z3 is asked: it is passed over, or   *)
(* the child has it alone or on another scope.                             *)
Unasked(rule) ==
    CASE cmd.kind = "can-call"   -> IF rule.scope.type = "contract" THEN {} ELSE {"Skipped"}
      [] cmd.kind = "only-calls" -> IF OnTarget(rule) THEN {} ELSE {"Skipped"}
      [] cmd.kind = "narrows"    ->
             IF ParentsOf(rule) = {} THEN {"AddedRule"}
             ELSE IF \E p \in ParentsOf(rule) : p.scope # rule.scope THEN {"ScopeChanged"} ELSE {}
      [] OTHER -> {}

Query(rule) ==
    CASE cmd.kind = "dead-rules" -> Allowed(rule)
      [] cmd.kind = "can-call"   ->
             {in \in Allowed(rule) : in.context.contract /\ in.context.fn = cmd.function}
      [] cmd.kind = "only-calls" ->
             {in \in Allowed(rule) : in.context.contract /\ in.context.fn \notin cmd.allowed}
      [] cmd.kind = "narrows"    ->
             LET p == CHOOSE q \in ParentsOf(rule) : TRUE
                 interned == AddressesOf(rule) \o AddressesOf(p)
             IN  {in \in Invocations : RuleAllows(interned, rule, in) /\ ~RuleAllows(interned, p, in)}

Verdict(rule) == {"Unknown", IF Query(rule) = {} THEN "Unsat" ELSE "Sat"}

ExpiryExtended(p, c) ==
    p.notAfterLedger # None /\ (c.notAfterLedger # None => c.notAfterLedger > p.notAfterLedger)

CapLoosened(p, c) ==
    p.cap # None /\ (c.cap # None =>
        \/ p.cap.token # c.cap.token \/ Decimals[c.cap.limit] > Decimals[p.cap.limit]
        \/ c.cap.periodLedgers < p.cap.periodLedgers)

Structural(rule) ==
    LET p == CHOOSE q \in ParentsOf(rule) : TRUE
    IN  {f \in {"ExpiryExtended", "CapLoosened"} :
            IF f = "ExpiryExtended" THEN ExpiryExtended(p, rule) ELSE CapLoosened(p, rule)}

(***************************************************************************)
(* The commands.                                                           *)
(***************************************************************************)
Documents(c) == {c.doc} \cup (IF c.kind = "narrows" THEN {c.parent} ELSE {})

(* main: z3 is on the path or not, and every document parses and is valid. *)
Start(c) ==
    /\ cmd = None /\ cmd' = c
    /\ exit' \in {2, IF \A d \in Documents(c) : Validate(d) = {} THEN None ELSE 2}
    /\ UNCHANGED findings

Ask ==
    LET rule == cmd.doc.rules[Len(findings) + 1]
    IN  /\ cmd # None /\ exit = None /\ Len(findings) < Len(cmd.doc.rules)
        /\ IF Unasked(rule) # {} THEN findings' = Append(findings, Unasked(rule))
           ELSE \E v \in Verdict(rule) :
                    findings' = Append(findings,
                        {v} \cup (IF cmd.kind = "narrows" THEN Structural(rule) ELSE {}))
        /\ UNCHANGED <<cmd, exit>>

Found(what) == \E i \in DOMAIN findings : findings[i] \cap what # {}

(* Mutant: an undecided rule counts as live, conforming and narrowing.     *)
ExitCodeOpen ==
    CASE cmd.kind = "dead-rules" -> IF Found({"Unsat"}) THEN 1 ELSE 0
      [] cmd.kind = "can-call"   -> IF Found({"Sat", "Unknown"}) THEN 0 ELSE 1
      [] cmd.kind = "only-calls" -> IF Found({"Sat"}) THEN 1 ELSE 0
      [] cmd.kind = "narrows"    ->
             IF Found({"Sat", "AddedRule", "ScopeChanged", "ExpiryExtended", "CapLoosened"}) THEN 1 ELSE 0

ExitCode ==
    CASE cmd.kind = "dead-rules" -> IF Found({"Unsat", "Unknown"}) THEN 1 ELSE 0
      [] cmd.kind = "can-call"   -> IF Found({"Sat"}) THEN 0 ELSE 1
      [] cmd.kind = "only-calls" -> IF Found({"Sat", "Unknown"}) THEN 1 ELSE 0
      [] cmd.kind = "narrows"    ->
             IF Found({"Sat", "Unknown", "AddedRule", "ScopeChanged", "ExpiryExtended", "CapLoosened"})
             THEN 1 ELSE 0

Conclude ==
    /\ cmd # None /\ exit = None /\ Len(findings) = Len(cmd.doc.rules)
    /\ exit' = ExitCode
    /\ UNCHANGED <<cmd, findings>>

AnalysisNext == (\E c \in Commands : Start(c)) \/ Ask \/ Conclude

AnalysisSpec == AnalysisInit /\ [][AnalysisNext]_analysisVars

(***************************************************************************)
(* Properties: what the commands say against what the account enforces.    *)
(***************************************************************************)
(* The invocations an installed rule authorizes: by its program, or by all *)
(* its signers when it has none. Signers are counted, as in the code.      *)
Enforced(rule) ==
    {in \in Invocations :
        IF ConstraintFree(rule) THEN in.signerCount >= Len(rule.principals.signers)
        ELSE EvalProgram(BuildProgram(rule), in) = True}

(* Those that no more signers than the rule has can make.                  *)
Attainable(rule) == {in \in Enforced(rule) : in.signerCount <= Len(rule.principals.signers)}

FunctionsOf(rule) == {in.context.fn : in \in {n \in Attainable(rule) : n.context.contract}}

RulesOf == Range(cmd.doc.rules)

Tighter(p, c) ==
    /\ Enforced(c) \subseteq Enforced(p)
    /\ p.notAfterLedger # None => c.notAfterLedger # None /\ c.notAfterLedger <= p.notAfterLedger
    /\ p.cap # None => /\ c.cap # None /\ c.cap.token = p.cap.token
                       /\ Decimals[c.cap.limit] <= Decimals[p.cap.limit]
                       /\ c.cap.periodLedgers >= p.cap.periodLedgers

(* An exit code of 0 is a proof of what the command asks, about the        *)
(* programs the document lowers to and not only about the encoding: every  *)
(* rule is live, some rule can call the function, no rule calls anything   *)
(* else, or every rule of the child is one of the parent's, tightened.     *)
SuccessIsProof ==
    exit = 0 =>
        CASE cmd.kind = "dead-rules" -> \A r \in RulesOf : Attainable(r) # {}
          [] cmd.kind = "can-call"   -> \E r \in RulesOf : cmd.function \in FunctionsOf(r)
          [] cmd.kind = "only-calls" -> \A r \in RulesOf : OnTarget(r) => FunctionsOf(r) \subseteq cmd.allowed
          [] cmd.kind = "narrows"    -> \A c \in RulesOf : \E p \in Range(cmd.parent.rules) :
                 p.name = c.name /\ p.scope = c.scope /\ Tighter(p, c)

(* A refutation that z3 decided is real: the rule reported dead authorizes *)
(* nothing, the rule reported to call something else can, and when         *)
(* can-call says that no rule can authorize the function, none can.        *)
RefutationIsReal ==
    exit = 1 /\ ~Found({"Unknown"}) =>
        CASE cmd.kind = "dead-rules" -> \E r \in RulesOf : Attainable(r) = {}
          [] cmd.kind = "only-calls" -> \E r \in RulesOf : OnTarget(r) /\ ~(FunctionsOf(r) \subseteq cmd.allowed)
          [] cmd.kind = "narrows"    -> \E c \in RulesOf : \A p \in Range(cmd.parent.rules) :
                 p.name = c.name /\ p.scope = c.scope => ~Tighter(p, c)
          [] cmd.kind = "can-call"   -> \A r \in RulesOf :
                 r.scope.type = "contract" => cmd.function \notin FunctionsOf(r)

(* The predicates of the documents of the command.                         *)
Preds ==
    UNION {{r.args[k].pred : k \in DOMAIN r.args} :
               r \in {q \in UNION {Range(d.rules) : d \in Documents(cmd)} : q.args # None}}

(* lib.rs: "The smart account's own address (`is-self`) is distinct from   *)
(* every address literal in the documents".                                *)
SelfIsNoLiteral == \A p \in Preds : p.type = "address-eq" => p.address # SelfAddr

NoEscapes ==
    \A p \in Preds :
        /\ p.type = "string-in" => \A v \in Range(p.values) : Escape \notin Range(Chars(v))
        /\ p.type = "string-prefix" => Escape \notin Range(Chars(p.prefix))

(* What perch-analyze concludes is so, of documents that meet the stated   *)
(* assumption on addresses and whose strings z3 reads as they are: a       *)
(* success however often z3 gives up, a refutation when it answered every  *)
(* query.                                                                  *)
VerdictsAreRight ==
    cmd # None /\ SelfIsNoLiteral /\ NoEscapes => SuccessIsProof /\ RefutationIsReal

(* lib.rs, smt_string: "only `"` needs escaping (doubled)", so that z3     *)
(* reads the strings the document has, and lib.rs, narrows: "Empty =       *)
(* proved narrowing". A success is a proof whatever strings the documents  *)
(* hold.                                                                   *)
StringsReadAsWritten == cmd # None /\ SelfIsNoLiteral => SuccessIsProof
=============================================================================
