---------------------------- MODULE RuleReconcile ----------------------------
(***************************************************************************)
(* perch-smart-account/src/rules.rs: apply_doc brings the context rules an *)
(* account has installed to the ones a document asks for, touching only    *)
(* what differs. A rule in both is kept, edited in place under its id, or  *)
(* replaced whole under a new one, whichever the cost model prices lower.  *)
(*                                                                         *)
(* An edit and a replacement are each a sequence of effects. Meter prices  *)
(* an effect and Perform does it, so what is priced is what runs. Perform  *)
(* is OpenZeppelin's smart account as rules.rs uses it: an effect it       *)
(* refuses fails the invocation, which then changes nothing.               *)
(***************************************************************************)
EXTENDS CompiledRules, Functions

CONSTANTS
    Docs,            \* the documents that may be applied
    AdminSigners,    \* the constructor's signers
    MaxPolicies,     \* OZ's policies per rule
    LedgerMax,       \* the model's last ledger
    MaxApplies,      \* bound on applies
    MaxSpent         \* bound on what a window records

VARIABLES
    now,        \* the current ledger
    records,    \* InstalledRules: what the account believes is installed
    oz,         \* OZ's context rules by id
    nextId,     \* OZ's next id
    state,      \* policies' own state by <<rule id, policy>>: what a cap's
                \* window has recorded, 0 for a stateless policy
    last,       \* the last apply: outcome, prices, summary (history)
    applies     \* how many applies ran (bounds the model)

vars == <<now, records, oz, nextId, state, last, applies>>

Content(r) ==
    InstalledRule(r.recovery, r.name, r.scope, r.validUntil, r.signers, r.policies)

WithId(r, id) == Content(r) @@ [id |-> id]

(***************************************************************************)
(* The difference of two rules, and the effects that edit or replace one.  *)
(***************************************************************************)
Missing(from, other) == SelectSeq(from, LAMBDA s : s \notin Range(other))

(* Signers in the same order, the same policies and expiry.                *)
Unchanged(c, d) ==
    c.signers = d.signers /\ c.policies = d.policies /\ c.validUntil = d.validUntil

(* Mutant: a policy is told by its contract, whatever its parameters.      *)
DroppedByContract(c, d) == DOMAIN c.policies \ DOMAIN d.policies

(* The policies of c that d lacks, or has with other parameters.           *)
Dropped(c, d) ==
    {p \in DOMAIN c.policies : p \notin DOMAIN d.policies \/ c.policies[p] # d.policies[p]}

Swap(signers) == [do |-> "signers", signers |-> signers]

SetValidUntil(v) == [do |-> "validUntil", validUntil |-> v]

RemoveRule == [do |-> "remove"]

AddRule(d) == [do |-> "add", rule |-> d]

AddPolicies(d, P) ==
    LET order == SetToSeq(P)
    IN  [i \in DOMAIN order |->
            [do |-> "addPolicy", policy |-> order[i], param |-> d.policies[order[i]]]]

RemovePolicies(P) ==
    LET order == SetToSeq(P)
    IN  [i \in DOMAIN order |-> [do |-> "removePolicy", policy |-> order[i]]]

(* Mutant: what changed is removed before it is added back, whatever holds *)
(* the rule meanwhile.                                                     *)
EditRemovingFirst(c, d) ==
    (IF c.signers = d.signers THEN <<>> ELSE <<Swap(d.signers)>>)
        \o RemovePolicies(Dropped(c, d)) \o AddPolicies(d, Dropped(d, c))
        \o (IF c.validUntil = d.validUntil THEN <<>> ELSE <<SetValidUntil(d.validUntil)>>)

(* The order of effects that keeps the rule valid at every step: with      *)
(* signers to hold it, removals before additions; without, additions under *)
(* new addresses first, if OZ's limit allows. Empty when no order exists.  *)
Edit(c, d) ==
    LET gone   == Dropped(c, d)
        added  == Dropped(d, c)
        fresh  == added \ DOMAIN c.policies
        kept   == Len(c.signers) - Len(Missing(c.signers, d.signers))
                  + Cardinality(DOMAIN c.policies) - Cardinality(gone)
        swap   == IF c.signers = d.signers THEN <<>> ELSE <<Swap(d.signers)>>
        expiry == IF c.validUntil = d.validUntil THEN <<>> ELSE <<SetValidUntil(d.validUntil)>>
    IN  IF d.signers # <<>>
        THEN swap \o RemovePolicies(gone) \o AddPolicies(d, added) \o expiry
        ELSE IF c.signers # <<>> \/ kept > 0
        THEN RemovePolicies(gone) \o AddPolicies(d, added) \o swap \o expiry
        ELSE IF fresh # {} /\ Cardinality(DOMAIN c.policies) + Cardinality(fresh) <= MaxPolicies
        THEN AddPolicies(d, fresh) \o RemovePolicies(gone) \o AddPolicies(d, added \ fresh) \o expiry
        ELSE <<>>

Replace(d) == <<RemoveRule, AddRule(d)>>

(***************************************************************************)
(* Meter: the ledger entries an effect on rule c writes, against the       *)
(* registries' reference counts.                                           *)
(***************************************************************************)
RefsOf(rules) ==
    [x \in Signers \cup Policies |->
        Cardinality({i \in DOMAIN rules :
                        x \in Range(rules[i].signers) \cup DOMAIN rules[i].policies})]

Write(m, n) == [m EXCEPT !.writes = @ + n]

(* The first reference also writes the lookup entry.                       *)
Register(m, x) ==
    [refs |-> [m.refs EXCEPT ![x] = @ + 1],
     writes |-> m.writes + (IF m.refs[x] = 0 THEN 2 ELSE 1)]

(* The last one removes it.                                                *)
Deregister(m, x) ==
    [refs |-> [m.refs EXCEPT ![x] = IF @ <= 1 THEN 0 ELSE @ - 1],
     writes |-> m.writes + (IF m.refs[x] <= 1 THEN 2 ELSE 1)]

(* What the policy's own install or uninstall writes.                      *)
Hook(p) == IF p \in {Interpreter, SpendingLimit} THEN 1 ELSE 0

RegisterPolicy(m, p) == Write(Register(m, p), Hook(p))

DeregisterPolicy(m, p) == Write(Deregister(m, p), Hook(p))

Meter(m, c, fx) ==
    CASE fx.do = "signers" ->
            FoldLeft(Register,
                     FoldLeft(Deregister, Write(m, 1), Missing(c.signers, fx.signers)),
                     Missing(fx.signers, c.signers))
      [] fx.do = "addPolicy" -> RegisterPolicy(Write(m, 1), fx.policy)
      [] fx.do = "removePolicy" -> DeregisterPolicy(Write(m, 1), fx.policy)
      [] fx.do = "validUntil" -> Write(m, 1)
      [] fx.do = "remove" ->
            FoldLeft(Deregister,
                     FoldLeft(DeregisterPolicy, Write(m, 1), SetToSeq(DOMAIN c.policies)),
                     c.signers)
      [] fx.do = "add" ->
            FoldLeft(RegisterPolicy,
                     FoldLeft(Register, Write(m, 1), fx.rule.signers),
                     SetToSeq(DOMAIN fx.rule.policies))

Price(refs, c, effects) ==
    FoldLeft(LAMBDA m, fx : Meter(m, c, fx), [refs |-> refs, writes |-> 0], effects)

(***************************************************************************)
(* Apply: the effects performed on OZ's rule with c's id, and counted.     *)
(* OZ refuses a rule left with neither signers nor policies, a policy the  *)
(* rule already has, more than MaxPolicies, and a bound already past.      *)
(***************************************************************************)
NoDelta ==
    [rulesAdded |-> 0, rulesRemoved |-> 0, rulesEdited |-> 0, signersAdded |-> 0,
     signersRemoved |-> 0, policiesAdded |-> 0, policiesRemoved |-> 0]

Holds(r) == r.signers # <<>> \/ DOMAIN r.policies # {}

(* a with OZ's rule id set to r, or removed.                               *)
OzSet(a, id, r, states) ==
    [a EXCEPT !.oz = [i \in DOMAIN @ \cup {id} |-> IF i = id THEN r ELSE @[i]],
              !.state = states, !.ok = @ /\ Holds(r)]

Without(f, S) == Restrict(f, DOMAIN f \ S)

OzRemove(a, id) ==
    [a EXCEPT !.oz = Without(@, {id}), !.state = Without(@, {id} \X Policies),
              !.sum.rulesRemoved = @ + 1]

OzAdd(a, d) ==
    [OzSet(a, a.nextId, Content(d), a.state @@ [k \in {a.nextId} \X (DOMAIN d.policies) |-> 0])
     EXCEPT !.ok = @ /\ ~Expired(d.validUntil, a.now)
                     /\ Cardinality(DOMAIN d.policies) <= MaxPolicies,
            !.nextId = @ + 1, !.sum.rulesAdded = @ + 1]

OzSwap(a, c, signers) ==
    [OzSet(a, c.id, [a.oz[c.id] EXCEPT !.signers = signers], a.state)
     EXCEPT !.sum.signersAdded = @ + Len(Missing(signers, c.signers)),
            !.sum.signersRemoved = @ + Len(Missing(c.signers, signers))]

OzAddPolicy(a, c, p, param) ==
    LET r == a.oz[c.id]
    IN  [OzSet(a, c.id, [r EXCEPT !.policies = [q \in {p} |-> param] @@ @],
               [k \in {<<c.id, p>>} |-> 0] @@ a.state)
         EXCEPT !.ok = @ /\ p \notin DOMAIN r.policies
                         /\ Cardinality(DOMAIN r.policies) < MaxPolicies,
                !.sum.policiesAdded = @ + 1]

OzRemovePolicy(a, c, p) ==
    [OzSet(a, c.id, [a.oz[c.id] EXCEPT !.policies = Without(@, {p})],
           Without(a.state, {<<c.id, p>>}))
     EXCEPT !.sum.policiesRemoved = @ + 1]

Perform(a, c, fx) ==
    CASE fx.do = "signers" -> OzSwap(a, c, fx.signers)
      [] fx.do = "addPolicy" -> OzAddPolicy(a, c, fx.policy, fx.param)
      [] fx.do = "removePolicy" -> OzRemovePolicy(a, c, fx.policy)
      [] fx.do = "validUntil" ->
            [OzSet(a, c.id, [a.oz[c.id] EXCEPT !.validUntil = fx.validUntil], a.state)
             EXCEPT !.ok = @ /\ ~Expired(fx.validUntil, a.now)]
      [] fx.do = "remove" -> OzRemove(a, c.id)
      [] fx.do = "add" -> OzAdd(a, fx.rule)

(***************************************************************************)
(* run: unmatched records are removed first, then each desired rule is     *)
(* added, kept, edited or replaced, in the document's order.               *)
(***************************************************************************)
(* b after the effects on rule c; m is their price.                        *)
Do(b, c, effects, m) ==
    [b EXCEPT !.a = FoldLeft(LAMBDA a, fx : Perform(a, c, fx), @, effects),
              !.refs = m.refs, !.cost = @ + m.writes]

Recorded(b, d, id) == [b EXCEPT !.next = Append(@, WithId(d, id))]

(* Mutants: the choice ignores the prices.                                 *)
AlwaysEdited(edited, replaced) == TRUE

AlwaysReplaced(edited, replaced) == FALSE

(* The in-place edit on a tie.                                             *)
Cheapest(edited, replaced) == edited.writes <= replaced.writes

RemoveUnmatched(b, c, desired) ==
    IF \E i \in DOMAIN desired : SameSlot(c, desired[i])
    THEN b
    ELSE Do(b, c, <<RemoveRule>>, Price(b.refs, c, <<RemoveRule>>))

ReconcileRule(b, current, d) ==
    LET matches == SelectSeq(current, LAMBDA c : SameSlot(c, d))
        c == Head(matches)
        edited == Price(b.refs, c, Edit(c, d))
        replaced == Price(b.refs, c, Replace(d))
    IN  IF matches = <<>>
        THEN Recorded(Do(b, d, <<AddRule(d)>>, Price(b.refs, d, <<AddRule(d)>>)), d, b.a.nextId)
        ELSE IF Unchanged(c, d) THEN Recorded(b, d, c.id)
        ELSE IF Edit(c, d) # <<>> /\ Cheapest(edited, replaced)
        THEN Recorded([Do(b, c, Edit(c, d), edited) EXCEPT !.a.sum.rulesEdited = @ + 1], d, c.id)
        ELSE Recorded(Do(b, c, Replace(d), replaced), d, b.a.nextId)

Reconcile(current, desired) ==
    LET before == [a |-> [oz |-> oz, nextId |-> nextId, state |-> state, now |-> now,
                          sum |-> NoDelta, ok |-> TRUE],
                   refs |-> RefsOf(current), next |-> <<>>, cost |-> 0]
        removed == FoldLeft(LAMBDA b, c : RemoveUnmatched(b, c, desired), before, current)
    IN  FoldLeft(LAMBDA b, d : ReconcileRule(b, current, d), removed, desired)

(* The price of replace_all: every rule removed, then every desired added. *)
FullPrice(current, desired) ==
    LET removed == FoldLeft(LAMBDA m, c : Meter(m, c, RemoveRule),
                            [refs |-> RefsOf(current), writes |-> 0], current)
    IN  FoldLeft(LAMBDA m, d : Meter(m, d, AddRule(d)), removed, desired).writes

(***************************************************************************)
(* Actions.                                                                *)
(***************************************************************************)
(* The constructor (install_admin) has installed rule 0, "admin".          *)
Init ==
    /\ now = 1
    /\ records = <<WithId(AdminRule(AdminSigners), 0)>>
    /\ oz = [i \in {0} |-> AdminRule(AdminSigners)]
    /\ nextId = 1
    /\ state = <<>>
    /\ last = [outcome |-> "none"]
    /\ applies = 0

(* apply_doc's apply_rules: a refused effect reverts the invocation.       *)
ApplyRules(doc) ==
    LET desired == Desired(doc, now)
        b == Reconcile(records, desired)
    IN  /\ applies < MaxApplies
        /\ applies' = applies + 1
        /\ last' = [outcome |-> IF b.a.ok THEN "applied" ELSE "reverted",
                    cost |-> b.cost, full |-> FullPrice(records, desired),
                    refs |-> b.refs, sum |-> b.a.sum]
        /\ IF b.a.ok
           THEN /\ records' = b.next
                /\ oz' = b.a.oz
                /\ nextId' = b.a.nextId
                /\ state' = b.a.state
           ELSE UNCHANGED <<records, oz, nextId, state>>
        /\ UNCHANGED now

(* The spending limit records a transfer that a capped rule authorized.    *)
Spend(id) ==
    /\ SpendingLimit \in DOMAIN oz[id].policies
    /\ ~Expired(oz[id].validUntil, now)
    /\ state[<<id, SpendingLimit>>] < MaxSpent
    /\ state' = [state EXCEPT ![<<id, SpendingLimit>>] = @ + 1]
    /\ UNCHANGED <<now, records, oz, nextId, last, applies>>

CloseLedger ==
    /\ now < LedgerMax
    /\ now' = now + 1
    /\ UNCHANGED <<records, oz, nextId, state, last, applies>>

Next ==
    \/ \E doc \in Docs : ApplyRules(doc)
    \/ \E id \in DOMAIN oz : Spend(id)
    \/ CloseLedger

Spec == Init /\ [][Next]_vars

(***************************************************************************)
(* Properties.                                                             *)
(***************************************************************************)
(* A document that compiles also installs: whatever was installed before,  *)
(* at whatever ledger, OZ refuses no effect of the reconciliation. After   *)
(* it the records are every rule OZ has, one record per id, none missing   *)
(* and none left over, with the contents OZ enforces, and a policy keeps   *)
(* state for exactly the rules it is attached to. The next apply's         *)
(* matching and prices rest on it.                                         *)
InstallsExactly ==
    /\ last.outcome # "reverted"
    /\ DOMAIN state = {k \in (DOMAIN oz) \X Policies : k[2] \in DOMAIN oz[k[1]].policies}
    /\ {records[i].id : i \in DOMAIN records} = DOMAIN oz
    /\ Len(records) = Cardinality(DOMAIN oz)
    /\ \A i \in DOMAIN records : Content(records[i]) = oz[records[i].id]

(* No apply costs more than replacing every rule would have: the cheaper   *)
(* path per rule is never undone by the order in which rules are changed,  *)
(* and the counts the cost model carried through the apply are the         *)
(* registries' after it, so that no rule was priced against a stale count. *)
NeverDearerThanFull ==
    last.outcome = "applied" => last.cost <= last.full /\ last.refs = RefsOf(records)

(* The capped rule of the slot of r, and what its window has recorded.     *)
Windows(rs, st) ==
    {[slot |-> <<rs[i].name, rs[i].scope>>, cap |-> rs[i].policies[SpendingLimit],
      spent |-> st[<<rs[i].id, SpendingLimit>>]] :
        i \in {j \in DOMAIN rs : SpendingLimit \in DOMAIN rs[j].policies}}

(* A cap's window is not reset by changes around it: while a slot keeps    *)
(* the same cap, what its window has recorded never decreases, whatever    *)
(* happens to its signers, program and bound.                              *)
WindowSurvives ==
    [][\A w \in Windows(records, state), v \in Windows(records', state') :
            w.slot = v.slot /\ w.cap = v.cap => v.spent >= w.spent]_vars

(* The rules in force are what replacing every rule would have put in      *)
(* force: reconciliation implements RuleSet.                               *)
Whole == INSTANCE RuleSet WITH grants <- {oz[i] : i \in DOMAIN oz}

ImplementsFullReplacement == Whole!Spec
=============================================================================
