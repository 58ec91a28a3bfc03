--------------------------- MODULE PolicyProgram ---------------------------
(***************************************************************************)
(* perch-program and the analysis of perch-compile: constraint programs in *)
(* postfix form, their validation and evaluation over a stack of verdicts, *)
(* and what can be told of a program from its ops alone.                   *)
(*                                                                         *)
(* An op is a record with its name in op. The context of a call is         *)
(* [contract |-> TRUE, fn, args], each argument a value with its type, or  *)
(* [contract |-> FALSE] for any other context. Strings are sequences, so   *)
(* that their length is what the buffers bound.                            *)
(***************************************************************************)
EXTENDS Integers, Sequences, Functions

CONSTANTS
    MaxProgramLen,    \* MAX_PROGRAM_LEN
    MaxStackDepth,    \* MAX_STACK_DEPTH
    MaxStrArgLen,     \* MAX_STR_ARG_LEN, also MAX_STRING_PRED_LEN
    SelfAddr          \* the protected account

ASSUME ProgramLimits == MaxProgramLen \in Nat /\ MaxStackDepth \in Nat \ {0} /\ MaxStrArgLen \in Nat

ProgramVersion == 1

(***************************************************************************)
(* Verdicts, ordered False < Unknown < True.                               *)
(***************************************************************************)
False == 0

Unknown == 1

True == 2

Verdicts == {False, Unknown, True}

And(v, w) == IF v <= w THEN v ELSE w

Or(v, w) == IF v <= w THEN w ELSE v

(* Mutant: the negation of what could not be decoded holds.                *)
NegateUndecoded(v) == IF v = True THEN False ELSE True

Negate(v) == CASE v = False -> True [] v = Unknown -> Unknown [] v = True -> False

Truth(b) == IF b THEN True ELSE False

(***************************************************************************)
(* Leaf predicates. What cannot be decoded is Unknown, never False.        *)
(***************************************************************************)
Decodes(in, i, type) ==
    in.context.contract /\ i < Len(in.context.args) /\ in.context.args[i + 1].type = type

Arg(in, i) == in.context.args[i + 1].value

ArgEq(in, i, type, want) == IF Decodes(in, i, type) THEN Truth(Arg(in, i) = want) ELSE Unknown

ArgStrIn(in, i, set) ==
    IF Decodes(in, i, "string") /\ Len(Arg(in, i)) <= MaxStrArgLen
    THEN Truth(\E want \in Range(set) : Len(want) <= MaxStrArgLen /\ want = Arg(in, i))
    ELSE Unknown

(* Only the argument's first bytes are read: its length is unbounded.      *)
ArgStrPrefix(in, i, prefix) ==
    IF Decodes(in, i, "string") /\ Len(prefix) <= MaxStrArgLen
    THEN Truth(Len(prefix) <= Len(Arg(in, i)) /\ SubSeq(Arg(in, i), 1, Len(prefix)) = prefix)
    ELSE Unknown

FnIn(in, fns) == IF in.context.contract THEN Truth(in.context.fn \in Range(fns)) ELSE Unknown

ArgCount(in, n) == IF in.context.contract THEN Truth(Len(in.context.args) = n) ELSE Unknown

Leaf(op, in) ==
    CASE op.op = "MinSigners"      -> Truth(in.signerCount >= op.n)
      [] op.op = "FnIn"            -> FnIn(in, op.fns)
      [] op.op = "ArgAddrEq"       -> ArgEq(in, op.i, "address", op.want)
      [] op.op = "ArgAddrIsSelf"   -> ArgEq(in, op.i, "address", SelfAddr)
      [] op.op = "ArgSymEq"        -> ArgEq(in, op.i, "symbol", op.want)
      [] op.op = "ArgBytesEq"      -> ArgEq(in, op.i, "bytes", op.want)
      [] op.op = "ArgI128Eq"       -> ArgEq(in, op.i, "i128", op.want)
      [] op.op = "ArgU32Eq"        -> ArgEq(in, op.i, "u32", op.want)
      [] op.op = "ArgStrIn"        -> ArgStrIn(in, op.i, op.set)
      [] op.op = "ArgStrPrefix"    -> ArgStrPrefix(in, op.i, op.prefix)
      [] op.op = "ArgCount"        -> ArgCount(in, op.n)
      [] op.op = "LedgerBefore"    -> Truth(in.ledger < op.n)
      [] op.op = "LedgerAtOrAfter" -> Truth(in.ledger >= op.n)

(***************************************************************************)
(* The stack effect of an op: it pops Pops(op) verdicts and pushes one.    *)
(***************************************************************************)
Fold(op) == op.op \in {"All", "Any"}

Pops(op) == IF Fold(op) THEN op.n ELSE IF op.op = "Not" THEN 1 ELSE 0

Unit(op) == IF op.op = "All" THEN True ELSE False

Join(op, v, w) == IF op.op = "All" THEN And(v, w) ELSE Or(v, w)

(* All and Any, over the verdicts popped, the top of the stack first.      *)
Folded(op, popped) ==
    LET v[k \in 0 .. Pops(op)] ==
            IF k = 0 THEN Unit(op) ELSE Join(op, v[k - 1], popped[Pops(op) - k + 1])
    IN  v[Pops(op)]

(* What an op makes of the verdicts it pops.                               *)
Apply(op, popped, in) ==
    CASE Fold(op)      -> Folded(op, popped)
      [] op.op = "Not" -> Negate(popped[1])
      [] OTHER         -> Leaf(op, in)

Rest(stack, op) == SubSeq(stack, 1, Len(stack) - Pops(op))

Popped(stack, op) == SubSeq(stack, Len(stack) - Pops(op) + 1, Len(stack))

(* The guards under which eval gives up: too few operands, or none asked   *)
(* for, or no room for the result.                                         *)
Stuck(op, sp) == (Fold(op) /\ op.n = 0) \/ sp < Pops(op) \/ sp - Pops(op) >= MaxStackDepth

(* eval as a whole: the stack after each op of a program that validates,   *)
(* and the verdict left on it (ProgramMachine takes both op by op).        *)
Pushed(stack, op, in) == Append(Rest(stack, op), Apply(op, Popped(stack, op), in))

Stacks(ops, in) ==
    LET at[k \in 0 .. Len(ops)] == IF k = 0 THEN <<>> ELSE Pushed(at[k - 1], ops[k], in)
    IN  at

EvalProgram(ops, in) == Stacks(ops, in)[Len(ops)][1]

(***************************************************************************)
(* program_bounds: the stack effect again, saturating.                     *)
(***************************************************************************)
Deeper(b, op) ==
    LET depth == (IF b.depth < Pops(op) THEN 0 ELSE b.depth - Pops(op)) + 1
    IN  [depth |-> depth, peak |-> IF depth > b.peak THEN depth ELSE b.peak]

Bounds(ops) ==
    LET at[k \in 0 .. Len(ops)] ==
            IF k = 0 THEN [depth |-> 0, peak |-> 0] ELSE Deeper(at[k - 1], ops[k])
    IN  at

ProgramBounds(ops) == [ops |-> Len(ops), maxStackDepth |-> Bounds(ops)[Len(ops)].peak]

(***************************************************************************)
(* max_verdict: evaluation over the intervals of verdicts that the inputs  *)
(* can give; every leaf but the constant ones can take any.                *)
(***************************************************************************)
LeafInterval(op) ==
    IF op.op = "MinSigners" /\ op.n = 0 THEN <<True, True>>
    ELSE IF op.op = "LedgerBefore" /\ op.n = 0 THEN <<False, False>>
    ELSE <<False, True>>

Lows(intervals) == [i \in DOMAIN intervals |-> intervals[i][1]]

Highs(intervals) == [i \in DOMAIN intervals |-> intervals[i][2]]

(* Mutant: the bounds of a negation are negated in place.                  *)
IntervalUnflipped(op, popped) ==
    CASE op.op = "Not" -> <<Negate(popped[1][1]), Negate(popped[1][2])>>
      [] Fold(op)      -> <<Folded(op, Lows(popped)), Folded(op, Highs(popped))>>
      [] OTHER         -> LeafInterval(op)

Interval(op, popped) ==
    CASE op.op = "Not" -> <<Negate(popped[1][2]), Negate(popped[1][1])>>
      [] Fold(op)      -> <<Folded(op, Lows(popped)), Folded(op, Highs(popped))>>
      [] OTHER         -> LeafInterval(op)

Bracketed(s, op) ==
    IF ~s.ok \/ (Fold(op) /\ op.n = 0) \/ Len(s.stack) < Pops(op)
    THEN [s EXCEPT !.ok = FALSE]
    ELSE [s EXCEPT !.stack = Append(Rest(@, op), Interval(op, Popped(@, op)))]

Intervals(ops) ==
    LET at[k \in 0 .. Len(ops)] ==
            IF k = 0 THEN [ok |-> TRUE, stack |-> <<>>] ELSE Bracketed(at[k - 1], ops[k])
    IN  at

MaxVerdict(ops) ==
    LET end == Intervals(ops)[Len(ops)]
    IN  IF end.ok /\ Len(end.stack) = 1 THEN end.stack[1][2] ELSE Unknown

CanEverAuthorize(ops) == MaxVerdict(ops) = True

(***************************************************************************)
(* rule_functions: the functions a program can authorize, as its FnIn ops  *)
(* name them; any function when it has none.                               *)
(***************************************************************************)
AllowLists(ops) == {Range(ops[i].fns) : i \in {j \in DOMAIN ops : ops[j].op = "FnIn"}}

RuleFunctions(ops) ==
    IF AllowLists(ops) = {} THEN [any |-> TRUE] ELSE [any |-> FALSE, only |-> UNION AllowLists(ops)]
=============================================================================
