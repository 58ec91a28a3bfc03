--------------------------- MODULE ProgramMachine ---------------------------
(***************************************************************************)
(* rpn::validate and rpn::eval op by op. A program is validated, which     *)
(* simulates its stack effect, and then evaluated for some inputs over a   *)
(* stack of fixed size; eval may also be called on a program that          *)
(* validation refused.                                                     *)
(***************************************************************************)
EXTENDS PolicyProgram

CONSTANTS Ops, Programs, Inputs

(* The ops of rpn.rs, each with the count it takes.                        *)
OpNames ==
    {"All", "Any", "Not", "MinSigners", "FnIn", "ArgAddrEq", "ArgAddrIsSelf", "ArgSymEq",
     "ArgBytesEq", "ArgI128Eq", "ArgU32Eq", "ArgStrIn", "ArgStrPrefix", "ArgCount",
     "LedgerBefore", "LedgerAtOrAfter"}

ASSUME OpsAssumption == \A op \in Ops : op.op \in OpNames /\ Pops(op) \in Nat

ASSUME ProgramsAssumption == \A p \in Programs : p.ops \in Seq(Ops)

ASSUME InputsAssumption == \A in \in Inputs : in.signerCount \in Nat /\ in.ledger \in Nat

VARIABLES
    program, pc,
    depths,    \* depths[k]: the depth validation simulated after k ops
    error,     \* what validation refused
    inputs, idx, stack, sp,
    peak,      \* the deepest the stack has been
    verdict,   \* what eval returned
    gaveUp     \* eval returned by one of its defensive guards

machineVars == <<program, pc, depths, error, inputs, idx, stack, sp, peak, verdict, gaveUp>>

Nil == "none"

Length == Len(program.ops)

Checked == Len(depths)

Depth == IF depths = <<>> THEN 0 ELSE depths[Len(depths)]

(* The depth validation simulated before op k + 1.                         *)
DepthAt(k) == IF k = 0 THEN 0 ELSE depths[k]

MachineInit ==
    /\ program \in Programs
    /\ pc = "validate"
    /\ depths = <<>> /\ error = Nil
    /\ inputs = Nil /\ idx = 0
    /\ stack = [k \in 1 .. MaxStackDepth |-> Unknown] /\ sp = 0 /\ peak = 0
    /\ verdict = Unknown /\ gaveUp = FALSE

(***************************************************************************)
(* validate                                                                *)
(***************************************************************************)
HeaderError ==
    IF program.version # ProgramVersion THEN "UnknownVersion"
    ELSE IF Length = 0 THEN "Empty"
    ELSE IF Length > MaxProgramLen THEN "TooLarge"
    ELSE Nil

(* Mutant: a depth of the limit is refused only past the next push.        *)
OpErrorLate(op) ==
    IF Fold(op) /\ op.n = 0 THEN "ArityMismatch"
    ELSE IF Depth < Pops(op) THEN "StackUnderflow"
    ELSE IF Depth - Pops(op) > MaxStackDepth THEN "StackOverflow"
    ELSE Nil

OpError(op) ==
    IF Fold(op) /\ op.n = 0 THEN "ArityMismatch"
    ELSE IF Depth < Pops(op) THEN "StackUnderflow"
    ELSE IF Depth - Pops(op) + 1 > MaxStackDepth THEN "StackOverflow"
    ELSE Nil

EvalVars == <<inputs, idx, stack, sp, peak, verdict, gaveUp>>

Refuse(e) == error' = e /\ pc' = "refused" /\ UNCHANGED <<program, depths, EvalVars>>

RefuseHeader == pc = "validate" /\ HeaderError # Nil /\ Refuse(HeaderError)

ValidateOp ==
    /\ pc = "validate" /\ HeaderError = Nil /\ Checked < Length
    /\ LET op == program.ops[Checked + 1]
       IN  \/ OpError(op) # Nil /\ Refuse(OpError(op))
           \/ /\ OpError(op) = Nil
              /\ depths' = Append(depths, Depth - Pops(op) + 1)
              /\ UNCHANGED <<program, pc, error, EvalVars>>

ValidateEnd ==
    /\ pc = "validate" /\ HeaderError = Nil /\ Checked = Length
    /\ \/ Depth # 1 /\ Refuse("NotSingleResult")
       \/ Depth = 1 /\ pc' = "installed" /\ UNCHANGED <<program, depths, error, EvalVars>>

(***************************************************************************)
(* eval                                                                    *)
(***************************************************************************)
Eval(in) ==
    /\ pc \in {"installed", "refused"}
    /\ pc' = "eval" /\ inputs' = in
    /\ UNCHANGED <<program, depths, error, idx, stack, sp, peak, verdict, gaveUp>>

GiveUp ==
    /\ verdict' = Unknown /\ gaveUp' = TRUE /\ pc' = "done"
    /\ UNCHANGED <<program, depths, error, inputs, idx, stack, sp, peak>>

EvalOp ==
    /\ pc = "eval" /\ idx < Length
    /\ LET op == program.ops[idx + 1]
           base == sp - Pops(op)
           popped == [k \in 1 .. Pops(op) |-> stack[base + k]]
       IN  \/ Stuck(op, sp) /\ GiveUp
           \/ /\ ~Stuck(op, sp)
              /\ stack' = [stack EXCEPT ![base + 1] = Apply(op, popped, inputs)]
              /\ sp' = base + 1
              /\ peak' = IF base + 1 > peak THEN base + 1 ELSE peak
              /\ idx' = idx + 1
              /\ UNCHANGED <<program, pc, depths, error, inputs, verdict, gaveUp>>

EvalEnd ==
    /\ pc = "eval" /\ idx = Length
    /\ \/ sp # 1 /\ GiveUp
       \/ /\ sp = 1 /\ verdict' = stack[1] /\ pc' = "done"
          /\ UNCHANGED <<program, depths, error, inputs, idx, stack, sp, peak, gaveUp>>

MachineNext ==
    \/ RefuseHeader
    \/ ValidateOp
    \/ ValidateEnd
    \/ \E in \in Inputs : Eval(in)
    \/ EvalOp
    \/ EvalEnd

MachineSpec == MachineInit /\ [][MachineNext]_machineVars

-----------------------------------------------------------------------------
StructuralErrors ==
    {"Empty", "ArityMismatch", "StackUnderflow", "StackOverflow", "NotSingleResult"}

(* The depths and the counters stay within the program and the stack.      *)
TypeOK ==
    /\ pc \in {"validate", "refused", "installed", "eval", "done"}
    /\ error \in StructuralErrors \cup {Nil, "UnknownVersion", "TooLarge"}
    /\ depths \in Seq(1 .. MaxStackDepth) /\ Checked <= Length
    /\ idx \in 0 .. Length /\ sp \in 0 .. MaxStackDepth
    /\ stack \in [1 .. MaxStackDepth -> Verdicts]

(* rpn::validate against rpn::eval: a program that validates never meets a *)
(* defensive guard of eval, and one that validation refuses for its        *)
(* structure always does, whatever the inputs.                             *)
EvalAgreesWithValidate ==
    pc = "done" => /\ error = Nil => ~gaveUp
                   /\ error \in StructuralErrors => gaveUp

(* What analysis.rs reads from the ops without running them holds of every *)
(* run: program_bounds is exact for a validated program, the deepest the   *)
(* stack has been being the bound it reports, and a program that           *)
(* can_ever_authorize calls dead authorizes nothing.                       *)
StaticReportsHold ==
    /\ pc = "done" /\ error = Nil => peak = ProgramBounds(program.ops).maxStackDepth
    /\ verdict = True => CanEverAuthorize(program.ops)

(* leaf.rs, the fail-closed rule: what fails to decode decides nothing.    *)
(* Whenever an evaluation reaches a verdict, any inputs that only decode   *)
(* more, and agree wherever these decoded, reach the same one. So a        *)
(* decoding failure can neither allow a call nor satisfy a negated guard.  *)
UndecodedDecidesNothing ==
    pc = "done" /\ error = Nil /\ verdict # Unknown =>
        \A in \in Inputs :
            (\A i \in 1 .. Length :
                Pops(program.ops[i]) = 0 =>
                    Leaf(program.ops[i], inputs) \in {Unknown, Leaf(program.ops[i], in)})
            => EvalProgram(program.ops, in) = verdict
=============================================================================
