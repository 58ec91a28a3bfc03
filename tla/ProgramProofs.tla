--------------------------- MODULE ProgramProofs ---------------------------
(***************************************************************************)
(* Validation and evaluation agree for every program and every limit: the   *)
(* depth validation simulated before an op is the height of eval's stack    *)
(* there, so eval meets one of its guards exactly where validation refused  *)
(* the program for its structure.                                           *)
(*                                                                          *)
(* And what is read off the ops holds of every run, because after each op   *)
(* eval's stack is as deep as program_bounds counted, lies within the       *)
(* intervals of max_verdict, and is decided no differently for an input     *)
(* that decodes more.                                                       *)
(***************************************************************************)
EXTENDS ProgramMachine, SequenceTheorems, WellFoundedInduction, TLAPS

Op(k) == program.ops[k]

(* What validation found of the ops it has passed.                          *)
Simulated ==
    /\ depths \in Seq(Nat)
    /\ Checked <= Length
    /\ \A k \in 1 .. Checked :
        /\ ~Stuck(Op(k), DepthAt(k - 1))
        /\ depths[k] = DepthAt(k - 1) - Pops(Op(k)) + 1

(* Why it refused, or that it did not.                                      *)
Refused ==
    /\ error \in StructuralErrors \cup {Nil, "UnknownVersion", "TooLarge"}
    /\ error \in {"ArityMismatch", "StackUnderflow", "StackOverflow"} =>
        Checked < Length /\ Stuck(Op(Checked + 1), Depth)
    /\ error = "NotSingleResult" => Checked = Length /\ Depth # 1
    /\ error = "Empty" => Length = 0 /\ Checked = 0
    /\ pc \in {"installed", "eval", "done"} /\ error = Nil => Checked = Length /\ Depth = 1

(* Where validation passed, eval's stack is as high as simulated.           *)
Follows ==
    /\ idx \in Nat /\ sp \in Nat
    /\ pc \in {"validate", "refused", "installed"} => idx = 0 /\ sp = 0 /\ ~gaveUp
    /\ pc = "validate" => error = Nil
    /\ pc = "refused" => error # Nil
    /\ pc = "eval" => ~gaveUp
    /\ error \in StructuralErrors \cup {Nil} => idx <= Checked /\ sp = DepthAt(idx)

Inv ==
    /\ program \in Programs
    /\ pc \in {"validate", "refused", "installed", "eval", "done"}
    /\ Simulated
    /\ Refused
    /\ Follows
    /\ EvalAgreesWithValidate

-----------------------------------------------------------------------------
(* Each check of validate is a guard of eval: it refuses an op for its      *)
(* arity, an underflow or an overflow exactly when eval would give up.      *)
LEMMA RefusedIffStuck ==
    ASSUME NEW op \in Ops, Depth \in Nat
    PROVE  /\ OpError(op) \in {Nil, "ArityMismatch", "StackUnderflow", "StackOverflow"}
           /\ OpError(op) = Nil <=> ~Stuck(op, Depth)
  <1>1. Pops(op) \in Nat
    BY OpsAssumption, Zenon
  <1> QED BY <1>1, ProgramLimits DEF OpError, Stuck, Nil

(* The ops of a program, and their count.                                   *)
LEMMA ProgramOps ==
    ASSUME program \in Programs
    PROVE  /\ Length \in Nat
           /\ \A k \in 1 .. Length : Op(k) \in Ops
  BY ProgramsAssumption DEF Length, Op

(* The depth before op k + 1, and after the last op checked.                *)
LEMMA DepthFacts ==
    ASSUME depths \in Seq(Nat)
    PROVE  /\ Checked \in Nat /\ Depth \in Nat
           /\ Depth = DepthAt(Checked)
           /\ \A k \in 0 .. Checked : DepthAt(k) \in Nat
  BY DEF Checked, Depth, DepthAt

(* The invariant of validation and eval holds at the start.                 *)
LEMMA InitInv == MachineInit => Inv
  <1> SUFFICES ASSUME MachineInit PROVE Inv
    BY Zenon
  <1>1. Length \in Nat
    BY ProgramOps, Zenon DEF MachineInit
  <1>2. Checked = 0 /\ depths \in Seq(Nat)
    BY DEF MachineInit, Checked
  <1>3. Simulated
    BY <1>1, <1>2 DEF Simulated
  <1>4. Refused
    BY Zenon DEF MachineInit, Refused, Nil, StructuralErrors
  <1>5. Follows
    BY <1>2 DEF MachineInit, Follows, DepthAt
  <1> QED BY <1>3, <1>4, <1>5, Zenon DEF MachineInit, Inv, EvalAgreesWithValidate

(* What a step that checks no op leaves alone.                              *)
LEMMA SimulatedKept ==
    ASSUME Simulated, UNCHANGED <<program, depths>>
    PROVE  Simulated' /\ Checked' = Checked /\ Depth' = Depth /\ Length' = Length
  BY Zenon DEF Simulated, Checked, Depth, Length, DepthAt, Op

(* validate keeps the invariant.                                            *)
LEMMA ValidateInv ==
    ASSUME Inv, RefuseHeader \/ ValidateOp \/ ValidateEnd
    PROVE  Inv'
  <1> USE DEF Inv
  <1>0. /\ Length \in Nat /\ Checked \in Nat /\ Depth \in Nat /\ Depth = DepthAt(Checked)
        /\ \A k \in 1 .. Length : Op(k) \in Ops
    BY ProgramOps, DepthFacts, Zenon DEF Simulated
  <1>1. pc = "validate" /\ error = Nil /\ idx = 0 /\ sp = 0 /\ ~gaveUp
    BY Zenon DEF RefuseHeader, ValidateOp, ValidateEnd, Follows
  <1>2. ASSUME NEW e, Refuse(e),
               e \in StructuralErrors \cup {"UnknownVersion", "TooLarge"},
               e \in {"ArityMismatch", "StackUnderflow", "StackOverflow"} =>
                    Checked < Length /\ Stuck(Op(Checked + 1), Depth),
               e = "NotSingleResult" => Checked = Length /\ Depth # 1,
               e = "Empty" => Length = 0 /\ Checked = 0
        PROVE  Inv'
    <2>1. /\ error' = e /\ pc' = "refused" /\ UNCHANGED <<program, depths, idx, sp, gaveUp>>
      BY <1>2, Zenon DEF Refuse, EvalVars
    <2>2. Simulated' /\ Checked' = Checked /\ Depth' = Depth /\ Length' = Length
      BY <2>1, SimulatedKept, Zenon
    <2>3. Op(Checked + 1)' = Op(Checked + 1) /\ DepthAt(0)' = 0
      BY <2>1, <2>2, Zenon DEF Op, DepthAt
    <2>4. Stuck(Op(Checked + 1), Depth)' <=> Stuck(Op(Checked + 1), Depth)
      BY <2>2, <2>3, Zenon DEF Stuck, Fold, Pops
    <2>5. Refused'
      BY <1>2, <2>1, <2>2, <2>4, Zenon DEF Refused, Nil, StructuralErrors
    <2>6. Follows'
      BY <1>0, <1>1, <1>2, <2>1, <2>2, <2>3, Zenon DEF Follows, Nil, StructuralErrors
    <2> QED BY <2>1, <2>2, <2>5, <2>6, Zenon DEF EvalAgreesWithValidate
  <1>3. CASE RefuseHeader
    <2>1. HeaderError \in {"UnknownVersion", "Empty", "TooLarge"}
      BY <1>3, Zenon DEF RefuseHeader, HeaderError, Nil
    <2>2. HeaderError = "Empty" => Length = 0 /\ Checked = 0
      BY <1>0 DEF HeaderError, Nil, Simulated
    <2> QED BY <1>2, <1>3, <2>1, <2>2, Zenon DEF RefuseHeader, StructuralErrors
  <1>4. CASE ValidateOp
    <2> DEFINE op == program.ops[Checked + 1]
    <2>1. Checked < Length /\ op \in Ops /\ op = Op(Checked + 1)
      BY <1>0, <1>4 DEF ValidateOp, Op
    <2>2. /\ OpError(op) \in {Nil, "ArityMismatch", "StackUnderflow", "StackOverflow"}
          /\ OpError(op) = Nil <=> ~Stuck(op, Depth)
          /\ Pops(op) \in Nat
      BY <1>0, <2>1, RefusedIffStuck, OpsAssumption, Zenon
    <2>3. CASE OpError(op) # Nil /\ Refuse(OpError(op))
      BY <1>2, <2>1, <2>2, <2>3, Zenon DEF StructuralErrors, Nil
    <2>4. CASE OpError(op) = Nil /\ depths' = Append(depths, Depth - Pops(op) + 1)
               /\ UNCHANGED <<program, pc, error, EvalVars>>
      <3> DEFINE n == Depth - Pops(op) + 1
      <3>1. UNCHANGED <<program, pc, error, idx, sp, gaveUp>>
        BY <2>4, Zenon DEF EvalVars
      <3>2. n \in Nat /\ depths \in Seq(Nat)
        BY <1>0, <2>2, <2>4 DEF Stuck, Simulated
      <3>3. /\ depths' \in Seq(Nat) /\ Checked' = Checked + 1 /\ depths'[Checked + 1] = n
            /\ \A k \in 1 .. Checked : depths'[k] = depths[k]
            /\ Length' = Length
        BY <2>4, <3>1, <3>2 DEF Checked, Length
      <3>4. \A k \in 0 .. Checked : DepthAt(k)' = DepthAt(k)
        BY <3>3 DEF DepthAt
      <3>5. \A k \in 1 .. Length : Op(k)' = Op(k)
        BY <3>1, Zenon DEF Op
      <3>6. ASSUME NEW k \in 1 .. Checked + 1
            PROVE  /\ ~Stuck(Op(k), DepthAt(k - 1))'
                   /\ depths'[k] = DepthAt(k - 1)' - Pops(Op(k))' + 1
        <4>1. DepthAt(k - 1)' = DepthAt(k - 1) /\ Op(k)' = Op(k)
          BY <1>0, <2>1, <3>4, <3>5
        <4>2. /\ Pops(Op(k))' = Pops(Op(k))
              /\ Stuck(Op(k), DepthAt(k - 1))' <=> Stuck(Op(k), DepthAt(k - 1))
          BY <4>1, Zenon DEF Stuck, Fold, Pops
        <4>3. CASE k = Checked + 1
          <5>1. Op(k) = op /\ DepthAt(k - 1) = Depth /\ depths'[k] = n
            BY <1>0, <2>1, <3>3, <4>3
          <5>2. ~Stuck(Op(k), DepthAt(k - 1)) /\ n = DepthAt(k - 1) - Pops(Op(k)) + 1
            BY <2>2, <2>4, <5>1, Zenon
          <5> QED BY <4>1, <4>2, <5>1, <5>2, Zenon
        <4>4. CASE k \in 1 .. Checked
          BY <1>0, <3>3, <4>1, <4>2, <4>4, Zenon DEF Simulated
        <4> QED BY <1>0, <4>3, <4>4
      <3>7. Simulated'
        BY <1>0, <2>1, <3>3, <3>6 DEF Simulated
      <3>8. Refused'
        BY <1>1, <3>1, Zenon DEF Refused, Nil, StructuralErrors
      <3>9. Follows'
        BY <1>0, <1>1, <3>1, <3>3, <3>4 DEF Follows, Nil, StructuralErrors, DepthAt
      <3> QED BY <1>1, <3>1, <3>7, <3>8, <3>9, Zenon DEF EvalAgreesWithValidate
    <2> QED BY <1>4, <2>3, <2>4, Zenon DEF ValidateOp
  <1>5. CASE ValidateEnd
    <2>1. CASE Depth # 1 /\ Refuse("NotSingleResult")
      BY <1>2, <1>5, <2>1, Zenon DEF ValidateEnd, StructuralErrors
    <2>2. CASE Depth = 1 /\ pc' = "installed" /\ UNCHANGED <<program, depths, error, EvalVars>>
      <3>1. UNCHANGED <<program, depths, error, idx, sp, gaveUp>>
        BY <2>2, Zenon DEF EvalVars
      <3>2. Simulated' /\ Checked' = Checked /\ Depth' = Depth /\ Length' = Length
        BY <3>1, SimulatedKept, Zenon
      <3>3. Refused'
        BY <1>1, <1>5, <2>2, <3>1, <3>2, Zenon DEF Refused, ValidateEnd, Nil, StructuralErrors
      <3>4. Follows'
        BY <1>0, <1>1, <2>2, <3>1, <3>2, Zenon DEF Follows, Nil, StructuralErrors, DepthAt
      <3> QED BY <2>2, <3>1, <3>2, <3>3, <3>4, Zenon DEF EvalAgreesWithValidate
    <2> QED BY <1>5, <2>1, <2>2, Zenon DEF ValidateEnd
  <1> QED BY <1>3, <1>4, <1>5, Zenon

(* eval keeps the invariant.                                                *)
LEMMA EvalInv ==
    ASSUME Inv, (\E in \in Inputs : Eval(in)) \/ EvalOp \/ EvalEnd
    PROVE  Inv'
  <1> USE DEF Inv
  <1>0. /\ Length \in Nat /\ Checked \in Nat /\ Depth \in Nat /\ Depth = DepthAt(Checked)
        /\ \A k \in 1 .. Length : Op(k) \in Ops
        /\ Checked <= Length /\ idx \in Nat /\ sp \in Nat
    BY ProgramOps, DepthFacts, Zenon DEF Simulated, Follows
  <1>1. UNCHANGED <<program, depths, error>>
    BY Zenon DEF Eval, EvalOp, EvalEnd, GiveUp
  <1>2. /\ Simulated' /\ Checked' = Checked /\ Depth' = Depth /\ Length' = Length
        /\ \A k \in 0 .. Checked : DepthAt(k)' = DepthAt(k)
        /\ \A k \in 1 .. Length : Op(k)' = Op(k)
    BY <1>1, SimulatedKept, Zenon DEF DepthAt, Op
  <1>3. ASSUME pc' \in {"installed", "eval", "done"},
               pc \in {"installed", "eval", "done"} \/ error # Nil
        PROVE  Refused'
    <2>1. Stuck(Op(Checked + 1), Depth)' <=> Stuck(Op(Checked + 1), Depth)
      BY <1>1, <1>2, Zenon DEF Stuck, Fold, Pops, Op
    <2> QED BY <1>1, <1>2, <1>3, <2>1, Zenon DEF Refused
  <1>4. ASSUME NEW in \in Inputs, Eval(in)
        PROVE  Inv'
    <2>1. pc \in {"installed", "refused"} /\ pc' = "eval" /\ UNCHANGED <<idx, sp, gaveUp>>
      BY <1>4, Zenon DEF Eval
    <2>2. Refused'
      BY <1>3, <2>1, Zenon DEF Follows
    <2>3. Follows'
      BY <1>0, <1>1, <1>2, <2>1, Zenon DEF Follows, DepthAt
    <2> QED BY <1>1, <1>2, <2>1, <2>2, <2>3, Zenon DEF EvalAgreesWithValidate
  <1>5. ASSUME pc = "eval", GiveUp, error # Nil
        PROVE  Inv'
    <2>1. pc' = "done" /\ gaveUp' = TRUE /\ UNCHANGED <<idx, sp>>
      BY <1>5, Zenon DEF GiveUp
    <2>2. Refused'
      BY <1>3, <1>5, <2>1, Zenon
    <2>3. Follows'
      BY <1>0, <1>1, <1>2, <1>5, <2>1 DEF Follows
    <2> QED BY <1>1, <1>2, <1>5, <2>1, <2>2, <2>3, Zenon DEF EvalAgreesWithValidate
  <1>6. CASE EvalOp
    <2> DEFINE op == program.ops[idx + 1]
    <2>1. pc = "eval" /\ ~gaveUp /\ idx < Length /\ op = Op(idx + 1) /\ op \in Ops
      BY <1>0, <1>6 DEF EvalOp, Op, Follows
    <2>2. Pops(op) \in Nat
      BY <2>1, OpsAssumption, Zenon
    <2>3. CASE Stuck(op, sp) /\ GiveUp
      <3>1. ASSUME error = Nil PROVE FALSE
        <4>1. idx + 1 \in 1 .. Checked /\ sp = DepthAt(idx)
          BY <1>0, <2>1, <3>1 DEF Refused, Follows
        <4>2. ~Stuck(Op(idx + 1), DepthAt(idx))
          BY <4>1, <1>0 DEF Simulated
        <4> QED BY <2>1, <2>3, <4>1, <4>2, Zenon
      <3> QED BY <1>5, <2>1, <2>3, <3>1, Zenon
    <2>4. CASE ~Stuck(op, sp) /\ sp' = sp - Pops(op) + 1 /\ idx' = idx + 1 /\ UNCHANGED <<pc, gaveUp>>
      <3>1. sp' \in Nat /\ idx' \in Nat
        BY <1>0, <2>2, <2>4 DEF Stuck
      <3>2. ASSUME error \in StructuralErrors \cup {Nil}
            PROVE  idx + 1 \in 1 .. Checked /\ sp' = depths[idx + 1]
        <4>1. idx <= Checked /\ sp = DepthAt(idx)
          BY <3>2, Zenon DEF Follows
        <4>2. ASSUME idx = Checked PROVE FALSE
          <5>1. sp = Depth /\ Op(Checked + 1) = op /\ Checked # Length
            BY <1>0, <2>1, <4>1, <4>2
          <5>2. error \in {"ArityMismatch", "StackUnderflow", "StackOverflow"}
            BY <1>0, <2>1, <3>2, <5>1, Zenon DEF Refused, StructuralErrors
          <5>3. Stuck(Op(Checked + 1), Depth)
            BY <5>2, Zenon DEF Refused
          <5> QED BY <2>4, <5>1, <5>3, Zenon
        <4>3. idx + 1 \in 1 .. Checked
          BY <1>0, <4>1, <4>2
        <4>4. depths[idx + 1] = DepthAt(idx) - Pops(Op(idx + 1)) + 1
          BY <1>0, <4>3 DEF Simulated
        <4> QED BY <2>1, <2>4, <4>1, <4>3, <4>4, Zenon
      <3>3. Refused'
        BY <1>3, <2>1, <2>4, Zenon
      <3>4. DepthAt(idx + 1) = depths[idx + 1]
        BY <1>0 DEF DepthAt
      <3>5. error \in StructuralErrors \cup {Nil} => idx' <= Checked' /\ sp' = DepthAt(idx)'
        <4>1. DepthAt(idx)' = DepthAt(idx + 1)
          BY <1>1, <2>4, Zenon DEF DepthAt
        <4> QED BY <1>0, <1>2, <2>4, <3>2, <3>4, <4>1
      <3>6. Follows'
        BY <1>1, <2>1, <2>4, <3>1, <3>5, Zenon DEF Follows
      <3> QED BY <1>1, <1>2, <2>1, <2>4, <3>3, <3>6, Zenon DEF EvalAgreesWithValidate
    <2> QED BY <1>6, <2>3, <2>4, Zenon DEF EvalOp
  <1>7. CASE EvalEnd
    <2>1. pc = "eval" /\ ~gaveUp /\ idx = Length
      BY <1>7, Zenon DEF EvalEnd, Follows
    <2>2. CASE sp # 1 /\ GiveUp
      <3>1. ASSUME error = Nil PROVE FALSE
        BY <1>0, <2>1, <2>2, <3>1, Zenon DEF Refused, Follows
      <3> QED BY <1>5, <2>1, <2>2, <3>1, Zenon
    <2>3. CASE sp = 1 /\ pc' = "done" /\ UNCHANGED <<idx, sp, gaveUp>>
      <3>1. error \notin StructuralErrors
        <4>1. ASSUME error \in StructuralErrors PROVE FALSE
          <5>1. idx <= Checked /\ sp = DepthAt(idx)
            BY <4>1, Zenon DEF Follows
          <5>2. Checked = Length /\ sp = Depth
            BY <1>0, <2>1, <5>1
          <5>3. error \notin {"ArityMismatch", "StackUnderflow", "StackOverflow"}
            BY <1>0, <5>2 DEF Refused
          <5>4. error \in {"NotSingleResult", "Empty"}
            BY <4>1, <5>3, Zenon DEF StructuralErrors
          <5>5. error = "Empty" => Depth = 0
            BY <1>0, <5>2, Zenon DEF Refused, DepthAt
          <5> QED BY <2>3, <5>2, <5>4, <5>5 DEF Refused
        <4> QED BY <4>1, Zenon
      <3>2. Refused'
        BY <1>3, <2>1, <2>3, Zenon
      <3>3. Follows'
        BY <1>0, <1>1, <1>2, <2>1, <2>3 DEF Follows
      <3> QED BY <1>1, <1>2, <2>1, <2>3, <3>1, <3>2, <3>3, Zenon DEF EvalAgreesWithValidate
    <2> QED BY <1>7, <2>2, <2>3, Zenon DEF EvalEnd
  <1> QED BY <1>4, <1>6, <1>7, Zenon

(* So does every step.                                                      *)
LEMMA NextInv ==
    ASSUME Inv, [MachineNext]_machineVars
    PROVE  Inv'
  <1>1. CASE UNCHANGED machineVars
    <2>1. /\ UNCHANGED <<program, pc, depths, error, idx, sp, gaveUp>>
          /\ Simulated' /\ Checked' = Checked /\ Depth' = Depth /\ Length' = Length
      BY <1>1, SimulatedKept, Zenon DEF machineVars, Inv
    <2>2. /\ DepthAt(idx)' = DepthAt(idx)
          /\ Stuck(Op(Checked + 1), Depth)' <=> Stuck(Op(Checked + 1), Depth)
      BY <2>1, Zenon DEF DepthAt, Op, Stuck, Fold, Pops
    <2> QED BY <2>1, <2>2, Zenon DEF Inv, Refused, Follows, EvalAgreesWithValidate
  <1>2. CASE MachineNext
    BY <1>2, ValidateInv, EvalInv, Zenon DEF MachineNext
  <1> QED BY <1>1, <1>2, Zenon

(* rpn::validate and rpn::eval agree, for every program and every limit: a  *)
(* validated program never meets a defensive guard of eval, and one that    *)
(* validation refused for its structure always does.                        *)
THEOREM EvalAgrees == MachineSpec => []EvalAgreesWithValidate
  <1>1. MachineInit => Inv
    BY InitInv, Zenon
  <1>2. Inv /\ [MachineNext]_machineVars => Inv'
    BY NextInv, Zenon
  <1>3. Inv => EvalAgreesWithValidate
    BY Zenon DEF Inv
  <1> QED BY <1>1, <1>2, <1>3, PTL DEF MachineSpec

(***************************************************************************)
(* What eval computes against what is read off the ops. Each is a           *)
(* recursion over the ops, unfolded by induction from the least element of  *)
(* a set of naturals.                                                       *)
(***************************************************************************)
(* A non-empty set of naturals has a least element.                         *)
LEMMA Least ==
    ASSUME NEW S \in SUBSET Nat, S # {}
    PROVE  \E n \in S : \A m \in S : n <= m
  <1> DEFINE Less == OpToRel(<, Nat)
  <1>1. IsWellFoundedOn(Less, Nat)
    BY NatLessThanWellFounded, Zenon
  <1>2. PICK n \in S : \A m \in S : <<m, n>> \notin Less
    BY <1>1, WFMin, Zenon
  <1>3. \A m \in S : ~(m < n)
    BY <1>2, Zenon DEF OpToRel
  <1> QED BY <1>3

(* Induction upwards.                                                       *)
LEMMA Induct ==
    ASSUME NEW N \in Nat, NEW S, 0 \in S, \A n \in 0..N - 1 : n \in S => n + 1 \in S
    PROVE  \A n \in 0..N : n \in S
  <1> DEFINE T == {n \in 0..N : n \notin S}
  <1> SUFFICES ASSUME T # {} PROVE FALSE
    BY Zenon
  <1>1. PICK n \in T : \A m \in T : n <= m
    <2>1. T \in SUBSET Nat
      OBVIOUS
    <2> HIDE DEF T
    <2> QED BY <2>1, Least, Zenon
  <1>2. n # 0
    BY <1>1, Zenon
  <1>3. n - 1 \in 0..N - 1 /\ n - 1 \notin T
    BY <1>1, <1>2
  <1> QED BY <1>1, <1>3

(* The verdicts All or Any passes through.                                  *)
FoldedFrom(op, popped) ==
    CHOOSE v : v = [k \in 0 .. Pops(op) |->
        IF k = 0 THEN Unit(op) ELSE Join(op, v[k - 1], popped[Pops(op) - k + 1])]

(* All and Any take in one verdict after the other.                         *)
LEMMA VerdictsDef ==
    ASSUME NEW op, Pops(op) \in Nat, NEW popped
    PROVE  LET at == FoldedFrom(op, popped)
           IN  at = [k \in 0 .. Pops(op) |-> IF k = 0 THEN Unit(op) ELSE Join(op, at[k - 1], popped[Pops(op) - k + 1])]
  <1> DEFINE Is(f, n) == f = [k \in 0 .. n |-> IF k = 0 THEN Unit(op) ELSE Join(op, f[k - 1], popped[Pops(op) - k + 1])]
             S == {n \in 0 .. Pops(op) : \E f : Is(f, n)}
  <1>0. Pops(op) \in Nat
    BY Zenon
  <1>1. 0 \in S
    <2>1. Is([k \in 0 .. 0 |-> Unit(op)], 0)
      OBVIOUS
    <2>2. 0 \in 0 .. Pops(op)
      BY <1>0
    <2> HIDE DEF Is
    <2> QED BY <2>1, <2>2, Zenon
  <1>2. ASSUME NEW n \in 0 .. Pops(op) - 1, n \in S PROVE n + 1 \in S
    <2>1. PICK f : Is(f, n)
      BY <1>2, Zenon
    <2> DEFINE g == [k \in 0 .. n + 1 |-> IF k = n + 1 THEN Join(op, f[n], popped[Pops(op) - (n + 1) + 1]) ELSE f[k]]
    <2>2. Is(g, n + 1)
      <3>1. ASSUME NEW k \in 0 .. n + 1
            PROVE  g[k] = IF k = 0 THEN Unit(op) ELSE Join(op, g[k - 1], popped[Pops(op) - k + 1])
        <4>1. CASE k = n + 1
          <5>1. k # 0 /\ k - 1 = n /\ n \in 0 .. n + 1 /\ n # n + 1
            BY <4>1
          <5>2. g[k] = Join(op, f[n], popped[Pops(op) - k + 1]) /\ g[k - 1] = f[n]
            BY <4>1, <5>1, Zenon
          <5> QED BY <5>1, <5>2, Zenon
        <4>2. CASE k # n + 1
          <5>1. k \in 0 .. n /\ (k # 0 => k - 1 \in 0 .. n + 1 /\ k - 1 # n + 1)
            BY <4>2
          <5>2. f[k] = IF k = 0 THEN Unit(op) ELSE Join(op, f[k - 1], popped[Pops(op) - k + 1])
            BY <2>1, <5>1, Zenon
          <5>3. g[k] = f[k] /\ (k # 0 => g[k - 1] = f[k - 1])
            BY <4>2, <5>1, Zenon
          <5> QED BY <5>2, <5>3, Zenon
        <4> QED BY <4>1, <4>2, Zenon
      <3>2. g = [k \in 0 .. n + 1 |-> g[k]]
        BY Zenon
      <3> HIDE DEF g
      <3> QED BY <3>1, <3>2, Zenon
    <2>3. n + 1 \in 0 .. Pops(op)
      BY <1>0
    <2> HIDE DEF Is
    <2> QED BY <2>2, <2>3, Zenon
  <1>3. Pops(op) \in S
    <2>1. Pops(op) \in 0 .. Pops(op)
      BY <1>0
    <2> HIDE DEF S
    <2>2. \A n \in 0 .. Pops(op) : n \in S
      BY <1>0, <1>1, <1>2, Induct, Zenon
    <2> QED BY <2>1, <2>2, Zenon
  <1> QED BY <1>3, Zenon DEF FoldedFrom

(* The whole of eval pushes one op after the other.                         *)
LEMMA StacksDef ==
    ASSUME NEW ops \in Seq(Ops), NEW in
    PROVE  LET at == Stacks(ops, in)
           IN  at = [k \in 0 .. Len(ops) |-> IF k = 0 THEN <<>> ELSE Pushed(at[k - 1], ops[k], in)]
  <1> DEFINE Is(f, n) == f = [k \in 0 .. n |-> IF k = 0 THEN <<>> ELSE Pushed(f[k - 1], ops[k], in)]
             S == {n \in 0 .. Len(ops) : \E f : Is(f, n)}
  <1>0. Len(ops) \in Nat
    OBVIOUS
  <1>1. 0 \in S
    <2>1. Is([k \in 0 .. 0 |-> <<>>], 0)
      OBVIOUS
    <2>2. 0 \in 0 .. Len(ops)
      BY <1>0
    <2> HIDE DEF Is
    <2> QED BY <2>1, <2>2, Zenon
  <1>2. ASSUME NEW n \in 0 .. Len(ops) - 1, n \in S PROVE n + 1 \in S
    <2>1. PICK f : Is(f, n)
      BY <1>2, Zenon
    <2> DEFINE g == [k \in 0 .. n + 1 |-> IF k = n + 1 THEN Pushed(f[n], ops[n + 1], in) ELSE f[k]]
    <2>2. Is(g, n + 1)
      BY <1>0, <2>1
    <2>3. n + 1 \in 0 .. Len(ops)
      BY <1>0
    <2> HIDE DEF Is
    <2> QED BY <2>2, <2>3, Zenon
  <1>3. Len(ops) \in S
    <2>1. Len(ops) \in 0 .. Len(ops)
      BY <1>0
    <2> HIDE DEF S
    <2>2. \A n \in 0 .. Len(ops) : n \in S
      BY <1>0, <1>1, <1>2, Induct, Zenon
    <2> QED BY <2>1, <2>2, Zenon
  <1> QED BY <1>3, Zenon DEF Stacks

(* program_bounds takes one op after the other.                             *)
LEMMA BoundsDef ==
    ASSUME NEW ops \in Seq(Ops)
    PROVE  LET at == Bounds(ops)
           IN  at = [k \in 0 .. Len(ops) |-> IF k = 0 THEN [depth |-> 0, peak |-> 0] ELSE Deeper(at[k - 1], ops[k])]
  <1> DEFINE Is(f, n) == f = [k \in 0 .. n |-> IF k = 0 THEN [depth |-> 0, peak |-> 0] ELSE Deeper(f[k - 1], ops[k])]
             S == {n \in 0 .. Len(ops) : \E f : Is(f, n)}
  <1>0. Len(ops) \in Nat
    OBVIOUS
  <1>1. 0 \in S
    <2>1. Is([k \in 0 .. 0 |-> [depth |-> 0, peak |-> 0]], 0)
      OBVIOUS
    <2>2. 0 \in 0 .. Len(ops)
      BY <1>0
    <2> HIDE DEF Is
    <2> QED BY <2>1, <2>2, Zenon
  <1>2. ASSUME NEW n \in 0 .. Len(ops) - 1, n \in S PROVE n + 1 \in S
    <2>1. PICK f : Is(f, n)
      BY <1>2, Zenon
    <2> DEFINE g == [k \in 0 .. n + 1 |-> IF k = n + 1 THEN Deeper(f[n], ops[n + 1]) ELSE f[k]]
    <2>2. Is(g, n + 1)
      BY <1>0, <2>1
    <2>3. n + 1 \in 0 .. Len(ops)
      BY <1>0
    <2> HIDE DEF Is
    <2> QED BY <2>2, <2>3, Zenon
  <1>3. Len(ops) \in S
    <2>1. Len(ops) \in 0 .. Len(ops)
      BY <1>0
    <2> HIDE DEF S
    <2>2. \A n \in 0 .. Len(ops) : n \in S
      BY <1>0, <1>1, <1>2, Induct, Zenon
    <2> QED BY <2>1, <2>2, Zenon
  <1> QED BY <1>3, Zenon DEF Bounds

(* max_verdict takes one op after the other.                                *)
LEMMA IntervalsDef ==
    ASSUME NEW ops \in Seq(Ops)
    PROVE  LET at == Intervals(ops)
           IN  at = [k \in 0 .. Len(ops) |-> IF k = 0 THEN [ok |-> TRUE, stack |-> <<>>] ELSE Bracketed(at[k - 1], ops[k])]
  <1> DEFINE Is(f, n) == f = [k \in 0 .. n |-> IF k = 0 THEN [ok |-> TRUE, stack |-> <<>>] ELSE Bracketed(f[k - 1], ops[k])]
             S == {n \in 0 .. Len(ops) : \E f : Is(f, n)}
  <1>0. Len(ops) \in Nat
    OBVIOUS
  <1>1. 0 \in S
    <2>1. Is([k \in 0 .. 0 |-> [ok |-> TRUE, stack |-> <<>>]], 0)
      OBVIOUS
    <2>2. 0 \in 0 .. Len(ops)
      BY <1>0
    <2> HIDE DEF Is
    <2> QED BY <2>1, <2>2, Zenon
  <1>2. ASSUME NEW n \in 0 .. Len(ops) - 1, n \in S PROVE n + 1 \in S
    <2>1. PICK f : Is(f, n)
      BY <1>2, Zenon
    <2> DEFINE g == [k \in 0 .. n + 1 |-> IF k = n + 1 THEN Bracketed(f[n], ops[n + 1]) ELSE f[k]]
    <2>2. Is(g, n + 1)
      <3>1. ASSUME NEW k \in 0 .. n + 1
            PROVE  g[k] = IF k = 0 THEN [ok |-> TRUE, stack |-> <<>>] ELSE Bracketed(g[k - 1], ops[k])
        <4>1. CASE k = n + 1
          <5>1. k # 0 /\ k - 1 = n /\ n \in 0 .. n + 1 /\ n # n + 1
            BY <4>1
          <5>2. g[k] = Bracketed(f[n], ops[k]) /\ g[k - 1] = f[n]
            BY <4>1, <5>1, Zenon
          <5> QED BY <5>1, <5>2, Zenon
        <4>2. CASE k # n + 1
          <5>1. k \in 0 .. n /\ (k # 0 => k - 1 \in 0 .. n + 1 /\ k - 1 # n + 1)
            BY <4>2
          <5>2. f[k] = IF k = 0 THEN [ok |-> TRUE, stack |-> <<>>] ELSE Bracketed(f[k - 1], ops[k])
            BY <2>1, <5>1, Zenon
          <5>3. g[k] = f[k] /\ (k # 0 => g[k - 1] = f[k - 1])
            BY <4>2, <5>1, Zenon
          <5> QED BY <5>2, <5>3, Zenon
        <4> QED BY <4>1, <4>2, Zenon
      <3>2. g = [k \in 0 .. n + 1 |-> g[k]]
        BY Zenon
      <3> HIDE DEF g
      <3> QED BY <3>1, <3>2, Zenon
    <2>3. n + 1 \in 0 .. Len(ops)
      BY <1>0
    <2> HIDE DEF Is
    <2> QED BY <2>2, <2>3, Zenon
  <1>3. Len(ops) \in S
    <2>1. Len(ops) \in 0 .. Len(ops)
      BY <1>0
    <2> HIDE DEF S
    <2>2. \A n \in 0 .. Len(ops) : n \in S
      BY <1>0, <1>1, <1>2, Induct, Zenon
    <2> QED BY <2>1, <2>2, Zenon
  <1> QED BY <1>3, Zenon DEF Intervals

(***************************************************************************)
(* Verdicts in two orders: the one And and Or are taken in, and the one in  *)
(* which Unknown may still become anything.                                 *)
(***************************************************************************)
Below == {r \in Verdicts \X Verdicts : r[1] <= r[2]}

Decided == {r \in Verdicts \X Verdicts : r[1] \in {Unknown, r[2]}}

(* Below is the order of the integers the verdicts are modelled by.         *)
LEMMA BelowIs ==
    ASSUME NEW a, NEW b
    PROVE  <<a, b>> \in Below <=> a \in Verdicts /\ b \in Verdicts /\ a <= b
  BY DEF Below

(* A verdict once decided stays.                                            *)
LEMMA DecidedIs ==
    ASSUME NEW a, NEW b
    PROVE  <<a, b>> \in Decided <=> a \in Verdicts /\ b \in Verdicts /\ a \in {Unknown, b}
  BY DEF Decided

(* Both orders hold of what All and Any start from and survive And and Or.  *)
LEMMA JoinBelow ==
    ASSUME NEW op, NEW a, NEW b, NEW c, NEW d, <<a, b>> \in Below, <<c, d>> \in Below
    PROVE  <<Join(op, a, c), Join(op, b, d)>> \in Below
  <1>1. a \in Verdicts /\ b \in Verdicts /\ c \in Verdicts /\ d \in Verdicts /\ a <= b /\ c <= d
    BY BelowIs, Zenon
  <1> SUFFICES /\ Join(op, a, c) \in Verdicts /\ Join(op, b, d) \in Verdicts
               /\ Join(op, a, c) <= Join(op, b, d)
    BY BelowIs, Zenon
  <1> QED BY <1>1 DEF Join, And, Or, Verdicts, True, False, Unknown

(* And the second order survives And and Or too.                            *)
LEMMA JoinDecided ==
    ASSUME NEW op, NEW a, NEW b, NEW c, NEW d, <<a, b>> \in Decided, <<c, d>> \in Decided
    PROVE  <<Join(op, a, c), Join(op, b, d)>> \in Decided
  <1>1. /\ a \in Verdicts /\ b \in Verdicts /\ c \in Verdicts /\ d \in Verdicts
        /\ a \in {Unknown, b} /\ c \in {Unknown, d}
    BY DecidedIs, Zenon
  <1> SUFFICES /\ Join(op, a, c) \in Verdicts /\ Join(op, b, d) \in Verdicts
               /\ Join(op, a, c) \in {Unknown, Join(op, b, d)}
    BY DecidedIs, Zenon
  <1> QED BY <1>1 DEF Join, And, Or, Verdicts, True, False, Unknown

(* All starts from True and Any from False, in both orders the same.        *)
LEMMA UnitRelated ==
    ASSUME NEW op
    PROVE  <<Unit(op), Unit(op)>> \in Below /\ <<Unit(op), Unit(op)>> \in Decided
  <1>1. Unit(op) \in Verdicts /\ Unit(op) <= Unit(op)
    BY DEF Unit, Verdicts, True, False
  <1> QED BY <1>1, BelowIs, DecidedIs, Zenon

(* A relation the verdicts popped are in, one by one, holds of what All     *)
(* and Any make of them.                                                    *)
LEMMA FoldedRelated ==
    ASSUME NEW op, Pops(op) \in Nat, NEW p, NEW q, NEW R,
           <<Unit(op), Unit(op)>> \in R,
           \A a, b, c, d : <<a, b>> \in R /\ <<c, d>> \in R => <<Join(op, a, c), Join(op, b, d)>> \in R,
           \A k \in 1 .. Pops(op) : <<p[k], q[k]>> \in R
    PROVE  <<Folded(op, p), Folded(op, q)>> \in R
  <1> DEFINE v == FoldedFrom(op, p)
             w == FoldedFrom(op, q)
             S == {k \in 0 .. Pops(op) : <<v[k], w[k]>> \in R}
  <1>1. /\ v = [k \in 0 .. Pops(op) |-> IF k = 0 THEN Unit(op) ELSE Join(op, v[k - 1], p[Pops(op) - k + 1])]
        /\ w = [k \in 0 .. Pops(op) |-> IF k = 0 THEN Unit(op) ELSE Join(op, w[k - 1], q[Pops(op) - k + 1])]
    BY VerdictsDef, Zenon
  <1>2. Folded(op, p) = v[Pops(op)] /\ Folded(op, q) = w[Pops(op)]
    BY Zenon DEF Folded, FoldedFrom
  <1> HIDE DEF v, w
  <1>3. 0 \in S
    <2>1. v[0] = Unit(op) /\ w[0] = Unit(op) /\ 0 \in 0 .. Pops(op)
      BY <1>1
    <2> QED BY <2>1, Zenon
  <1>4. ASSUME NEW k \in 0 .. Pops(op) - 1, k \in S PROVE k + 1 \in S
    <2>1. /\ v[k + 1] = Join(op, v[k], p[Pops(op) - k]) /\ w[k + 1] = Join(op, w[k], q[Pops(op) - k])
          /\ k + 1 \in 0 .. Pops(op) /\ Pops(op) - k \in 1 .. Pops(op)
      BY <1>1
    <2>2. <<v[k], w[k]>> \in R /\ <<p[Pops(op) - k], q[Pops(op) - k]>> \in R
      BY <1>4, <2>1, Zenon
    <2> QED BY <2>1, <2>2, Zenon
  <1>5. \A k \in 0 .. Pops(op) : k \in S
    <2> HIDE DEF S
    <2> QED BY <1>3, <1>4, Induct, Zenon
  <1>6. Pops(op) \in 0 .. Pops(op)
    OBVIOUS
  <1> QED BY <1>2, <1>5, <1>6, Zenon

(***************************************************************************)
(* One op.                                                                  *)
(***************************************************************************)
IsLeafOp(op) == ~Fold(op) /\ op.op # "Not"

(* How many verdicts the kinds of op pop.                                   *)
LEMMA OpFacts ==
    ASSUME NEW op \in Ops
    PROVE  /\ Pops(op) \in Nat
           /\ op.op = "Not" => Pops(op) = 1 /\ ~Fold(op)
           /\ IsLeafOp(op) => Pops(op) = 0
           /\ Fold(op) => op.op # "Not" /\ Pops(op) = op.n
  BY OpsAssumption, Zenon DEF Pops, Fold, IsLeafOp

(* A leaf has a verdict, whatever decodes.                                  *)
LEMMA LeafVerdict ==
    ASSUME NEW op \in Ops, IsLeafOp(op), NEW in
    PROVE  Leaf(op, in) \in Verdicts
  <1>0. op.op \in OpNames
    BY OpsAssumption, Zenon
  <1>1. \A i, t, w : ArgEq(in, i, t, w) \in Verdicts
    BY Zenon DEF ArgEq, Truth, Verdicts
  <1>2. \A i, x : ArgStrIn(in, i, x) \in Verdicts /\ ArgStrPrefix(in, i, x) \in Verdicts
    BY Zenon DEF ArgStrIn, ArgStrPrefix, Truth, Verdicts
  <1>3. \A x : FnIn(in, x) \in Verdicts /\ ArgCount(in, x) \in Verdicts
    BY Zenon DEF FnIn, ArgCount, Truth, Verdicts
  <1>4. Truth(in.signerCount >= op.n) \in Verdicts /\ Truth(in.ledger < op.n) \in Verdicts
        /\ Truth(in.ledger >= op.n) \in Verdicts
    BY Zenon DEF Truth, Verdicts
  <1> QED BY <1>0, <1>1, <1>2, <1>3, <1>4, Zenon DEF Leaf, IsLeafOp, Fold, OpNames

(* Negation turns the first order around and keeps the second.              *)
LEMMA NegateBelow ==
    ASSUME NEW a, NEW b, <<a, b>> \in Below
    PROVE  <<Negate(b), Negate(a)>> \in Below
  <1>1. a \in Verdicts /\ b \in Verdicts /\ a <= b
    BY BelowIs, Zenon
  <1>2. Negate(a) \in Verdicts /\ Negate(b) \in Verdicts /\ Negate(b) <= Negate(a)
    BY <1>1 DEF Negate, Verdicts, True, False, Unknown
  <1> QED BY <1>2, BelowIs, Zenon

(* What is decided is decided the same after a negation.                    *)
LEMMA NegateDecided ==
    ASSUME NEW a, NEW b, <<a, b>> \in Decided
    PROVE  <<Negate(a), Negate(b)>> \in Decided
  <1>1. a \in Verdicts /\ b \in Verdicts /\ a \in {Unknown, b}
    BY DecidedIs, Zenon
  <1>2. Negate(a) \in Verdicts /\ Negate(b) \in Verdicts /\ Negate(a) \in {Unknown, Negate(b)}
    BY <1>1 DEF Negate, Verdicts, True, False, Unknown
  <1> QED BY <1>2, DecidedIs, Zenon

(* What an op makes of verdicts that only decide more, decides no           *)
(* differently.                                                             *)
LEMMA ApplyDecided ==
    ASSUME NEW op \in Ops, NEW p, NEW q, NEW in, NEW in2,
           Pops(op) = 0 => Leaf(op, in) \in {Unknown, Leaf(op, in2)},
           \A k \in 1 .. Pops(op) : <<p[k], q[k]>> \in Decided
    PROVE  <<Apply(op, p, in), Apply(op, q, in2)>> \in Decided
  <1>0. Pops(op) \in Nat
    BY OpFacts, Zenon
  <1>1. CASE Fold(op)
    <2>1. Apply(op, p, in) = Folded(op, p) /\ Apply(op, q, in2) = Folded(op, q)
      BY <1>1, OpFacts, Zenon DEF Apply
    <2>2. \A a, b, c, d : <<a, b>> \in Decided /\ <<c, d>> \in Decided
                            => <<Join(op, a, c), Join(op, b, d)>> \in Decided
      BY JoinDecided, Zenon
    <2> QED BY <1>0, <2>1, <2>2, UnitRelated, FoldedRelated, Zenon
  <1>2. CASE op.op = "Not"
    <2>1. Apply(op, p, in) = Negate(p[1]) /\ Apply(op, q, in2) = Negate(q[1])
      BY <1>2, OpFacts, Zenon DEF Apply
    <2>2. <<p[1], q[1]>> \in Decided
      <3>1. Pops(op) = 1
        BY <1>2, OpFacts, Zenon
      <3>2. 1 \in 1 .. Pops(op)
        BY <3>1
      <3> QED BY <3>2, Zenon
    <2> QED BY <2>1, <2>2, NegateDecided, Zenon
  <1>3. CASE IsLeafOp(op)
    <2>1. Apply(op, p, in) = Leaf(op, in) /\ Apply(op, q, in2) = Leaf(op, in2)
      BY <1>3, Zenon DEF Apply, IsLeafOp
    <2>2. Leaf(op, in) \in {Unknown, Leaf(op, in2)}
      BY <1>3, OpFacts, Zenon
    <2> QED BY <1>3, <2>1, <2>2, LeafVerdict, DecidedIs, Zenon
  <1> QED BY <1>1, <1>2, <1>3, Zenon DEF IsLeafOp

(* v lies within the interval i.                                            *)
Inside(v, i) == <<i[1], v>> \in Below /\ <<v, i[2]>> \in Below

(* A leaf's verdict lies within its interval, for every input.              *)
LEMMA LeafInside ==
    ASSUME NEW op \in Ops, IsLeafOp(op), NEW in \in Inputs
    PROVE  Inside(Leaf(op, in), LeafInterval(op)) /\ LeafInterval(op) \in Verdicts \X Verdicts
  <1>0. LeafInterval(op) \in Verdicts \X Verdicts
    BY DEF LeafInterval, Verdicts
  <1>1. ASSUME NEW v \in Verdicts PROVE Inside(v, <<False, True>>)
    <2>1. False \in Verdicts /\ True \in Verdicts /\ False <= v /\ v <= True
      BY DEF Verdicts, False, True, Unknown
    <2>2. <<False, True>>[1] = False /\ <<False, True>>[2] = True
      OBVIOUS
    <2> QED BY <2>1, <2>2, BelowIs, Zenon DEF Inside
  <1>2. ASSUME NEW v \in Verdicts PROVE Inside(v, <<v, v>>)
    <2>1. v <= v
      BY DEF Verdicts, False, True, Unknown
    <2>2. <<v, v>>[1] = v /\ <<v, v>>[2] = v
      OBVIOUS
    <2> QED BY <2>1, <2>2, BelowIs, Zenon DEF Inside
  <1>3. CASE op.op = "MinSigners" /\ op.n = 0
    <2>1. in.signerCount \in Nat
      BY InputsAssumption, Zenon
    <2>2. in.signerCount >= op.n
      BY <1>3, <2>1
    <2>3. Leaf(op, in) = True
      BY <1>3, <2>2, Zenon DEF Leaf, Truth
    <2>4. LeafInterval(op) = <<True, True>> /\ True \in Verdicts
      BY <1>3, Zenon DEF LeafInterval, Verdicts
    <2> QED BY <1>0, <1>2, <2>3, <2>4, Zenon
  <1>4. CASE op.op = "LedgerBefore" /\ op.n = 0
    <2>1. in.ledger \in Nat
      BY InputsAssumption, Zenon
    <2>2. ~(in.ledger < op.n)
      BY <1>4, <2>1
    <2>3. Leaf(op, in) = False
      BY <1>4, <2>2, Zenon DEF Leaf, Truth
    <2>4. LeafInterval(op) = <<False, False>> /\ False \in Verdicts
      BY <1>4, Zenon DEF LeafInterval, Verdicts
    <2> QED BY <1>0, <1>2, <2>3, <2>4, Zenon
  <1>5. CASE ~(op.op = "MinSigners" /\ op.n = 0) /\ ~(op.op = "LedgerBefore" /\ op.n = 0)
    <2>1. LeafInterval(op) = <<False, True>>
      BY <1>5, Zenon DEF LeafInterval
    <2> QED BY <1>0, <1>1, <2>1, LeafVerdict, Zenon
  <1> QED BY <1>3, <1>4, <1>5, Zenon

(* What an op makes of verdicts within intervals lies within what           *)
(* max_verdict makes of the intervals.                                      *)
LEMMA ApplyInside ==
    ASSUME NEW op \in Ops, NEW in \in Inputs, NEW p, NEW i,
           DOMAIN i = 1 .. Pops(op),
           \A k \in 1 .. Pops(op) : Inside(p[k], i[k])
    PROVE  Inside(Apply(op, p, in), Interval(op, i)) /\ Interval(op, i) \in Verdicts \X Verdicts
  <1>0. Pops(op) \in Nat
    BY OpFacts, Zenon
  <1>1. CASE Fold(op)
    <2> DEFINE lo == Folded(op, Lows(i))
               hi == Folded(op, Highs(i))
    <2>1. Apply(op, p, in) = Folded(op, p) /\ Interval(op, i) = <<lo, hi>>
      BY <1>1, OpFacts, Zenon DEF Apply, Interval
    <2>2. \A a, b, c, d : <<a, b>> \in Below /\ <<c, d>> \in Below
                            => <<Join(op, a, c), Join(op, b, d)>> \in Below
      BY JoinBelow, Zenon
    <2>3. \A k \in 1 .. Pops(op) : <<Lows(i)[k], p[k]>> \in Below /\ <<p[k], Highs(i)[k]>> \in Below
      BY Zenon DEF Lows, Highs, Inside
    <2>4. <<lo, Folded(op, p)>> \in Below /\ <<Folded(op, p), hi>> \in Below
      BY <1>0, <2>2, <2>3, UnitRelated, FoldedRelated, Zenon
    <2> HIDE DEF lo, hi
    <2>5. lo \in Verdicts /\ hi \in Verdicts
      BY <2>4, BelowIs, Zenon
    <2>6. <<lo, hi>>[1] = lo /\ <<lo, hi>>[2] = hi /\ <<lo, hi>> \in Verdicts \X Verdicts
      BY <2>5
    <2> QED BY <2>1, <2>4, <2>6, Zenon DEF Inside
  <1>2. CASE op.op = "Not"
    <2> DEFINE lo == Negate(i[1][2])
               hi == Negate(i[1][1])
    <2>1. Apply(op, p, in) = Negate(p[1]) /\ Interval(op, i) = <<lo, hi>>
      BY <1>2, OpFacts, Zenon DEF Apply, Interval
    <2>2. Inside(p[1], i[1])
      <3>1. Pops(op) = 1
        BY <1>2, OpFacts, Zenon
      <3>2. 1 \in 1 .. Pops(op)
        BY <3>1
      <3> QED BY <3>2, Zenon
    <2>3. <<lo, Negate(p[1])>> \in Below /\ <<Negate(p[1]), hi>> \in Below
      BY <2>2, NegateBelow, Zenon DEF Inside
    <2> HIDE DEF lo, hi
    <2>4. lo \in Verdicts /\ hi \in Verdicts
      BY <2>3, BelowIs, Zenon
    <2>5. <<lo, hi>>[1] = lo /\ <<lo, hi>>[2] = hi /\ <<lo, hi>> \in Verdicts \X Verdicts
      BY <2>4
    <2> QED BY <2>1, <2>3, <2>5, Zenon DEF Inside
  <1>3. CASE IsLeafOp(op)
    <2>1. Apply(op, p, in) = Leaf(op, in) /\ Interval(op, i) = LeafInterval(op)
      BY <1>3, Zenon DEF Apply, Interval, IsLeafOp
    <2> QED BY <1>3, <2>1, LeafInside, Zenon
  <1> QED BY <1>1, <1>2, <1>3, Zenon DEF IsLeafOp

(* t is what op pops off the stack s.                                       *)
IsPopped(s, op, t) ==
    /\ DOMAIN t = 1 .. Pops(op)
    /\ \A k \in 1 .. Pops(op) : t[k] = s[Len(s) - Pops(op) + k]

(* t is the stack s of values V once op has popped and pushed x.            *)
IsPushed(s, op, x, V, t) ==
    /\ t \in Seq(V)
    /\ Len(t) = Len(s) - Pops(op) + 1
    /\ t[Len(s) - Pops(op) + 1] = x
    /\ \A k \in 1 .. Len(s) - Pops(op) : t[k] = s[k]

(* Popping takes the top of the stack.                                      *)
LEMMA PopFacts ==
    ASSUME NEW V, NEW s \in Seq(V), NEW op \in Ops, Pops(op) <= Len(s)
    PROVE  IsPopped(s, op, Popped(s, op))
  <1>0. Pops(op) \in Nat /\ Len(s) \in Nat
    BY OpFacts
  <1> DEFINE n == Len(s) - Pops(op)
             t == SubSeq(s, n + 1, Len(s))
  <1>1. t \in Seq(V) /\ Len(t) = Pops(op) /\ \A k \in 1 .. Pops(op) : t[k] = s[n + k]
    BY <1>0
  <1>2. Popped(s, op) = t
    BY Zenon DEF Popped
  <1> HIDE DEF t
  <1>3. DOMAIN t = 1 .. Pops(op)
    BY <1>1
  <1> QED BY <1>1, <1>2, <1>3, Zenon DEF IsPopped

(* Pushing leaves what is below as it was.                                  *)
LEMMA PushFacts ==
    ASSUME NEW V, NEW s \in Seq(V), NEW op \in Ops, Pops(op) <= Len(s), NEW x \in V
    PROVE  IsPushed(s, op, x, V, Append(Rest(s, op), x))
  <1>0. Pops(op) \in Nat /\ Len(s) \in Nat
    BY OpFacts
  <1> DEFINE n == Len(s) - Pops(op)
             r == SubSeq(s, 1, n)
  <1>1. r \in Seq(V) /\ Len(r) = n /\ \A k \in 1 .. n : r[k] = s[k]
    BY <1>0
  <1>2. Rest(s, op) = r
    BY Zenon DEF Rest
  <1> HIDE DEF r
  <1>3. /\ Append(r, x) \in Seq(V) /\ Len(Append(r, x)) = n + 1
        /\ Append(r, x)[n + 1] = x
        /\ \A k \in 1 .. n : Append(r, x)[k] = s[k]
    BY <1>0, <1>1
  <1> QED BY <1>2, <1>3, Zenon DEF IsPushed

(***************************************************************************)
(* The invariant: eval's stack against the stack of every input that        *)
(* agrees, the stack of intervals and the bounds, after as many ops.        *)
(***************************************************************************)
Agrees(in) ==
    \A i \in 1 .. Length :
        Pops(program.ops[i]) = 0 =>
            Leaf(program.ops[i], inputs) \in {Unknown, Leaf(program.ops[i], in)}

Typed ==
    /\ idx \in 0 .. Length /\ sp \in 0 .. MaxStackDepth
    /\ stack \in [1 .. MaxStackDepth -> Verdicts]
    /\ pc \in {"eval", "done"} => inputs \in Inputs

Measured == Bounds(program.ops)[idx] = [depth |-> sp, peak |-> peak]

(* A stack of intervals that holds the verdicts below the top of st.        *)
Holds(s, st, top) ==
    /\ s.ok /\ DOMAIN s = {"ok", "stack"}
    /\ s.stack \in Seq(Verdicts \X Verdicts) /\ Len(s.stack) = top
    /\ \A k \in 1 .. top : Inside(st[k], s.stack[k])

Within == Holds(Intervals(program.ops)[idx], stack, sp)

(* A stack that decides more than st does below its top.                    *)
DecidesMore(s, st, top) ==
    /\ s \in Seq(Verdicts) /\ Len(s) = top
    /\ \A k \in 1 .. top : <<st[k], s[k]>> \in Decided

Refining ==
    pc \in {"eval", "done"} /\ error = Nil =>
        \A in \in Inputs : Agrees(in) => DecidesMore(Stacks(program.ops, in)[idx], stack, sp)

Returned ==
    /\ pc \in {"validate", "refused", "installed"} => idx = 0 /\ sp = 0 /\ peak = 0
    /\ pc # "done" \/ gaveUp => verdict = Unknown
    /\ pc = "done" /\ ~gaveUp => idx = Length /\ sp = 1 /\ verdict = stack[1]

StaticInv == Typed /\ Measured /\ Within /\ Refining /\ Returned

(* The recursions at their start.                                           *)
LEMMA Starts ==
    ASSUME NEW ops \in Seq(Ops)
    PROVE  /\ Bounds(ops)[0] = [depth |-> 0, peak |-> 0]
           /\ Intervals(ops)[0] = [ok |-> TRUE, stack |-> <<>>]
           /\ \A in : Stacks(ops, in)[0] = <<>>
  <1>1. 0 \in 0 .. Len(ops)
    OBVIOUS
  <1>2. Bounds(ops)[0] = [depth |-> 0, peak |-> 0]
    <2> DEFINE at == Bounds(ops)
    <2>1. at = [k \in 0 .. Len(ops) |-> IF k = 0 THEN [depth |-> 0, peak |-> 0] ELSE Deeper(at[k - 1], ops[k])]
      BY BoundsDef, Zenon
    <2> HIDE DEF at
    <2>2. at[0] = [depth |-> 0, peak |-> 0]
      BY <1>1, <2>1, Zenon
    <2> QED BY <2>2, Zenon DEF at
  <1>3. Intervals(ops)[0] = [ok |-> TRUE, stack |-> <<>>]
    <2> DEFINE at == Intervals(ops)
    <2>1. at = [k \in 0 .. Len(ops) |-> IF k = 0 THEN [ok |-> TRUE, stack |-> <<>>] ELSE Bracketed(at[k - 1], ops[k])]
      BY IntervalsDef, Zenon
    <2> HIDE DEF at
    <2>2. at[0] = [ok |-> TRUE, stack |-> <<>>]
      BY <1>1, <2>1, Zenon
    <2> QED BY <2>2, Zenon DEF at
  <1>4. ASSUME NEW in PROVE Stacks(ops, in)[0] = <<>>
    <2> DEFINE at == Stacks(ops, in)
    <2>1. at = [k \in 0 .. Len(ops) |-> IF k = 0 THEN <<>> ELSE Pushed(at[k - 1], ops[k], in)]
      BY StacksDef, Zenon
    <2> HIDE DEF at
    <2>2. at[0] = <<>>
      BY <1>1, <2>1, Zenon
    <2> QED BY <2>2, Zenon DEF at
  <1> QED BY <1>2, <1>3, <1>4, Zenon

(* The recursions over one more op.                                         *)
LEMMA Steps ==
    ASSUME NEW ops \in Seq(Ops), NEW n \in 0 .. Len(ops) - 1
    PROVE  /\ Bounds(ops)[n + 1] = Deeper(Bounds(ops)[n], ops[n + 1])
           /\ Intervals(ops)[n + 1] = Bracketed(Intervals(ops)[n], ops[n + 1])
           /\ \A in : Stacks(ops, in)[n + 1] = Pushed(Stacks(ops, in)[n], ops[n + 1], in)
  <1>1. n + 1 \in 0 .. Len(ops) /\ n + 1 # 0 /\ (n + 1) - 1 = n
    OBVIOUS
  <1>2. Bounds(ops)[n + 1] = Deeper(Bounds(ops)[n], ops[n + 1])
    <2> DEFINE at == Bounds(ops)
    <2>1. at = [k \in 0 .. Len(ops) |-> IF k = 0 THEN [depth |-> 0, peak |-> 0] ELSE Deeper(at[k - 1], ops[k])]
      BY BoundsDef, Zenon
    <2> HIDE DEF at
    <2>2. at[n + 1] = Deeper(at[n], ops[n + 1])
      BY <1>1, <2>1, Zenon
    <2> QED BY <2>2, Zenon DEF at
  <1>3. Intervals(ops)[n + 1] = Bracketed(Intervals(ops)[n], ops[n + 1])
    <2> DEFINE at == Intervals(ops)
    <2>1. at = [k \in 0 .. Len(ops) |-> IF k = 0 THEN [ok |-> TRUE, stack |-> <<>>] ELSE Bracketed(at[k - 1], ops[k])]
      BY IntervalsDef, Zenon
    <2> HIDE DEF at
    <2>2. at[n + 1] = Bracketed(at[n], ops[n + 1])
      BY <1>1, <2>1, Zenon
    <2> QED BY <2>2, Zenon DEF at
  <1>4. ASSUME NEW in PROVE Stacks(ops, in)[n + 1] = Pushed(Stacks(ops, in)[n], ops[n + 1], in)
    <2> DEFINE at == Stacks(ops, in)
    <2>1. at = [k \in 0 .. Len(ops) |-> IF k = 0 THEN <<>> ELSE Pushed(at[k - 1], ops[k], in)]
      BY StacksDef, Zenon
    <2> HIDE DEF at
    <2>2. at[n + 1] = Pushed(at[n], ops[n + 1], in)
      BY <1>1, <2>1, Zenon
    <2> QED BY <2>2, Zenon DEF at
  <1> QED BY <1>2, <1>3, <1>4, Zenon

(* The empty stack is held by the empty one of intervals, and decides as    *)
(* much as the empty one.                                                   *)
LEMMA EmptyHolds ==
    ASSUME NEW st
    PROVE  Holds([ok |-> TRUE, stack |-> <<>>], st, 0) /\ DecidesMore(<<>>, st, 0)
  <1>1. Holds([ok |-> TRUE, stack |-> <<>>], st, 0)
    <2> DEFINE s == [ok |-> TRUE, stack |-> <<>>]
    <2>1. s.ok /\ DOMAIN s = {"ok", "stack"} /\ s.stack = <<>>
      OBVIOUS
    <2>2. <<>> \in Seq(Verdicts \X Verdicts) /\ Len(<<>>) = 0
      OBVIOUS
    <2>3. \A k \in 1 .. 0 : FALSE
      OBVIOUS
    <2> HIDE DEF s
    <2>4. Holds(s, st, 0)
      BY <2>1, <2>2, <2>3, Zenon DEF Holds
    <2> QED BY <2>4, Zenon DEF s
  <1>2. DecidesMore(<<>>, st, 0)
    BY DEF DecidesMore
  <1> QED BY <1>1, <1>2, Zenon

(***************************************************************************)
(* eval runs one op. st, top are its stack and st2, top2 the stack after:   *)
(* all the invariant needs of the step.                                     *)
(***************************************************************************)
Ran(op, st, top, st2, top2, in) ==
    /\ op \in Ops /\ top \in Nat /\ ~Stuck(op, top) /\ top2 = top - Pops(op) + 1
    /\ \A k \in 1 .. top - Pops(op) : st2[k] = st[k]
    /\ st2[top2] = Apply(op, [k \in 1 .. Pops(op) |-> st[top - Pops(op) + k]], in)

(* The stack of intervals goes on holding what eval pushes.                 *)
LEMMA HoldsStep ==
    ASSUME NEW op, NEW st, NEW top, NEW st2, NEW top2, NEW in \in Inputs, NEW s,
           Ran(op, st, top, st2, top2, in), Holds(s, st, top)
    PROVE  Holds(Bracketed(s, op), st2, top2)
  <1> DEFINE n == top - Pops(op)
             p == [k \in 1 .. Pops(op) |-> st[n + k]]
             i == Popped(s.stack, op)
             x == Interval(op, i)
  <1>0. /\ op \in Ops /\ top \in Nat /\ ~Stuck(op, top) /\ top2 = n + 1 /\ Pops(op) \in Nat
        /\ s.stack \in Seq(Verdicts \X Verdicts) /\ Len(s.stack) = top
    BY OpFacts, Zenon DEF Ran, Holds
  <1>1. n \in Nat /\ Pops(op) <= top /\ ~(top < Pops(op)) /\ ~(Fold(op) /\ op.n = 0)
    BY <1>0 DEF Stuck
  <1>2. /\ DOMAIN i = 1 .. Pops(op)
        /\ \A k \in 1 .. Pops(op) : i[k] = s.stack[n + k]
    <2>1. Pops(op) <= Len(s.stack)
      BY <1>0, <1>1, Zenon
    <2>2. IsPopped(s.stack, op, i)
      BY <1>0, <2>1, PopFacts, Zenon
    <2> HIDE DEF i
    <2> QED BY <1>0, <2>2, Zenon DEF IsPopped
  <1>3. \A k \in 1 .. Pops(op) : Inside(p[k], i[k])
    <2>1. ASSUME NEW k \in 1 .. Pops(op) PROVE n + k \in 1 .. top
      BY <1>0, <1>1
    <2> HIDE DEF n, i
    <2> QED BY <1>2, <2>1, Zenon DEF Holds
  <1>4. Inside(Apply(op, p, in), x) /\ x \in Verdicts \X Verdicts
    <2> HIDE DEF p, i
    <2> QED BY <1>0, <1>2, <1>3, ApplyInside, Zenon
  <1> DEFINE t == Append(Rest(s.stack, op), x)
  <1>5. /\ t \in Seq(Verdicts \X Verdicts) /\ Len(t) = n + 1 /\ t[n + 1] = x
        /\ \A k \in 1 .. n : t[k] = s.stack[k]
    <2> HIDE DEF x
    <2>1. x \in Verdicts \X Verdicts /\ Pops(op) <= Len(s.stack)
      BY <1>0, <1>1, <1>4, Zenon
    <2>2. IsPushed(s.stack, op, x, Verdicts \X Verdicts, t)
      BY <1>0, <2>1, PushFacts, Zenon
    <2> HIDE DEF t
    <2> QED BY <1>0, <2>2, Zenon DEF IsPushed
  <1>6. Bracketed(s, op) = [s EXCEPT !.stack = t]
    BY <1>0, <1>1, Zenon DEF Bracketed, Holds
  <1> HIDE DEF x, t
  <1>7. /\ Bracketed(s, op).ok /\ DOMAIN Bracketed(s, op) = {"ok", "stack"} /\ Bracketed(s, op).stack = t
    <2>1. s.ok /\ DOMAIN s = {"ok", "stack"}
      BY Zenon DEF Holds
    <2> QED BY <1>6, <2>1
  <1>8. ASSUME NEW k \in 1 .. n + 1 PROVE Inside(st2[k], t[k])
    <2>1. CASE k = n + 1
      <3>1. st2[n + 1] = Apply(op, p, in)
        BY <1>0, Zenon DEF Ran
      <3> QED BY <1>4, <1>5, <2>1, <3>1, Zenon
    <2>2. CASE k # n + 1
      <3>1. k \in 1 .. n /\ k \in 1 .. top
        BY <1>0, <1>1, <2>2
      <3>2. st2[k] = st[k] /\ t[k] = s.stack[k] /\ Inside(st[k], s.stack[k])
        BY <1>5, <3>1, Zenon DEF Ran, Holds
      <3> QED BY <3>2, Zenon
    <2> QED BY <2>1, <2>2, Zenon
  <1> HIDE DEF n
  <1> QED BY <1>0, <1>5, <1>7, <1>8, Zenon DEF Holds

(* The stack of an input that agrees goes on deciding what eval decided.    *)
LEMMA DecidesStep ==
    ASSUME NEW op, NEW st, NEW top, NEW st2, NEW top2, NEW in, NEW in2, NEW s,
           Ran(op, st, top, st2, top2, in), DecidesMore(s, st, top),
           Pops(op) = 0 => Leaf(op, in) \in {Unknown, Leaf(op, in2)}
    PROVE  DecidesMore(Pushed(s, op, in2), st2, top2)
  <1> DEFINE n == top - Pops(op)
             p == [k \in 1 .. Pops(op) |-> st[n + k]]
             q == Popped(s, op)
             x == Apply(op, q, in2)
  <1>0. /\ op \in Ops /\ top \in Nat /\ ~Stuck(op, top) /\ top2 = n + 1 /\ Pops(op) \in Nat
        /\ s \in Seq(Verdicts) /\ Len(s) = top
    BY OpFacts, Zenon DEF Ran, DecidesMore
  <1>1. n \in Nat /\ Pops(op) <= top
    BY <1>0 DEF Stuck
  <1>2. \A k \in 1 .. Pops(op) : q[k] = s[n + k]
    <2>1. Pops(op) <= Len(s)
      BY <1>0, <1>1, Zenon
    <2>2. IsPopped(s, op, q)
      BY <1>0, <2>1, PopFacts, Zenon
    <2> HIDE DEF q
    <2> QED BY <1>0, <2>2, Zenon DEF IsPopped
  <1>3. \A k \in 1 .. Pops(op) : <<p[k], q[k]>> \in Decided
    <2>1. ASSUME NEW k \in 1 .. Pops(op) PROVE n + k \in 1 .. top
      BY <1>0, <1>1
    <2> HIDE DEF n, q
    <2> QED BY <1>2, <2>1, Zenon DEF DecidesMore
  <1>4. <<Apply(op, p, in), x>> \in Decided /\ x \in Verdicts
    <2>1. <<Apply(op, p, in), x>> \in Decided
      <3> HIDE DEF p, q
      <3> QED BY <1>0, <1>3, ApplyDecided, Zenon
    <2> HIDE DEF p, x
    <2> QED BY <2>1, DecidedIs, Zenon
  <1> DEFINE t == Append(Rest(s, op), x)
  <1>5. /\ t \in Seq(Verdicts) /\ Len(t) = n + 1 /\ t[n + 1] = x
        /\ \A k \in 1 .. n : t[k] = s[k]
    <2> HIDE DEF x
    <2>1. x \in Verdicts /\ Pops(op) <= Len(s)
      BY <1>0, <1>1, <1>4, Zenon
    <2>2. IsPushed(s, op, x, Verdicts, t)
      BY <1>0, <2>1, PushFacts, Zenon
    <2> HIDE DEF t
    <2> QED BY <1>0, <2>2, Zenon DEF IsPushed
  <1>6. Pushed(s, op, in2) = t
    BY Zenon DEF Pushed
  <1> HIDE DEF x, t
  <1>8. ASSUME NEW k \in 1 .. n + 1 PROVE <<st2[k], t[k]>> \in Decided
    <2>1. CASE k = n + 1
      <3>1. st2[n + 1] = Apply(op, p, in)
        BY <1>0, Zenon DEF Ran
      <3> QED BY <1>4, <1>5, <2>1, <3>1, Zenon
    <2>2. CASE k # n + 1
      <3>1. k \in 1 .. n /\ k \in 1 .. top
        BY <1>0, <1>1, <2>2
      <3>2. st2[k] = st[k] /\ t[k] = s[k] /\ <<st[k], s[k]>> \in Decided
        BY <1>5, <3>1, Zenon DEF Ran, DecidesMore
      <3> QED BY <3>2, Zenon
    <2> QED BY <2>1, <2>2, Zenon
  <1> HIDE DEF n
  <1> QED BY <1>0, <1>5, <1>6, <1>8, Zenon DEF DecidesMore

(* The invariant holds at the start.                                        *)
LEMMA InitStatic == MachineInit => StaticInv
  <1> SUFFICES ASSUME MachineInit PROVE StaticInv
    BY Zenon
  <1>1. program.ops \in Seq(Ops) /\ idx = 0 /\ sp = 0 /\ peak = 0 /\ pc = "validate"
    BY ProgramsAssumption, Zenon DEF MachineInit
  <1>2. Typed
    <2>1. stack \in [1 .. MaxStackDepth -> Verdicts]
      BY Zenon DEF MachineInit, Verdicts
    <2>2. Length \in Nat /\ 0 \in 0 .. MaxStackDepth
      BY <1>1, ProgramLimits DEF Length
    <2>3. 0 \in 0 .. Length
      BY <2>2
    <2> QED BY <1>1, <2>1, <2>2, <2>3, Zenon DEF Typed
  <1>3. Measured
    BY <1>1, Starts, Zenon DEF Measured
  <1>4. Within
    BY <1>1, Starts, EmptyHolds, Zenon DEF Within
  <1>5. Refining
    BY <1>1, Zenon DEF Refining
  <1>6. Returned
    BY <1>1, Zenon DEF Returned, MachineInit
  <1> QED BY <1>2, <1>3, <1>4, <1>5, <1>6, Zenon DEF StaticInv

(* A step that leaves the program and eval's own variables alone.           *)
LEMMA StaticKept ==
    ASSUME StaticInv, UNCHANGED <<program, inputs, idx, stack, sp, peak>>,
           pc' \in {"eval", "done"} => pc \in {"eval", "done"} /\ error' = error,
           Returned'
    PROVE  StaticInv'
  <1>1. Typed' /\ Measured' /\ Within'
    BY Zenon DEF StaticInv, Typed, Measured, Within, Length
  <1>2. \A in : Agrees(in)' <=> Agrees(in)
    BY Zenon DEF Agrees, Length
  <1>3. Refining'
    BY <1>2, Zenon DEF StaticInv, Refining
  <1> QED BY <1>1, <1>3, Zenon DEF StaticInv

(* An op of eval keeps it.                                                  *)
LEMMA EvalOpStatic ==
    ASSUME Inv, StaticInv, EvalOp
    PROVE  StaticInv'
  <1> DEFINE op == program.ops[idx + 1]
  <1>0. /\ program.ops \in Seq(Ops) /\ Length = Len(program.ops) /\ Length \in Nat
        /\ idx \in 0 .. Length /\ sp \in 0 .. MaxStackDepth /\ MaxStackDepth \in Nat
        /\ pc = "eval" /\ idx < Length /\ inputs \in Inputs /\ ~gaveUp /\ verdict = Unknown
    <2>1. program.ops \in Seq(Ops)
      BY ProgramsAssumption, Zenon DEF Inv
    <2>2. Len(program.ops) \in Nat
      BY <2>1
    <2> QED BY <2>1, <2>2, ProgramLimits, Zenon DEF Inv, StaticInv, Typed, Returned, Follows, EvalOp, Length
  <1>1. op \in Ops /\ idx \in 0 .. Len(program.ops) - 1 /\ idx + 1 \in 1 .. Length /\ sp \in Nat
    BY <1>0
  <1>2. Pops(op) \in Nat
    BY <1>1, OpFacts, Zenon
  <1>3. CASE Stuck(op, sp) /\ GiveUp
    <2>1. /\ UNCHANGED <<program, error, inputs, idx, stack, sp, peak>>
          /\ verdict' = Unknown /\ gaveUp' = TRUE /\ pc' = "done"
      BY <1>3, Zenon DEF GiveUp
    <2>2. Returned'
      BY <2>1, Zenon DEF Returned
    <2> QED BY <1>0, <2>1, <2>2, StaticKept, Zenon
  <1>4. CASE ~Stuck(op, sp) /\ UNCHANGED <<program, pc, error, inputs, verdict, gaveUp>>
    <2> DEFINE base == sp - Pops(op)
               popped == [k \in 1 .. Pops(op) |-> stack[base + k]]
               x == Apply(op, popped, inputs)
    <2>0. /\ stack' = [stack EXCEPT ![base + 1] = x]
          /\ sp' = base + 1 /\ idx' = idx + 1
          /\ peak' = IF base + 1 > peak THEN base + 1 ELSE peak
      BY <1>4, Zenon DEF EvalOp
    <2>1. base \in Nat /\ base + 1 \in 1 .. MaxStackDepth /\ Pops(op) <= sp
      BY <1>0, <1>1, <1>2, <1>4 DEF Stuck
    <2>2. stack \in [1 .. MaxStackDepth -> Verdicts]
      BY Zenon DEF StaticInv, Typed
    <2>3. /\ stack'[base + 1] = x
          /\ \A k \in 1 .. base : stack'[k] = stack[k]
      <3> HIDE DEF x
      <3>1. \A k \in 1 .. base : k \in 1 .. MaxStackDepth /\ k # base + 1
        BY <1>0, <2>1
      <3> HIDE DEF base
      <3> QED BY <2>0, <2>1, <2>2, <3>1, Zenon
    <2>4. Ran(op, stack, sp, stack', sp', inputs)
      BY <1>1, <1>4, <2>0, <2>3, Zenon DEF Ran
    <2>5. Holds(Intervals(program.ops)[idx + 1], stack', sp')
      <3>1. Holds(Intervals(program.ops)[idx], stack, sp)
        BY Zenon DEF StaticInv, Within
      <3>2. Intervals(program.ops)[idx + 1] = Bracketed(Intervals(program.ops)[idx], op)
        BY <1>0, <1>1, Steps, Zenon
      <3> HIDE DEF op
      <3> QED BY <1>0, <2>4, <3>1, <3>2, HoldsStep, Zenon
    <2>6. Within'
      BY <1>4, <2>0, <2>5, Zenon DEF Within
    <2>7. x \in Verdicts
      <3>1. base + 1 \in 1 .. base + 1
        BY <2>1
      <3>2. Inside(stack'[base + 1], Intervals(program.ops)[idx + 1].stack[base + 1])
        BY <2>0, <2>5, <3>1, Zenon DEF Holds
      <3>3. stack'[base + 1] \in Verdicts
        <4> HIDE DEF base
        <4> QED BY <3>2, BelowIs, Zenon DEF Inside
      <3> QED BY <2>3, <3>3, Zenon
    <2>8. Typed'
      <3> HIDE DEF x
      <3>1. stack' \in [1 .. MaxStackDepth -> Verdicts]
        BY <2>0, <2>2, <2>7, Zenon
      <3>2. sp' \in 0 .. MaxStackDepth /\ idx' \in 0 .. Length
        BY <1>0, <1>1, <2>0, <2>1
      <3>3. Length' = Length /\ pc' = "eval" /\ inputs' = inputs
        BY <1>0, <1>4, Zenon DEF Length
      <3> QED BY <1>0, <3>1, <3>2, <3>3, Zenon DEF Typed
    <2>9. Measured'
      <3> DEFINE b == [depth |-> sp, peak |-> peak]
      <3>1. Bounds(program.ops)[idx + 1] = Deeper(b, op)
        BY <1>0, <1>1, Steps, Zenon DEF StaticInv, Measured
      <3>2. b.depth = sp /\ b.peak = peak /\ ~(sp < Pops(op))
        BY <1>1, <1>2, <2>1
      <3> HIDE DEF b
      <3>3. Deeper(b, op) = [depth |-> base + 1, peak |-> IF base + 1 > peak THEN base + 1 ELSE peak]
        BY <3>2, Zenon DEF Deeper
      <3> QED BY <1>4, <2>0, <3>1, <3>3, Zenon DEF Measured
    <2>10. Refining'
      <3>1. ASSUME NEW in \in Inputs, Agrees(in), error = Nil
            PROVE  DecidesMore(Stacks(program.ops, in)[idx + 1], stack', sp')
        <4>1. DecidesMore(Stacks(program.ops, in)[idx], stack, sp)
          BY <1>0, <3>1, Zenon DEF StaticInv, Refining
        <4>2. Stacks(program.ops, in)[idx + 1] = Pushed(Stacks(program.ops, in)[idx], op, in)
          BY <1>0, <1>1, Steps, Zenon
        <4>3. Pops(op) = 0 => Leaf(op, inputs) \in {Unknown, Leaf(op, in)}
          BY <1>1, <3>1, Zenon DEF Agrees
        <4> HIDE DEF op
        <4> QED BY <2>4, <4>1, <4>2, <4>3, DecidesStep, Zenon
      <3>2. \A in : Agrees(in)' <=> Agrees(in)
        BY <1>4, Zenon DEF Agrees, Length
      <3> QED BY <1>4, <2>0, <3>1, <3>2, Zenon DEF Refining
    <2>11. Returned'
      BY <1>0, <1>4, Zenon DEF Returned
    <2> QED BY <2>6, <2>8, <2>9, <2>10, <2>11, Zenon DEF StaticInv
  <1> QED BY <1>3, <1>4, Zenon DEF EvalOp

(* So does every step, once validation and eval agree.                      *)
LEMMA NextStatic ==
    ASSUME Inv, StaticInv, [MachineNext]_machineVars
    PROVE  StaticInv'
  <1>1. CASE UNCHANGED machineVars
    <2>1. UNCHANGED <<program, pc, error, inputs, idx, stack, sp, peak, verdict, gaveUp>>
      BY <1>1, Zenon DEF machineVars
    <2>2. Returned'
      BY <2>1, Zenon DEF StaticInv, Returned, Length
    <2> QED BY <2>1, <2>2, StaticKept, Zenon
  <1>2. CASE RefuseHeader \/ ValidateOp \/ ValidateEnd
    <2>1. /\ pc = "validate" /\ pc' \in {"validate", "refused", "installed"}
          /\ UNCHANGED <<program, inputs, idx, stack, sp, peak, verdict, gaveUp>>
      BY <1>2, Zenon DEF RefuseHeader, ValidateOp, ValidateEnd, Refuse, EvalVars
    <2>2. Returned'
      BY <2>1, Zenon DEF StaticInv, Returned
    <2> QED BY <2>1, <2>2, StaticKept, Zenon
  <1>3. ASSUME NEW in \in Inputs, Eval(in) PROVE StaticInv'
    <2>1. /\ pc \in {"refused", "installed"} /\ pc' = "eval" /\ inputs' \in Inputs
          /\ UNCHANGED <<program, idx, stack, sp, peak, verdict, gaveUp>>
          /\ idx = 0 /\ sp = 0 /\ peak = 0 /\ verdict = Unknown
      BY <1>3, Zenon DEF Eval, StaticInv, Returned
    <2>2. Typed' /\ Measured' /\ Within'
      BY <2>1, Zenon DEF StaticInv, Typed, Measured, Within, Length
    <2>3. program.ops \in Seq(Ops)
      BY ProgramsAssumption, Zenon DEF Inv
    <2>4. \A in2 : DecidesMore(Stacks(program.ops, in2)[0], stack, 0)
      BY <2>3, Starts, EmptyHolds, Zenon
    <2>5. Refining'
      BY <2>1, <2>4, Zenon DEF Refining
    <2>6. Returned'
      BY <2>1, Zenon DEF Returned
    <2> QED BY <2>2, <2>5, <2>6, Zenon DEF StaticInv
  <1>4. CASE EvalOp
    BY <1>4, EvalOpStatic, Zenon
  <1>5. CASE EvalEnd
    <2>1. /\ pc = "eval" /\ pc' = "done" /\ idx = Length
          /\ UNCHANGED <<program, error, inputs, idx, stack, sp, peak>>
      BY <1>5, Zenon DEF EvalEnd, GiveUp
    <2>2. \/ gaveUp' = TRUE /\ verdict' = Unknown
          \/ sp = 1 /\ verdict' = stack[1] /\ gaveUp' = gaveUp /\ ~gaveUp
      BY <1>5, Zenon DEF EvalEnd, GiveUp, Inv, Follows
    <2>3. Returned'
      <3>1. Length' = Length
        BY <2>1, Zenon DEF Length
      <3>2. CASE gaveUp' = TRUE /\ verdict' = Unknown
        BY <2>1, <3>2, Zenon DEF Returned
      <3>3. CASE sp = 1 /\ verdict' = stack[1] /\ gaveUp' = gaveUp /\ ~gaveUp
        BY <2>1, <3>1, <3>3, Zenon DEF Returned
      <3> QED BY <2>2, <3>2, <3>3, Zenon
    <2> QED BY <2>1, <2>3, StaticKept, Zenon
  <1> QED BY <1>1, <1>2, <1>3, <1>4, <1>5, Zenon DEF MachineNext

(* The invariant is enough for what is reported of a program unrun.         *)
LEMMA StaticReports ==
    ASSUME Inv, StaticInv
    PROVE  StaticReportsHold
  <1>1. ASSUME pc = "done", error = Nil
        PROVE  peak = ProgramBounds(program.ops).maxStackDepth
    <2>1. ~gaveUp
      BY <1>1, Zenon DEF Inv, EvalAgreesWithValidate
    <2>2. Bounds(program.ops)[Len(program.ops)] = [depth |-> sp, peak |-> peak]
      BY <1>1, <2>1, Zenon DEF StaticInv, Returned, Measured, Length
    <2>3. Bounds(program.ops)[Len(program.ops)].peak = peak
      BY <2>2
    <2>4. ProgramBounds(program.ops).maxStackDepth = Bounds(program.ops)[Len(program.ops)].peak
      BY DEF ProgramBounds
    <2> QED BY <2>3, <2>4, Zenon
  <1>2. ASSUME verdict = True
        PROVE  CanEverAuthorize(program.ops)
    <2> DEFINE end == Intervals(program.ops)[Len(program.ops)]
    <2>0. True # Unknown
      BY DEF True, Unknown
    <2>1. idx = Len(program.ops) /\ sp = 1 /\ stack[1] = True
      BY <1>2, <2>0, Zenon DEF StaticInv, Returned, Length
    <2>2. Holds(end, stack, 1)
      BY <2>1, Zenon DEF StaticInv, Within
    <2> HIDE DEF end
    <2>3. end.ok /\ Len(end.stack) = 1 /\ <<True, end.stack[1][2]>> \in Below
      <3>1. 1 \in 1 .. 1
        OBVIOUS
      <3> QED BY <2>1, <2>2, <3>1, Zenon DEF Holds, Inside
    <2>4. end.stack[1][2] = True
      <3>1. end.stack[1][2] \in Verdicts /\ True <= end.stack[1][2]
        BY <2>3, BelowIs, Zenon
      <3> QED BY <3>1 DEF Verdicts, True, False, Unknown
    <2>5. MaxVerdict(program.ops) = True
      BY <2>3, <2>4, Zenon DEF MaxVerdict, end
    <2> QED BY <2>5, Zenon DEF CanEverAuthorize
  <1> QED BY <1>1, <1>2, Zenon DEF StaticReportsHold

(* And for what fails to decode.                                            *)
LEMMA Undecoded ==
    ASSUME Inv, StaticInv
    PROVE  UndecodedDecidesNothing
  <1> SUFFICES ASSUME pc = "done", error = Nil, verdict # Unknown, NEW in \in Inputs, Agrees(in)
               PROVE  EvalProgram(program.ops, in) = verdict
    BY Zenon DEF UndecodedDecidesNothing, Agrees
  <1>1. idx = Len(program.ops) /\ sp = 1 /\ verdict = stack[1]
    BY Zenon DEF StaticInv, Returned, Length
  <1>2. DecidesMore(Stacks(program.ops, in)[Len(program.ops)], stack, 1)
    BY <1>1, Zenon DEF StaticInv, Refining
  <1>3. 1 \in 1 .. 1
    OBVIOUS
  <1>4. <<stack[1], EvalProgram(program.ops, in)>> \in Decided
    BY <1>2, <1>3, Zenon DEF DecidesMore, EvalProgram
  <1>5. stack[1] \in {Unknown, EvalProgram(program.ops, in)}
    BY <1>4, DecidedIs, Zenon
  <1> QED BY <1>1, <1>5, Zenon

(* The invariants of validation and of eval hold together.                  *)
THEOREM StaticInvariant == MachineSpec => [](Inv /\ StaticInv)
  <1>1. MachineInit => Inv /\ StaticInv
    BY InitInv, InitStatic, Zenon
  <1>2. (Inv /\ StaticInv) /\ [MachineNext]_machineVars => (Inv /\ StaticInv)'
    BY NextInv, NextStatic, Zenon
  <1> QED BY <1>1, <1>2, PTL DEF MachineSpec

(* analysis.rs, for every program, input and limit: program_bounds is the   *)
(* depth eval reaches on a program that validates, and a program that       *)
(* can_ever_authorize calls dead authorizes nothing.                        *)
THEOREM StaticReportsAreRight == MachineSpec => []StaticReportsHold
  <1>1. Inv /\ StaticInv => StaticReportsHold
    BY StaticReports, Zenon
  <1> QED BY <1>1, StaticInvariant, PTL

(* leaf.rs, for every program, input and limit: a verdict reached while     *)
(* something failed to decode is the verdict of every input that decodes    *)
(* more and agrees on what did.                                             *)
THEOREM FailsClosed == MachineSpec => []UndecodedDecidesNothing
  <1>1. Inv /\ StaticInv => UndecodedDecidesNothing
    BY Undecoded, Zenon
  <1> QED BY <1>1, StaticInvariant, PTL
=============================================================================
