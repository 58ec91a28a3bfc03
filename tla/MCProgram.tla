----------------------------- MODULE MCProgram -----------------------------
(***************************************************************************)
(* Two kinds of program: every one of up to MaxLen ops drawn from a few of *)
(* each kind, and some of one more; and every leaf op alone and under the  *)
(* composites. Each kind runs on its own contexts, whose arguments decode, *)
(* fail to decode, or are not there.                                       *)
(***************************************************************************)
EXTENDS ProgramMachine

CONSTANT MaxLen

U32Arg(n) == [type |-> "u32", value |-> n]

StrArg(s) == [type |-> "string", value |-> s]

CallTo(fn, args) == [contract |-> TRUE, fn |-> fn, args |-> args]

In(context, n, ledger) == [context |-> context, signerCount |-> n, ledger |-> ledger]

ShapeInputs ==
    {In(c, n, l) :
        c \in {[contract |-> FALSE]} \cup {CallTo(fn, args) :
                fn \in {"f", "g"}, args \in {<<>>, <<U32Arg(1)>>, <<U32Arg(2)>>, <<StrArg(<<1>>)>>}},
        n \in {1, 2}, l \in {1}}

Composites == {[op |-> "All", n |-> 2], [op |-> "Any", n |-> 2], [op |-> "Not"]}

ShapeOps ==
    Composites \cup
    {[op |-> "All", n |-> 0], [op |-> "Any", n |-> 3],
     [op |-> "MinSigners", n |-> 0], [op |-> "MinSigners", n |-> 2],
     [op |-> "LedgerBefore", n |-> 0],
     [op |-> "FnIn", fns |-> <<"f">>], [op |-> "ArgU32Eq", i |-> 0, want |-> 1]}

LengthLimit == 4

(* Three leaves, one more than the stack holds.                            *)
Deep ==
    LET leaf == {[op |-> "MinSigners", n |-> 2], [op |-> "FnIn", fns |-> <<"f">>]}
    IN  {<<a, b, c, d>> : a \in leaf, b \in leaf, c \in leaf, d \in {o \in ShapeOps : o.op \in {"All", "Any"}}}

ShapePrograms ==
    {[version |-> 1, ops |-> s] : s \in UNION {[1 .. n -> ShapeOps] : n \in 0 .. MaxLen} \cup Deep}
    \cup {[version |-> 2, ops |-> <<[op |-> "MinSigners", n |-> 2]>>],
          [version |-> 1, ops |-> [i \in 1 .. LengthLimit + 1 |-> [op |-> "MinSigners", n |-> 2]]]}

(* Every leaf op, alone and under the composites.                          *)
Leaves ==
    {[op |-> "MinSigners", n |-> 2], [op |-> "FnIn", fns |-> <<"f", "g">>],
     [op |-> "ArgAddrEq", i |-> 0, want |-> "g"], [op |-> "ArgAddrIsSelf", i |-> 0],
     [op |-> "ArgSymEq", i |-> 0, want |-> "f"], [op |-> "ArgBytesEq", i |-> 0, want |-> <<1>>],
     [op |-> "ArgI128Eq", i |-> 1, want |-> 0], [op |-> "ArgU32Eq", i |-> 1, want |-> 1],
     [op |-> "ArgStrIn", i |-> 0, set |-> <<<<1>>, <<1, 1, 1>>>>],
     [op |-> "ArgStrPrefix", i |-> 0, prefix |-> <<1>>],
     [op |-> "ArgStrPrefix", i |-> 0, prefix |-> <<1, 1, 1>>],
     [op |-> "ArgCount", n |-> 1],
     [op |-> "LedgerBefore", n |-> 2], [op |-> "LedgerAtOrAfter", n |-> 2]}

LeafOps == Leaves \cup Composites

LeafPrograms ==
    LET A == [op |-> "All", n |-> 2]
        O == [op |-> "Any", n |-> 2]
        N == [op |-> "Not"]
    IN  {[version |-> 1, ops |-> s] : s \in
            {<<a>> : a \in Leaves} \cup {<<a, N>> : a \in Leaves}
            \cup {<<a, b, N, c>> : a \in Leaves, b \in Leaves, c \in {A, O}}}

LeafInputs ==
    LET Typed(t, vs) == {[type |-> t, value |-> v] : v \in vs}
        firsts == Typed("address", {"g", SelfAddr}) \cup Typed("symbol", {"f"}) \cup Typed("bytes", {<<1>>})
                  \cup Typed("string", {<<>>, <<1>>, <<1, 2>>, <<1, 1, 1>>})
        seconds == Typed("i128", {0}) \cup Typed("u32", {1, 2})
    IN  {In(c, n, n) :
            c \in {[contract |-> FALSE]} \cup {CallTo("f", args) :
                    args \in {<<>>} \cup {<<a>> : a \in firsts} \cup {<<a, b>> : a \in firsts, b \in seconds}},
            n \in {1, 2}}

MCOps == ShapeOps \cup LeafOps

MCPrograms == ShapePrograms \cup LeafPrograms

MCInputs == ShapeInputs \cup LeafInputs

InputsOf(p) == IF p \in LeafPrograms THEN LeafInputs ELSE ShapeInputs

(* On a stack of two.                                                      *)
Machine == INSTANCE ProgramMachine WITH MaxProgramLen <- LengthLimit, MaxStackDepth <- 2

MachineStep == Machine!MachineNext /\ (pc' = "eval" => inputs' \in InputsOf(program))
=============================================================================
