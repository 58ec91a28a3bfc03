------------------------------ MODULE MCPolicy ------------------------------
(***************************************************************************)
(* An account that runs a document, the analyzer that is asked about one,  *)
(* or one program that is validated and evaluated: they share no state, so *)
(* a behaviour moves one of them.                                          *)
(*                                                                         *)
(* Documents to run: an admin rule and one rule of every shape             *)
(* (principals, functions, argument predicates, bound and cap in all       *)
(* combinations), and a few in which names and scopes vary too. Documents  *)
(* to ask about: rules of every shape, contradictory and unreachable ones  *)
(* included, and narrows over their pairs.                                 *)
(***************************************************************************)
EXTENDS PolicyEnforcement, DocAnalysis, MCShapes, MCProgram

RuleShapes ==
    [name : {"r"}, scope : {[type |-> "contract", address |-> "CT"]},
     principals : {All(<<"a", "b">>), Threshold(<<"a", "b">>, 1), Threshold(<<"b", "a">>, 2)},
     functions : {None, <<"f">>, <<"transfer", "f">>}, args : {None} \cup ArgLists,
     notAfterLedger : {None, 2}, cap : {None, [token |-> None, limit |-> "2", periodLedgers |-> 2]}]

SmallShapes ==
    [name : {"r", "q"}, scope : {[type |-> "contract", address |-> a] : a \in {"CT", "CU"}},
     principals : {All(<<"a">>), Threshold(<<"a", "b">>, 1)},
     functions : {None, <<"f">>, <<"transfer", "f">>}, args : {None, <<OnArg(0, U32Eq)>>},
     notAfterLedger : {None}, cap : {None}]

Refused ==
    LET lapsing == [Admin EXCEPT !.notAfterLedger = 3]
        plain == [Admin EXCEPT !.name = "r", !.scope = [type |-> "contract", address |-> "CT"]]
    IN  {DocOf(Both, <<lapsing, plain>>), DocOf(Both, <<plain>>),
         DocOf(Both, <<Admin, [plain EXCEPT !.principals = Threshold(<<"a", "b">>, 0)]>>),
         DocOf(Both, <<Admin, [plain EXCEPT !.notAfterLedger = 0]>>),
         DocOf(<<External("a", "AA"), External("b", "aa")>>, <<Admin, plain>>),
         DocOf(<<External("a", "bb")>>, <<Admin, plain>>),
         [DocOf(Both, <<Admin, plain>>) EXCEPT !.network = "other"]}

MCDocs ==
    Refused \cup {DocOf(Both, <<r, Admin>>) : r \in RuleShapes}
            \cup {DocOf(Both, <<Admin, r>>) : r \in SmallShapes}

CallOf(to, fn, args, amount) ==
    [contract |-> TRUE, to |-> to, fn |-> fn, args |-> args, amount |-> amount]

MCCalls ==
    {CallOf("CSELF", "upgrade", <<>>, 0), CallOf("CSELF", "rcv_gate", <<>>, 0),
     CallOf("CT", "install", <<U(1)>>, 0), CallOf("CU", "f", <<>>, 0)}
    \cup {CallOf("CT", "f", <<a>>, 0) : a \in {U(1), U(2), Addr("GA"), S(<<1>>), S(<<1, 2>>), S(<<1, 2, 3>>)}}
    \cup {CallOf("CT", "transfer", args, n) :
              args \in {<<Addr("CSELF"), U(1)>>, <<Addr("CSELF")>>, <<Addr("GA"), U(1)>>}, n \in {0, 1, 2}}
    \cup {CallOf("CT", "g", <<U(1)>>, 0)}

MCKeys == {<<"GA">>, <<"CV", <<10>>>>}

-----------------------------------------------------------------------------

Contradiction == <<OnArg(0, U32Eq), OnArg(0, [type |-> "u32-eq", value |-> 2])>>

Unreachable == <<OnArg(0, [type |-> "string-in", values |-> <<"xyz">>])>>

(* An address literal that is the account's own, and strings that hold an  *)
(* escape sequence.                                                        *)
Unusual ==
    {<<OnArg(0, [type |-> "address-eq", address |-> "CSELF"])>>,
     <<OnArg(0, [type |-> "string-in", values |-> <<"esc">>])>>,
     <<OnArg(0, [type |-> "string-prefix", prefix |-> "esc"])>>}

OnCT == [type |-> "contract", address |-> "CT"]

RuleOf(name, scope, principals, functions, args) ==
    [name |-> name, scope |-> scope, principals |-> principals, functions |-> functions,
     args |-> args, notAfterLedger |-> None, cap |-> None]

Shapes ==
    {RuleOf("r", OnCT, p, f, a) :
        p \in {All(<<"a", "b">>), Threshold(<<"a", "b">>, 1)},
        f \in {None, <<"f">>, <<"transfer", "f">>},
        a \in {None, Contradiction, Unreachable} \cup ArgLists}

OnOneArg == {RuleOf("r", OnCT, All(<<"a">>), <<"f">>, a) : a \in ArgLists \cup Unusual}

Bounded ==
    {[RuleOf("r", OnCT, All(<<"a">>), None, None) EXCEPT !.notAfterLedger = n, !.cap = c] :
        n \in {None, 2, 3},
        c \in {None} \cup [token : {None}, limit : {"1", "2"}, periodLedgers : {1, 2}]}

Elsewhere ==
    {RuleOf("q", OnCT, All(<<"a">>), None, None),
     RuleOf("r", [type |-> "contract", address |-> "CU"], All(<<"a">>), <<"g">>, None)}

DocsOf(shapes) == {DocOf(Both, <<Admin, r>>) : r \in shapes}

Invalid == {DocOf(Both, <<Admin, RuleOf("r", OnCT, Threshold(<<"a">>, 0), None, None)>>)}

MCCommands ==
    [kind : {"dead-rules"}, doc : DocsOf(Shapes \cup Elsewhere \cup OnOneArg) \cup Invalid]
    \cup [kind : {"can-call"}, doc : DocsOf(Shapes \cup Elsewhere \cup OnOneArg), function : {"f", "g"}]
    \cup [kind : {"only-calls"}, doc : DocsOf(Shapes \cup Elsewhere), contract : {"CT"},
          allowed : {{"f"}, {"f", "transfer"}}]
    \cup [kind : {"narrows"}, parent : DocsOf(Shapes), doc : DocsOf(Shapes \cup Elsewhere)]
    \cup [kind : {"narrows"}, parent : DocsOf(Bounded), doc : DocsOf(Bounded)]
    \cup [kind : {"narrows"}, parent : DocsOf(OnOneArg), doc : DocsOf(OnOneArg)]

Contexts ==
    [contract : {TRUE}, fn : {"f", "transfer", "g"},
     args : {<<>>, <<U(1)>>, <<U(2)>>, <<Addr("GA")>>, <<Addr("CSELF")>>, <<Addr("CSELF"), U(1)>>,
             <<S(<<1>>)>>, <<S(<<1, 2>>)>>, <<S(<<1, 2, 3>>)>>, <<S(<<9, 1>>)>>}]
    \cup {[contract |-> FALSE]}

MCInvocations == [context : Contexts, signerCount : 0 .. 2, ledger : {1}]

-----------------------------------------------------------------------------

VARIABLE instance

Nothing == [version |-> 1, ops |-> <<>>]

MCInit ==
    /\ Init /\ AnalysisInit /\ Machine!MachineInit
    /\ instance \in {"Account", "Analyze", "Program"}
    /\ instance # "Program" => program = Nothing

MCNext ==
    /\ \/ instance = "Account" /\ Next /\ UNCHANGED <<analysisVars, machineVars>>
       \/ instance = "Analyze" /\ AnalysisNext /\ UNCHANGED <<vars, machineVars>>
       \/ instance = "Program" /\ MachineStep /\ UNCHANGED <<vars, analysisVars>>
    /\ UNCHANGED instance

MCSpec == MCInit /\ [][MCNext]_<<vars, analysisVars, machineVars, instance>>
=============================================================================
