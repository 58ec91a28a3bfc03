------------------------------ MODULE MCClients -----------------------------
(***************************************************************************)
(* The TypeScript packages, one at a time. The relay: two guardians, and   *)
(* bodies on either side of each check; or three requests of guardians     *)
(* that sign, with the simulator. applyDocument: few attempts and a short  *)
(* chain. The indexer: a pool whose first tree of four leaves fills up     *)
(* within the insertions.                                                  *)
(***************************************************************************)
EXTENDS ApprovalRelay, ApplyClient, WitnessIndex, TLC

CONSTANTS r1, r2, r3, a

VARIABLE instance

MCGuardians == <<"g", "h">>

Posts(expiries, signers, calls) ==
    [guardian : {"g", "h"}, expiresAt : expiries, signer : signers, call : calls, statement : BOOLEAN, approval : {TRUE}]

Refused == [guardian |-> "g", expiresAt |-> 1, signer |-> "key", call |-> "statement", statement |-> TRUE, approval |-> FALSE]

Every == Posts({1, 2}, Signers, {"statement", "other"}) \cup {Refused}

Signed == {b \in Posts({1}, {"key", "stranger"}, {"statement"}) : b.statement}

Relays ==
    [Checks  |-> [requests |-> {r1, r2}, simulated |-> FALSE, posted |-> Every],
     Collect |-> [requests |-> {r1, r2, r3}, simulated |-> TRUE, posted |-> Signed]]

Relay(i) == INSTANCE ApprovalRelay
    WITH Requests <- i.requests, Simulated <- i.simulated, Posted <- i.posted

-----------------------------------------------------------------------------

Ids == [x \in {a} |-> <<0, 1>>]

Five == {<<0, i>> : i \in 1..5}

OneSecret == {Field("s")}

Honest == {Canonical(Commitment(s)) : s \in Secrets}

(* Enrollment ids are used in order: which one a leaf carries is all the   *)
(* same to the indexer.                                                    *)
InOrder == \A i \in DOMAIN events : events[i].enrollment = <<0, i>>

-----------------------------------------------------------------------------

MCInit == Init /\ ClientInit /\ IndexInit /\ instance \in DOMAIN Relays \cup {"Apply", "Index"}

MCNext ==
    /\ \/ \E name \in DOMAIN Relays :
              instance = name /\ Relay(Relays[name])!Next /\ UNCHANGED <<clientVars, witnessVars>>
       \/ instance = "Apply" /\ ClientNext /\ UNCHANGED <<vars, witnessVars>>
       \/ instance = "Index" /\ IndexNext /\ InOrder' /\ UNCHANGED <<vars, clientVars>>
    /\ UNCHANGED instance

Relaying == instance \in DOMAIN Relays /\ UNCHANGED <<clientVars, witnessVars, instance>>

Applying == instance = "Apply" /\ UNCHANGED <<vars, witnessVars, instance>>

Indexing == instance = "Index" /\ UNCHANGED <<vars, clientVars, instance>>

MCSpec ==
    /\ MCInit /\ [][MCNext]_<<vars, clientVars, witnessVars, instance>>
    /\ WF_vars(Relaying /\ Going)
    /\ WF_clientVars(Applying /\ Client)
    /\ WF_witnessVars(Indexing /\ Pulls)
    /\ WF_witnessVars(Indexing /\ Serves)

(* Whatever is started ends: a request to the relay, an operation.         *)
WhatStartsEnds == StartedIsAnswered /\ OperationEnds
=============================================================================
