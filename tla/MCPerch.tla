------------------------------ MODULE MCPerch ------------------------------
(***************************************************************************)
(* Small instances of PerchAccount for TLC. A run covers several: each     *)
(* fixes the documents the owner may apply and what the other parties may  *)
(* submit, and a behaviour stays in the one it starts in. The rest of a    *)
(* configuration is as small as lets every window open, close and          *)
(* overflow: a delay and an expiry of one ledger, against a LedgerMax of a *)
(* few ledgers.                                                            *)
(***************************************************************************)
EXTENDS PerchAccount

CONSTANTS
    c1, c2, g1, g2, s1, s2, k1, k2, k3, e1, e2, m1, m2, w2,
    Covered      \* the instances the run covers

VARIABLE instance

MCKeyKind == [k \in Keys |-> "ed25519"]

f1 == [id |-> e1, commitment |-> m1]

f2 == [id |-> e2, commitment |-> m2]

(* Factor f2's enrollment id with another commitment.                      *)
f3 == [id |-> e2, commitment |-> m1]

(* One signer per slot; the first slot holds the admin rule.               *)
Body(k) == [signers |-> [s \in Slots |-> IF s = s1 THEN k ELSE None], admin |-> {s1}]

Recovery(c, profile, quorum) ==
    [controller |-> c, profile |-> profile, mode |-> "GuardianOnly",
     guardians |-> {g1}, quorum |-> quorum, zk |-> None,
     baseline |-> None, replaceable |-> {s1},
     delay |-> 1, expiry |-> 1, maxCancels |-> 1]

Doc(k, recovery) == [body |-> Body(k), recovery |-> recovery]

WithZk(recovery, mode, f) == [recovery EXCEPT !.mode = mode, !.zk = f]

(* Loss: the owner may rotate its key, and leave and re-enter recovery.    *)
LossDocs ==
    {Doc(k1, Recovery(c1, "Loss", 1)), Doc(k3, Recovery(c1, "Loss", 1)), Doc(k1, None)}

(* Protected, with a baseline for compromise recovery.                     *)
Guarded == [Recovery(c1, "Protected", 1) EXCEPT !.baseline = Body(k1)]

ProtectedDocs == {Doc(k1, Guarded), Doc(k3, Guarded), Doc(k1, Recovery(c1, "Loss", 1))}

(* Protected with a baseline, two guardians of two, then one alone.        *)
BothGuardians == [Recovery(c1, "Protected", 2) EXCEPT
                    !.guardians = {g1, g2}, !.baseline = Body(k1)]

OnlyG2 == [BothGuardians EXCEPT !.guardians = {g2}, !.quorum = 1]

QuorumDocs == {Doc(k1, BothGuardians), Doc(k1, OnlyG2)}

(* Two signers, either one an admin, so that a replacement may swap keys.  *)
PairDocs ==
    {[body |-> [signers |-> [s \in Slots |-> IF s = s1 THEN k1 ELSE second], admin |-> Slots],
      recovery |-> [Recovery(c1, "Loss", 1) EXCEPT !.replaceable = Slots]] : second \in {k2, k3}}

(* Both factors, and the ZK factor alone.                                  *)
ZkDocs ==
    {Doc(k1, WithZk(Recovery(c1, "Protected", 1), "Combined", f1)),
     Doc(k1, WithZk(Recovery(c1, "Loss", 1), "ZkOnly", f1)),
     Doc(k1, WithZk(Recovery(c1, "Loss", 1), "ZkOnly", f2)),
     Doc(k1, WithZk(Recovery(c1, "Loss", 1), "ZkOnly", f3)),
     Doc(k1, Recovery(c1, "Loss", 1))}

(* Two controllers, and none.                                              *)
SwitchDocs ==
    {Doc(k1, Recovery(c1, "Protected", 1)), Doc(k1, Recovery(c2, "Loss", 1)),
     Doc(k1, None)}

(* One controller, and none, with upgrades to the new code w2.             *)
UpgradeDocs == {Doc(k1, Recovery(c1, "Protected", 1)), Doc(k1, None)}

MCRotations == {f2}

MCWired == {f1, f2, f3}

AskOnlyG2 == {Change(OnlyG2)}

AskLoss == {Change(Recovery(c1, "Loss", 1))}

AskMove == {Change(Recovery(c2, "Loss", 1))}

AskZk == {Change(WithZk(Recovery(c1, "Loss", 1), "ZkOnly", f2))}

AskUpgrade == {[request |-> 0, wasm |-> w2], Change(None)}

-----------------------------------------------------------------------------
(* What the parties of an instance may submit, and its bounds.             *)

Inputs(docs, keys) ==
    [docs |-> docs, keys |-> keys, rotations |-> {}, deadlines |-> {}, asked |-> {},
     attempts |-> 1, upgrades |-> 0, ttl |-> 1]

Asking(inputs, deadline, asked) == [inputs EXCEPT !.deadlines = {deadline}, !.asked = asked]

(* Protected's collecting attempts live in temporary storage.              *)
Instances ==
    [Loss |-> [Inputs(LossDocs, {k2}) EXCEPT !.attempts = 2],
     Protected |-> [Asking(Inputs(ProtectedDocs, {k2}), 2, AskLoss) EXCEPT !.ttl = 10],
     Quorum |-> Asking(Inputs(QuorumDocs, {k2}), 1, AskOnlyG2),
     Pair |-> Inputs(PairDocs, {k1, k2, k3}),
     Zk |-> [Asking(Inputs(ZkDocs, {k2}), 1, AskZk) EXCEPT !.rotations = MCRotations],
     Switch |-> Asking(Inputs(SwitchDocs, {k2}), 1, AskMove),
     Upgrade |-> [Asking(Inputs(UpgradeDocs, {k2}), 1, AskUpgrade) EXCEPT !.upgrades = 2]]

MCDocs == UNION {Instances[i].docs : i \in Covered}

MCAsked == UNION {Instances[i].asked : i \in Covered}

-----------------------------------------------------------------------------

Of(i) == INSTANCE PerchAccount WITH
            OwnerDocs <- i.docs, NewKeys <- i.keys, Rotations <- i.rotations,
            Deadlines <- i.deadlines, Asked <- i.asked,
            MaxUpgrades <- i.upgrades, MaxTtl <- i.ttl

(* Without upgrades the code the account starts from makes no difference.  *)
MCInit ==
    /\ Init
    /\ instance \in Covered
    /\ Instances[instance].upgrades = 0 => wasm # w2

MCNext ==
    /\ \E i \in Covered :
         /\ instance = i
         /\ Of(Instances[i])!Next
         /\ \A c \in Controllers : ctl'[c].nextAttempt <= Instances[i].attempts
    /\ UNCHANGED instance

(* Ledgers keep closing in every instance: see FairSpec.                   *)
MCSpec ==
    /\ MCInit
    /\ [][MCNext]_<<vars, instance>>
    /\ WF_<<vars, instance>>(CloseLedger /\ UNCHANGED instance)
=============================================================================
