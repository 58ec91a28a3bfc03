------------------------------- MODULE MCPool -------------------------------
(***************************************************************************)
(* Small pools: addresses a and b are contracts, g is not; ids differ in   *)
(* one half only, and one commitment is at or above the field's order. One *)
(* instance fills a tree and goes on in the next, in the other several     *)
(* accounts and secrets share the last tree there may be.                  *)
(***************************************************************************)
EXTENDS MembershipPool

CONSTANTS a, b, g

VARIABLE instance

Ids == [x \in {a, b} |-> IF x = a THEN <<0, 1>> ELSE <<1, 0>>]

Numbers(n) == {<<i % 2, i \div 2>> : i \in 1..n}

Five == Numbers(5)

Two == Numbers(2)

TwoSecrets == {Field("s"), Field("t")}

Handed(secrets) ==
    {Canonical(Commitment(s)) : s \in secrets} \cup {[elem |-> Commitment(Field("s")), over |-> TRUE]}

MCCommitments == Handed(TwoSecrets)

Instances ==
    [Rollover |-> [addresses |-> {a}, enrollments |-> Five, commitments |-> Handed({Field("s")}),
                   lastTree |-> 1],
     Members |-> [addresses |-> {a, b, g}, enrollments |-> Two, commitments |-> MCCommitments,
                  lastTree |-> 0]]

-----------------------------------------------------------------------------

Of(i) == INSTANCE MembershipPool WITH
            Addresses <- i.addresses, Enrollments <- i.enrollments,
            Commitments <- i.commitments, TreeIdMax <- i.lastTree

MCInit == PoolInit /\ instance \in DOMAIN Instances

MCNext ==
    /\ \E i \in DOMAIN Instances : instance = i /\ Of(Instances[i])!PoolNext
    /\ UNCHANGED instance

MCSpec == MCInit /\ [][MCNext]_<<poolVars, instance>>
=============================================================================
