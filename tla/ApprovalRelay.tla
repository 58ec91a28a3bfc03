--------------------------- MODULE ApprovalRelay ----------------------------
(***************************************************************************)
(* perch-relay: guardians PUT signed approvals of one statement, anyone    *)
(* GETs them. A request reads the store, has its entry authenticated and   *)
(* writes the store, each behind an await, so requests interleave.         *)
(*                                                                         *)
(* A posted body is what the checks tell apart: whether it is an approval  *)
(* of the path's statement at all, whose it is, when it expires, who       *)
(* signed it, whether its arguments are the call the statement commits to  *)
(* and whether the statement is posted with it.                            *)
(***************************************************************************)
EXTENDS Integers, FiniteSets, Sequences, Functions

CONSTANTS
    Nothing,
    Requests,     \* the requests the relay serves
    Guardians,    \* a sequence: the guardians in the order of their names
    Expiries,     \* ledgers an approval's signature may expire at
    Simulated,    \* whether the relay has a simulator configured
    Ttl,          \* how long the store keeps an approval
    MaxClock,
    Posted        \* the bodies that are posted

ASSUME RelayAssumption == Ttl \in Nat \ {0} /\ MaxClock \in Nat /\ Simulated \in BOOLEAN

(* Each name is one guardian's.                                            *)
ASSUME GuardiansAssumption ==
    /\ Guardians \in Seq(Range(Guardians))
    /\ \A i, j \in DOMAIN Guardians : Guardians[i] = Guardians[j] => i = j

Signers == {"key", "another", "stranger", "nobody"}

Bodies ==
    [guardian : Range(Guardians), expiresAt : Expiries, signer : Signers,
     call : {"statement", "other"}, statement : BOOLEAN, approval : BOOLEAN]

ASSUME PostedAssumption == Posted \subseteq Bodies

VARIABLES
    kv,        \* [Guardians -> Nothing or what is stored: a body and when it is forgotten]
    clock,     \* seconds
    requests,  \* [Requests -> the state of each]
    steady     \* [Requests -> guardians held at every moment of the request so far]

vars == <<kv, clock, requests, steady>>

(***************************************************************************)
(* The store forgets a value when its time is up. It is MemoryKv: a read   *)
(* sees every write before it, which Workers KV promises only in the end.  *)
(***************************************************************************)
Value(g) == IF kv[g] = Nothing \/ kv[g].forgotten <= clock THEN Nothing ELSE kv[g].body

Held == {g \in Range(Guardians) : Value(g) # Nothing}

Init ==
    /\ kv = [g \in Range(Guardians) |-> Nothing]
    /\ clock = 0
    /\ requests = [r \in Requests |-> [pc |-> "new"]]
    /\ steady = [r \in Requests |-> {}]

Watch == steady' = [r \in DOMAIN requests |-> IF requests[r].pc = "new" THEN Held' ELSE steady[r] \cap Held']

Become(r, state) == requests' = [requests EXCEPT ![r] = state] /\ Watch

Answer(status) == [pc |-> "answered", status |-> status, approvals |-> {}]

(***************************************************************************)
(* PUT.                                                                    *)
(***************************************************************************)
(* The body's length, parseApproval, parseCallArgs and statementCall.      *)
Parses(body) == body.approval /\ body.signer # "nobody" /\ (body.statement => body.call = "statement")

PutApproval(r, body) ==
    /\ requests[r].pc = "new"
    /\ UNCHANGED <<kv, clock>>
    /\ Become(r, IF Parses(body) THEN [pc |-> "get", body |-> body] ELSE Answer(400))

(* Mutant: what is stored already does not count.                          *)
ExpiresSoonerNever(held, body) == FALSE

ExpiresSooner(held, body) == held # Nothing /\ held.expiresAt > body.expiresAt

GetHeld(r) ==
    /\ requests[r].pc = "get"
    /\ UNCHANGED <<kv, clock>>
    /\ LET body == requests[r].body
           held == Value(body.guardian)
       IN  Become(r, IF ExpiresSooner(held, body) THEN Answer(409)
                     ELSE [pc |-> "admit", body |-> body, held |-> held])

(* The controller call under enforcing authorization: the guardian's own   *)
(* check takes its key and its other signers.                              *)
Simulates(body) == body.signer \in {"key", "another"} /\ body.call = "statement"

SignedByGuardianKey(body) == body.signer = "key"

Admitted(body) ==
    IF Simulated THEN Simulates(body) ELSE SignedByGuardianKey(body) /\ body.statement

Admit(r) ==
    /\ requests[r].pc = "admit"
    /\ UNCHANGED <<kv, clock>>
    /\ LET body == requests[r].body
       IN  \/ Become(r, IF Admitted(body) THEN [requests[r] EXCEPT !.pc = "put"] ELSE Answer(403))
           \/ Simulated /\ Become(r, Answer(503))

Store(r) ==
    /\ requests[r].pc = "put"
    /\ LET body == requests[r].body
       IN  kv' = [kv EXCEPT ![body.guardian] = [body |-> body, forgotten |-> clock + Ttl]]
    /\ UNCHANGED clock
    /\ Become(r, Answer(201))

(***************************************************************************)
(* GET: the names, a page at a time, then the value of each. The store     *)
(* lists in the order of names, a page from the key after the cursor on.   *)
(***************************************************************************)
Get(r) ==
    /\ requests[r].pc = "new"
    /\ UNCHANGED <<kv, clock>>
    /\ Become(r, [pc |-> "list", names |-> <<>>, cursor |-> 0, found |-> {}])

Listed(cursor) == {i \in DOMAIN Guardians : i > cursor /\ Guardians[i] \in Held}

List(r) ==
    /\ requests[r].pc = "list"
    /\ UNCHANGED <<kv, clock>>
    /\ LET q == requests[r]
           after == Listed(q.cursor)
       IN  Become(r, IF after = {} THEN [q EXCEPT !.pc = "fetch"]
                     ELSE LET i == CHOOSE i \in after : \A j \in after : i <= j
                          IN  [q EXCEPT !.names = Append(@, Guardians[i]), !.cursor = i,
                                        !.pc = IF after = {i} THEN "fetch" ELSE "list"])

Fetch(r) ==
    /\ requests[r].pc = "fetch"
    /\ UNCHANGED <<kv, clock>>
    /\ LET q == requests[r]
       IN  Become(r,
               IF q.names = <<>> THEN [Answer(200) EXCEPT !.approvals = q.found]
               ELSE LET value == Value(Head(q.names))
                    IN  [q EXCEPT !.names = Tail(@),
                                  !.found = IF value = Nothing THEN @ ELSE @ \cup {value}])

Tick == clock < MaxClock /\ clock' = clock + 1 /\ UNCHANGED <<kv, requests>> /\ Watch

Go(r) == GetHeld(r) \/ Admit(r) \/ Store(r) \/ List(r) \/ Fetch(r)

Next ==
    \/ \E r \in Requests : (\E body \in Posted : PutApproval(r, body)) \/ Get(r) \/ Go(r)
    \/ Tick

(* An await that is under way comes back.                                  *)
Going == \E r \in Requests : Go(r)

Spec == Init /\ [][Next]_vars /\ WF_vars(Going)

(***************************************************************************)
(* Properties.                                                             *)
(***************************************************************************)
Genuine(g, body) == body.guardian = g /\ body.signer \in {"key", "another"} /\ body.call = "statement"

(* Whatever is posted and however requests interleave, a guardian's slot   *)
(* holds only what that guardian signed, with the call the statement       *)
(* commits to.                                                             *)
SlotsAreGenuine == \A g \in Held : Genuine(g, Value(g))

(* A GET serves every approval that was held from its start to its end,    *)
(* however many pages it lists and whatever is stored or forgotten         *)
(* meanwhile, and never two of one guardian.                               *)
ServesWhatIsHeld ==
    \A r \in Requests : requests[r].pc = "answered" /\ requests[r].status = 200 =>
        /\ \A a, b \in requests[r].approvals : a.guardian = b.guardian => a = b
        /\ steady[r] \subseteq {a.guardian : a \in requests[r].approvals}

(* A request that has started is answered: listing ends however the store  *)
(* changes between two pages.                                              *)
StartedIsAnswered == <>[](\A r \in Requests : requests[r].pc \in {"new", "answered"})

(* relay.ts: "409 when the guardian's stored approval expires later". An   *)
(* approval gives way to one of its guardian's that expires sooner only    *)
(* when it was stored while that one was being admitted.                   *)
SoonerOnlyUnseen ==
    [][\A r \in Requests : requests[r].pc = "put" /\ requests[r]'.pc = "answered" =>
           LET body == requests[r].body
               replaced == Value(body.guardian)
           IN  replaced # Nothing /\ replaced.expiresAt > body.expiresAt => requests[r].held # replaced]_vars

(* README of perch-relay: "A guardian's new approval replaces its stored   *)
(* one unless the stored one expires later, so replaying a guardian's      *)
(* older entry cannot shorten its approval". What is held of a guardian    *)
(* never comes to expire sooner.                                           *)
NeverShortened ==
    [][\A g \in Range(Guardians) :
           Value(g) # Nothing /\ Value(g)' # Nothing => Value(g)'.expiresAt >= Value(g).expiresAt]_vars

(* The relay keeps and serves each guardian's own latest approval.         *)
RelayKeepsApprovals == [](SlotsAreGenuine /\ ServesWhatIsHeld) /\ SoonerOnlyUnseen
=============================================================================
