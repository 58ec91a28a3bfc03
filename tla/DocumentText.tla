---------------------------- MODULE DocumentText ----------------------------
(***************************************************************************)
(* The texts that reach compile_doc of perch-doc-compiler: the canonical   *)
(* text of a document, with its members in some order, then edited at any  *)
(* depth. A text may lose, repeat, gain or move a member or an element, or *)
(* have a value replaced by another of its kind or of the wrong kind.      *)
(***************************************************************************)
EXTENDS PolicyLowering, FiniteSetsExt

CONSTANTS
    Originals,  \* documents as first written
    Strings,    \* what a string may be changed to
    Numbers,    \* what a number may be changed to
    Junk,       \* values that may stand anywhere
    Gained,     \* the keys of a member that may be added
    Structure,  \* TRUE when members and elements may be lost, repeated, added or moved
    MaxEdits

VARIABLES text, edits

vars == <<text, edits>>

(***************************************************************************)
(* Texts and what they say.                                                *)
(***************************************************************************)
RECURSIVE Raw(_)
Raw(cv) ==
    CASE cv.t = "object" -> LET Put(k, members) == Append(members, <<k, Raw(cv.v[k])>>)
                            IN  Obj(FoldSet(Put, <<>>, DOMAIN cv.v))
      [] cv.t = "array"  -> Arr([i \in DOMAIN cv.v |-> Raw(cv.v[i])])
      [] OTHER           -> cv

(* No object of the text has a key twice.                                  *)
RECURSIVE Once(_)
Once(v) ==
    CASE v.t = "object" -> /\ Cardinality(Keys(v)) = Len(v.v)
                           /\ \A i \in DOMAIN v.v : Once(v.v[i][2])
      [] v.t = "array"  -> \A i \in DOMAIN v.v : Once(v.v[i])
      [] OTHER          -> TRUE

(* Everything a text says, apart from the order of members.                *)
RECURSIVE Says(_)
Says(v) ==
    CASE v.t = "object" -> Obj([k \in Keys(v) |-> Says(Get(v, k))])
      [] v.t = "array"  -> Arr([i \in DOMAIN v.v |-> Says(v.v[i])])
      [] OTHER          -> v

(***************************************************************************)
(* Edits.                                                                  *)
(***************************************************************************)
Replaced(v) ==
    Junk \cup CASE v.t = "string" -> {Str(s) : s \in Strings}
                [] v.t = "number" -> {Num(n) : n \in Numbers}
                [] OTHER          -> {}

Lost(seq) == {RemoveAt(seq, i) : i \in DOMAIN seq}

Repeated(seq) == {Append(seq, seq[i]) : i \in DOMAIN seq}

Moved(seq) == {Append(RemoveAt(seq, i), seq[i]) : i \in DOMAIN seq}

Rearranged(v) ==
    IF Structure /\ v.t \in {"object", "array"}
    THEN {[v EXCEPT !.v = s] : s \in Lost(v.v) \cup Repeated(v.v) \cup Moved(v.v)}
         \cup (IF v.t = "object" THEN {[v EXCEPT !.v = Append(@, <<k, Str("a")>>)] : k \in Gained} ELSE {})
    ELSE {}

RECURSIVE Edits(_)
Edits(v) ==
    Replaced(v) \cup Rearranged(v) \cup
    CASE v.t = "object" -> UNION {{[v EXCEPT !.v[i] = <<v.v[i][1], w>>] : w \in Edits(v.v[i][2])} : i \in DOMAIN v.v}
      [] v.t = "array"  -> UNION {{[v EXCEPT !.v[i] = w] : w \in Edits(v.v[i])} : i \in DOMAIN v.v}
      [] OTHER          -> {}

Init == text \in {Raw(DocToCv(d)) : d \in Originals} /\ edits = 0

Edit ==
    /\ edits < MaxEdits
    /\ text' \in Edits(text)
    /\ edits' = edits + 1

Next == Edit

Spec == Init /\ [][Next]_vars

(***************************************************************************)
(* Properties.                                                             *)
(***************************************************************************)
Accepted == FromJson(text) = "Ok"

(* from_json drops nothing and adds nothing: every value an accepted text  *)
(* holds is in the document's canonical text, at its place, and no key of  *)
(* it stands twice. So two texts with one doc_hash say the same, and       *)
(* nothing a reviewer read can be missing from what is hashed.             *)
HashCoversTheText == Accepted => Once(text) /\ Says(text) = DocToCv(Doc(text))

(* What the originals say in canonical text.                               *)
Canonical == {<<d, DocToCv(d)>> : d \in Originals}

(* Canonical text is read back as the document it was written from,        *)
(* whatever the order of its members.                                      *)
CanonicalTextReadsBack ==
    LET says == Says(text)
    IN  \A c \in Canonical : says = c[2] /\ Once(text) => Accepted /\ Doc(text) = c[1]

(* Text, document and hash say the same, read in either direction.         *)
TextIsWhatIsHashed == HashCoversTheText /\ CanonicalTextReadsBack

(* A document that validate passes lowers. compile fails only on what      *)
(* validate says nothing of: a self-authenticating rule, or more           *)
(* predicates in one rule than a program holds.                            *)
ValidDocumentsLower ==
    LET doc == Doc(text)
    IN  Accepted /\ Validate(doc) = {} =>
            \A i \in DOMAIN doc.rules :
                LET rule == doc.rules[i]
                    error == LowerError(doc, rule)
                IN  CASE error = "Unsupported" -> rule.principals.type = "self-authenticating"
                      [] error = "InvalidProgram" ->
                             Len(BuildProgram(rule)) > MaxProgramLen \/ Len(BuildProgram(rule)) - 1 > MaxStackDepth
                      [] OTHER -> error = "Ok"

CompiledRulesOf(doc) == [i \in DOMAIN doc.rules |-> ToCompiled(LowerRule(doc, doc.rules[i]))]

(* A document that compiles also installs: its rules have distinct names   *)
(* that fit, each rule has signers, no physical key twice among them, a    *)
(* bound that did not wrap, and policies that their contracts accept.      *)
CompiledDocumentsInstall ==
    LET doc == Doc(text)
        compiled == CompiledRulesOf(doc)
    IN  Accepted /\ CompileParsed(doc) = "Ok" =>
        /\ \A i, j \in DOMAIN compiled : i # j => compiled[i].name # compiled[j].name
        /\ \A i \in DOMAIN compiled :
               LET r == compiled[i]
               IN  /\ r.name \notin LongNames \cup {""}
                   /\ r.signers # <<>> /\ ~Repeats(r.signers) /\ Len(r.signers) <= MaxDocSigners
                   /\ r.validUntil # None => r.validUntil \in U32
                   /\ r.install # None => Validates(r.install.program)
                   /\ r.cap # None => r.cap.limit > 0 /\ r.cap.periodLedgers > 0 /\ r.scope.type = "contract"

(* No stage refuses what the stage before it let through: parsing and      *)
(* validation, lowering, the account and its policies.                     *)
NoLateRefusal == ValidDocumentsLower /\ CompiledDocumentsInstall

(* The recovery of a document that compiles can be carried out: as many    *)
(* different guardians as its quorum can approve, every signer it may      *)
(* replace is one the document declares, and no rule of the document makes *)
(* calls to the contracts that check its proofs.                           *)
RecoveryCanBeCarriedOut ==
    LET doc == Doc(text)
        compiled == CompiledRulesOf(doc)
        r == doc.recovery
    IN  Accepted /\ CompileParsed(doc) = "Ok" /\ r # None =>
            /\ r.mode.guardianSet # None =>
                   Cardinality(Range(r.mode.guardianSet.guardians)) >= r.mode.guardianSet.quorum
            /\ \A id \in Range(r.replaceable) : \E i \in DOMAIN doc.signers : doc.signers[i].id = id
            /\ r.mode.zk # None =>
                   \A i \in DOMAIN compiled : compiled[i].scope.type = "contract" =>
                       compiled[i].scope.address \notin {r.mode.zk["adapter"], r.mode.zk["pool"]}
=============================================================================
