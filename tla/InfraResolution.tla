-------------------------- MODULE InfraResolution --------------------------
(***************************************************************************)
(* How a build names the contracts it depends on, and what is found at     *)
(* those addresses: registry_contract! (perch-registry-resolve-macro), the *)
(* account factory that bakes its pins (perch-account-factory), the        *)
(* constructorless registry they are deployed from, perch-derive-id.       *)
(*                                                                         *)
(* sha256 and the host's address derivation are free constructors. A wasm  *)
(* is its name. A registry name is a sequence of characters; a path value  *)
(* is the sequence of what stands between its slashes. The file of a crate *)
(* holds [type |-> "hash", padded, hex], [type |-> "wasm", wasm] or        *)
(* [type |-> "path", lines], each line a [key, value] with key "#" for     *)
(* what is skipped and value None when there is none.                      *)
(*                                                                         *)
(* An invocation of the macro is [form |-> "keyed", entries], the entries  *)
(* <<key, value>> in order, or [form |-> "named", file]. A crate is a      *)
(* sequence of invocations. What can fail returns a set: its result, or    *)
(* nothing.                                                                *)
(***************************************************************************)
EXTENDS Integers, FiniteSets, Sequences, SequencesExt, TLC

CONSTANTS
    None,
    Lower,          \* [upper case letters -> their lower case]
    NameChars,      \* [a-z0-9-]
    Strkeys,        \* [strings that parse as an account or contract -> canonical form]
    HexHash,        \* [strings of 64 hex digits, with or without 0x -> hashes]
    Crates,         \* the crates that are built
    Files,          \* [file names -> what each may hold, None for no file]
    RootDeployer, RootSalt, HomePath, \* the network's chain of registries
    Spellings,      \* the names registries are deployed under
    Wasms, Authors, Manager,
    Salts, Keys,    \* what accounts are created with
    MaxEdits, MaxVersions, MaxDepth, MaxAccounts

VARIABLES
    files,      \* the crate's files
    edits,      \* how often they have changed
    binary,     \* the last artifact: its crate, what it baked, the inputs cargo tracks
    build,      \* "ok" or "error" for the files as they are, "none" before cargo ran
    contracts,  \* [addresses -> instances]
    published,  \* the versions of the one wasm name, oldest first
    author,     \* who published it first
    manager     \* the constructorless registry's manager, or None

local == <<files, edits, binary, build>>

chain == <<contracts, published, author, manager>>

vars == <<local, chain>>

WasmHash(w) == <<"sha256", "wasm", w>>

NameHash(name) == <<"sha256", "name", name>>

TextHash(t) == <<"sha256", "text", t>>

Deployed(deployer, salt) == <<"address", deployer, salt>>

(***************************************************************************)
(* Names and the registry path file.                                       *)
(***************************************************************************)
NormalizeName(s) ==
    [i \in DOMAIN s |->
        IF s[i] = "_" THEN "-" ELSE IF s[i] \in DOMAIN Lower THEN Lower[s[i]] ELSE s[i]]

TrimSlashes(value) ==
    LET full == {i \in DOMAIN value : value[i] # <<>>}
    IN  IF full = {} THEN <<>>
        ELSE SubSeq(value, CHOOSE i \in full : \A j \in full : i <= j,
                           CHOOSE i \in full : \A j \in full : i >= j)

IsRegistryName(segment) ==
    segment # <<>> /\ Range(NormalizeName(segment)) \subseteq NameChars

LineOk(line) ==
    /\ line.value # None
    /\ CASE line.key = "root-deployer" -> line.value \in DOMAIN Strkeys /\ Strkeys[line.value] = line.value
         [] line.key = "root-salt"     -> TRUE
         [] line.key = "path"          ->
                LET segments == TrimSlashes(line.value)
                IN  \A i \in DOMAIN segments : IsRegistryName(segments[i])
         [] OTHER                      -> FALSE

RegistryPath(lines) ==
    LET kept == SelectSeq(lines, LAMBDA l : l.key # "#")
        Value(key) == kept[CHOOSE i \in DOMAIN kept : kept[i].key = key].value
        segments == TrimSlashes(Value("path"))
    IN  IF /\ \A i \in DOMAIN kept : LineOk(kept[i])
           /\ \A key \in {"root-deployer", "root-salt", "path"} :
                  Cardinality({i \in DOMAIN kept : kept[i].key = key}) = 1
        THEN {[rootDeployer |-> Value("root-deployer"), rootSalt |-> TextHash(Value("root-salt")),
               segments |-> [i \in DOMAIN segments |-> NormalizeName(segments[i])]]}
        ELSE {}

RegistryFile == "registry.path"

ReadRegistryPath ==
    IF files[RegistryFile] # None /\ files[RegistryFile].type = "path"
    THEN RegistryPath(files[RegistryFile].lines) ELSE {}

(***************************************************************************)
(* The pins, and the mode an invocation selects.                           *)
(***************************************************************************)
DecodeHash(hex) == IF hex \in DOMAIN HexHash THEN {HexHash[hex]} ELSE {}

ParseHash(literal) == IF literal.padded THEN {} ELSE DecodeHash(literal.hex)

ReadHashAt(file) ==
    IF files[file] # None /\ files[file].type = "hash" THEN DecodeHash(files[file].hex) ELSE {}

HashWasmAt(file) ==
    IF files[file] = None THEN {}
    ELSE IF files[file].type = "wasm" THEN {WasmHash(files[file].wasm)} ELSE {TextHash(files[file])}

Given(entries, key) == \E i \in DOMAIN entries : entries[i][1] = key

EntryOf(entries, key) == entries[CHOOSE i \in DOMAIN entries : entries[i][1] = key][2]

Pins(entries) == {key \in {"hash", "hash_file", "wasm_file"} : Given(entries, key)}

Content(hashes, path, file) ==
    {[type |-> "content", hash |-> h, path |-> p, pinFile |-> file] : h \in hashes, p \in path}

ContentMode(entries) ==
    CASE Pins(entries) = {}       -> Content({None}, {None}, None)
      [] Pins(entries) = {"hash"} -> Content(ParseHash(EntryOf(entries, "hash")), {None}, None)
      [] Pins(entries) = {"hash_file"} ->
             LET f == EntryOf(entries, "hash_file") IN Content(ReadHashAt(f), {None}, f)
      [] Pins(entries) = {"wasm_file"} ->
             LET f == EntryOf(entries, "wasm_file") IN Content(HashWasmAt(f), {None}, f)
      [] OTHER                    -> {}

KnownKeys == {"mod", "wasm_name", "deploy_name", "client", "hash", "wasm_file", "hash_file"}

KeyedMode(entries) ==
    IF \/ \E i, j \in DOMAIN entries : i < j /\ entries[i][1] = entries[j][1]
       \/ \E i \in DOMAIN entries : entries[i][1] \notin KnownKeys
       \/ \E i \in DOMAIN entries : entries[i][1] = "hash" /\ ParseHash(entries[i][2]) = {}
       \/ Given(entries, "wasm_name") = Given(entries, "deploy_name")
    THEN {}
    ELSE IF Given(entries, "wasm_name") THEN ContentMode(entries)
    ELSE IF Pins(entries) # {} THEN {}
    ELSE {[type |-> "name", name |-> NormalizeName(EntryOf(entries, "deploy_name"))]}

ModeOf(invocation) ==
    IF invocation.form = "named"
    THEN Content(ReadHashAt(invocation.file), ReadRegistryPath, invocation.file)
    ELSE KeyedMode(invocation.entries)

(***************************************************************************)
(* The generated code.                                                     *)
(***************************************************************************)
DerivedRegistry(path) ==
    FoldLeft(LAMBDA at, name : Deployed(at, NameHash(name)),
             Deployed(<<"account", path.rootDeployer>>, path.rootSalt), path.segments)

(* address(env) or address(env, registry) of a named or pinned mode.       *)
Address(mode, registry) ==
    CASE mode.type = "name" -> Deployed(registry, NameHash(mode.name))
      [] mode.path # None   -> Deployed(DerivedRegistry(mode.path), mode.hash)
      [] OTHER              -> Deployed(registry, mode.hash)

(* Mutant: the files a pin was read from are no inputs of the crate.       *)
TrackedNone(mode) == {}

(* include_bytes!: the files cargo rebuilds the crate for.                 *)
Tracked(mode) ==
    IF mode.type = "name" \/ mode.pinFile = None THEN {}
    ELSE {mode.pinFile} \cup (IF mode.path = None THEN {} ELSE {RegistryFile})

(* The modes of a crate's invocations, when all of them expand.            *)
Expand(crate) ==
    LET modes == [i \in DOMAIN crate |-> ModeOf(crate[i])]
    IN  IF \E i \in DOMAIN crate : modes[i] = {} THEN {}
        ELSE {[i \in DOMAIN crate |-> CHOOSE m \in modes[i] : TRUE]}

Inputs(modes) ==
    [f \in UNION {Tracked(modes[i]) : i \in DOMAIN modes} |-> files[f]]

EditFile(f) ==
    /\ edits < MaxEdits /\ edits' = edits + 1
    /\ \E content \in Files[f] \ {files[f]} : files' = [files EXCEPT ![f] = content]
    /\ build' = "none"
    /\ UNCHANGED <<binary, chain>>

UpToDate(crate) ==
    binary # None /\ binary.crate = crate /\ \A f \in DOMAIN binary.inputs : files[f] = binary.inputs[f]

(* cargo build.                                                            *)
Build(crate) ==
    /\ build = "ok" => binary.crate # crate
    /\ IF UpToDate(crate) THEN binary' = binary /\ build' = "ok"
       ELSE IF Expand(crate) = {} THEN binary' = binary /\ build' = "error"
       ELSE /\ \E modes \in Expand(crate) :
                   binary' = [crate |-> crate, modes |-> modes, inputs |-> Inputs(modes)]
            /\ build' = "ok"
    /\ UNCHANGED <<files, edits, chain>>

(***************************************************************************)
(* The network: a root registry, named deploys below it, and the           *)
(* constructorless registry at HomePath.                                   *)
(***************************************************************************)
Root == Deployed(<<"account", RootDeployer>>, TextHash(RootSalt))

Home == FoldLeft(LAMBDA at, name : Deployed(at, NameHash(name)), Root, HomePath)

RECURSIVE Depth(_)
Depth(address) == IF address[2][1] = "account" THEN 0 ELSE 1 + Depth(address[2])

Init ==
    /\ files \in {f \in [DOMAIN Files -> UNION {Files[n] : n \in DOMAIN Files}] :
                     \A n \in DOMAIN Files : f[n] \in Files[n]}
    /\ edits = 0 /\ binary = None /\ build = "none"
    /\ contracts = (Root :> [kind |-> "registry", parent |-> None, name |-> <<>>])
    /\ published = <<>> /\ author = None /\ manager = Manager

(* The registry's own normal form of a name, which it hashes for a salt.   *)
NormalizedName(s) ==
    [i \in DOMAIN s |->
        CASE s[i] = "_" -> "-" [] s[i] \in DOMAIN Lower -> Lower[s[i]] [] OTHER -> s[i]]

(* A named deploy of a registry below another one.                         *)
DeployNamed(parent, name) ==
    LET at == Deployed(parent, NameHash(NormalizedName(name)))
    IN  /\ contracts[parent].kind = "registry" /\ Depth(parent) < MaxDepth
        /\ at \notin DOMAIN contracts
        /\ contracts' = contracts @@ (at :> [kind |-> "registry", parent |-> parent, name |-> name])
        /\ UNCHANGED <<local, published, author, manager>>

(* publish: the first version needs the manager, the later ones the author. *)
Publish(w, by) ==
    /\ Home \in DOMAIN contracts /\ Len(published) < MaxVersions
    /\ WasmHash(w) \notin Range(published)
    /\ IF published = <<>> THEN by # {} /\ (manager # None => manager \in by) ELSE author \in by
    /\ published' = Append(published, WasmHash(w))
    /\ IF published = <<>> THEN \E a \in by : author' = a ELSE author' = author
    /\ UNCHANGED <<local, contracts, manager>>

DeployStateless(i) ==
    LET at == Deployed(Home, published[i])
    IN  /\ at \notin DOMAIN contracts
        /\ contracts' = contracts @@ (at :> [kind |-> "singleton", wasm |-> published[i]])
        /\ UNCHANGED <<local, published, author, manager>>

(* By the registry's admin.                                                *)
SetManager(m) ==
    /\ Home \in DOMAIN contracts /\ manager # m
    /\ manager' = m
    /\ UNCHANGED <<local, contracts, published, author>>

RemoveManager ==
    /\ Home \in DOMAIN contracts /\ manager # None
    /\ manager' = None
    /\ UNCHANGED <<local, contracts, published, author>>

(***************************************************************************)
(* perch-derive-id.                                                        *)
(***************************************************************************)
Derive(mode, parent, value) ==
    IF mode = "content" THEN {Deployed(parent, h) : h \in DecodeHash(value)}
    ELSE {Deployed(parent, NameHash(value))}

(***************************************************************************)
(* The account factory. Its crate invokes the macro twice: for the account *)
(* wasm, keyed and pinned, and by name alone for the passkey verifier.     *)
(***************************************************************************)
IsFactory(modes) ==
    /\ Len(modes) = 2 /\ modes[1].type = "content" /\ modes[1].hash # None
    /\ modes[2].type = "content" /\ modes[2].path # None

DeployFactory ==
    LET pins == [account |-> binary.modes[1].hash, verifier |-> Address(binary.modes[2], None)]
        at == Deployed(Home, <<"sha256", "factory", pins>>)
    IN  /\ Home \in DOMAIN contracts /\ build = "ok" /\ IsFactory(binary.modes)
        /\ at \notin DOMAIN contracts
        /\ contracts' = contracts @@ (at :> [kind |-> "factory", pins |-> pins])
        /\ UNCHANGED <<local, published, author, manager>>

(* Mutant: the salt leaves the signers out.                                *)
DeploySaltAlone(salt, signers) == <<"sha256", "signers", salt>>

DeploySalt(salt, signers) == <<"sha256", "signers", salt, signers>>

AddressOf(factory, salt, signers) == Deployed(factory, DeploySalt(salt, signers))

PasskeySigner(factory, key) == <<"external", contracts[factory].pins.verifier, key>>

Accounts == {a \in DOMAIN contracts : contracts[a].kind = "account"}

(* deploy_v2 needs the wasm on the network, and nothing at the address.    *)
Create(factory, salt, signers) ==
    LET at == AddressOf(factory, salt, signers)
    IN  /\ contracts[factory].pins.account \in Range(published)
        /\ at \notin DOMAIN contracts /\ Cardinality(Accounts) < MaxAccounts
        /\ contracts' = contracts @@ (at :> [kind |-> "account", admin |-> signers,
                                             wasm |-> contracts[factory].pins.account])
        /\ UNCHANGED <<local, published, author, manager>>

CreatePasskey(factory, salt, key) == Create(factory, salt, <<PasskeySigner(factory, key)>>)

Next ==
    \/ \E f \in DOMAIN Files : EditFile(f)
    \/ \E crate \in Crates : Build(crate)
    \/ \E parent \in DOMAIN contracts, name \in Spellings : DeployNamed(parent, name)
    \/ \E w \in Wasms, by \in SUBSET Authors : Publish(w, by)
    \/ \E i \in DOMAIN published : DeployStateless(i)
    \/ \E m \in Authors : SetManager(m)
    \/ RemoveManager
    \/ DeployFactory
    \/ \E f \in DOMAIN contracts, salt \in Salts, key \in Keys :
           /\ contracts[f].kind = "factory"
           /\ Create(f, salt, <<<<"delegated", key>>>>) \/ CreatePasskey(f, salt, key)

Spec == Init /\ [][Next]_vars

(***************************************************************************)
(* Properties.                                                             *)
(***************************************************************************)
(* What an artifact has baked in is what its files say now: a pin changed  *)
(* on disk is never left compiled in by an incremental build.              *)
PinsAreTheFiles == build = "ok" => binary.modes \in Expand(binary.crate)

Baked == IF binary = None THEN {} ELSE Range(binary.modes)

Pinned == {m \in Baked : m.type = "content" /\ m.hash # None}

(* The registry an artifact means: the one it is given, or the one its     *)
(* path spells in some way.                                                *)
MeansHome(m) ==
    m.path # None =>
        /\ m.path.rootDeployer = RootDeployer /\ m.path.rootSalt = TextHash(RootSalt)
        /\ [i \in DOMAIN m.path.segments |-> NormalizedName(m.path.segments[i])] = HomePath

(* A pinned dependency on the constructorless registry resolves to the     *)
(* singleton of the pinned wasm as soon as there is one, and never to      *)
(* anything that runs another wasm, whatever is published later.           *)
PinnedResolves ==
    \A m \in Pinned : MeansHome(m) =>
        \A a \in DOMAIN contracts :
            contracts[a].kind = "singleton" => (contracts[a].wasm = m.hash) <=> (Address(m, Home) = a)

(* A named deploy is found under its parent, however its name was spelled  *)
(* when it was deployed and however the build spells it.                   *)
NamedResolves ==
    \A m \in {n \in Baked : n.type = "name"}, a \in DOMAIN contracts :
        contracts[a].kind = "registry" /\ NormalizedName(contracts[a].name) = NormalizedName(m.name)
            /\ contracts[a].parent # None
        => Address(m, contracts[a].parent) = a

(* What a build names is what its files say, and is found.                 *)
BuildsResolve == PinsAreTheFiles /\ PinnedResolves /\ NamedResolves

(* The ids the scripts derive offline are where the registry deployed: by  *)
(* the hex digits of a wasm's hash, by the normal form of a name.          *)
DerivedIdsAreDeployed ==
    \A a \in DOMAIN contracts :
        CASE contracts[a].kind = "singleton" ->
                 \A hex \in DOMAIN HexHash :
                     HexHash[hex] = contracts[a].wasm => Derive("content", Home, hex) = {a}
          [] contracts[a].kind = "registry" /\ contracts[a].parent # None ->
                 Derive("name", contracts[a].parent, NormalizedName(contracts[a].name)) = {a}
          [] OTHER -> TRUE

(* Whoever created it, and whatever they created first: the account at an  *)
(* address predicted for some signers has those signers, and the wasm its  *)
(* factory pinned.                                                         *)
AccountIsPredicted ==
    \A f \in DOMAIN contracts, salt \in Salts, key \in Keys :
        contracts[f].kind = "factory" =>
            \A signers \in {<<<<"delegated", key>>>>, <<PasskeySigner(f, key)>>} :
                LET a == AddressOf(f, salt, signers)
                IN  a \in DOMAIN contracts =>
                        contracts[a].admin = signers /\ contracts[a].wasm = contracts[f].pins.account

(* What stands at a derived or predicted address is what was meant.        *)
PredictedIsDeployed == DerivedIdsAreDeployed /\ AccountIsPredicted
=============================================================================
