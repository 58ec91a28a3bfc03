------------------------------ MODULE MCInfra ------------------------------
(***************************************************************************)
(* Two levels of registries below the root, names with capitals and        *)
(* underscores, crates with every form of the macro, files that are        *)
(* missing, malformed or changed between builds.                           *)
(***************************************************************************)
EXTENDS InfraResolution

MCLower == ("P" :> "p") @@ ("C" :> "c")

MCStrkeys == ("GA" :> "GA") @@ ("ga" :> "GA")

MCHexHash == [hex \in {"11", "0x11", "22", "33"} |->
    WasmHash(CASE hex \in {"11", "0x11"} -> "w1" [] hex = "22" -> "w2" [] OTHER -> "w3")]

MCHomePath == <<<<"p">>, <<"c", "-">>>>

Hash(padded, hex) == [type |-> "hash", padded |-> padded, hex |-> hex]

Line(key, value) == [key |-> key, value |-> value]

PathFile(deployer, path) ==
    [type |-> "path", lines |-> <<Line("#", None), Line("root-deployer", deployer),
                                  Line("root-salt", "salt"), Line("path", path)>>]

GoodPath == PathFile("GA", <<<<"p">>, <<"C", "_">>, <<>>>>)

PathFiles ==
    {GoodPath, PathFile("GA", <<<<>>, <<>>>>), PathFile("ga", <<<<"p">>>>),
     PathFile("GA", <<<<"p">>, <<>>, <<"C", "_">>>>), PathFile("GA", <<<<"p", "!">>>>),
     [GoodPath EXCEPT !.lines = Append(@, Line("path", <<<<"p">>>>))],
     [GoodPath EXCEPT !.lines = Append(@, Line("network", "net"))],
     [GoodPath EXCEPT !.lines = Append(@, Line("path", None))],
     [GoodPath EXCEPT !.lines = SubSeq(@, 1, 3)]}

Keyed(entries) == [form |-> "keyed", entries |-> <<<<"mod", "m">>>> \o entries]

Named(file) == [form |-> "named", file |-> file]

OfWasm(pin, value) == Keyed(<<<<"wasm_name", "a">>, <<pin, value>>>>)

Factory == <<OfWasm("hash_file", "account.sha256"), Named("verifier.sha256")>>

Resolvers == <<OfWasm("wasm_file", "account.wasm"), OfWasm("hash", Hash(FALSE, "0x11")),
               Keyed(<<<<"deploy_name", <<"C", "_">>>>, <<"client", "c">>>>),
               Keyed(<<<<"wasm_name", "a">>>>)>>

Malformed ==
    {<<Keyed(<<<<"deploy_name", <<"p">>>>, <<"wasm_name", "a">>>>)>>, <<Keyed(<<>>)>>,
     <<Keyed(<<<<"deploy_name", <<"p">>>>, <<"hash", Hash(FALSE, "11")>>>>)>>,
     <<Keyed(<<<<"wasm_name", "a">>, <<"wasm_name", "a">>>>)>>,
     <<OfWasm("hash", Hash(TRUE, "11"))>>, <<OfWasm("salt", "x")>>,
     <<Keyed(<<<<"wasm_name", "a">>, <<"hash", Hash(FALSE, "11")>>, <<"wasm_file", "account.wasm">>>>)>>}

(* Two instances: many builds of files that change, over a small network;  *)
(* and a deep network, with artifacts that pin what it publishes.          *)
Instances ==
    [Builds |->
        [crates |-> {Factory, Resolvers} \cup Malformed,
         files |-> ("registry.path" :> {None} \cup PathFiles)
                   @@ ("account.sha256" :> {Hash(FALSE, "11"), Hash(TRUE, "22"), Hash(FALSE, "zz")})
                   @@ ("verifier.sha256" :> {None, Hash(FALSE, "33")})
                   @@ ("account.wasm" :> {None, [type |-> "wasm", wasm |-> "w1"]}),
         spellings |-> {<<"P">>, <<"c", "_">>, <<"p">>, <<"C", "-">>},
         wasms |-> {"w1", "w3"}, edits |-> 2, versions |-> 0, depth |-> 1],
     Network |->
        [crates |-> {Factory},
         files |-> ("registry.path" :> {GoodPath})
                   @@ ("account.sha256" :> {Hash(FALSE, "11"), Hash(TRUE, "22")})
                   @@ ("verifier.sha256" :> {Hash(FALSE, "33")})
                   @@ ("account.wasm" :> {None}),
         spellings |-> {<<"P">>, <<"c", "_">>},
         wasms |-> {"w1", "w2", "w3"}, edits |-> 1, versions |-> 2, depth |-> 2]]

VARIABLE instance

Of(i) == INSTANCE InfraResolution
    WITH Crates <- i.crates, Files <- i.files, Spellings <- i.spellings, Wasms <- i.wasms,
         MaxEdits <- i.edits, MaxVersions <- i.versions, MaxDepth <- i.depth

MCInit == \E name \in DOMAIN Instances : instance = name /\ Of(Instances[name])!Init

MCNext ==
    /\ \E name \in DOMAIN Instances : instance = name /\ Of(Instances[name])!Next
    /\ UNCHANGED instance

MCSpec == MCInit /\ [][MCNext]_<<vars, instance>>
=============================================================================
