--------------------------- MODULE MCReleaseGate ---------------------------
(***************************************************************************)
(* ReleaseGate on previewnet with a record of two chains, relay and people.*)
(* The record is a release ahead on the relay and falls behind on people.  *)
(* A release whose version cannot be read, a supplied build in two files   *)
(* and engines that ignore an override are among the inputs.               *)
(***************************************************************************)
EXTENDS ReleaseGate, TLC

Blob(chain, spec, path, compressed, readable) ==
  [of |-> chain, spec |-> spec, path |-> path, compressed |-> compressed,
   readable |-> readable, ends |-> {path}]

MCAssets ==
  (<<"paseo", "t1", "paseoFast">> :> Blob("relay", 1, "r", TRUE, TRUE))
  @@ (<<"paseo", "t2", "paseoFast">> :> Blob("relay", 2, "r", TRUE, TRUE))
  @@ (<<"paseo", "t3", "paseoFast">> :> Blob("relay", 3, "r", TRUE, TRUE))
  @@ (<<"individuality", "t1", "nextPeople">> :> Blob("people", 1, "p", TRUE, TRUE))
  @@ (<<"individuality", "t3", "nextPeople">> :> Blob("people", 3, "p", TRUE, FALSE))

\* One build of the people runtime, raw and compressed, beside a note whose
\* path ends like that of the raw one; and an artifact that holds two runtimes.
MCArtifacts ==
  [build |-> {Blob("people", 2, "raw", FALSE, TRUE),
              Blob("people", 2, "packed", TRUE, TRUE),
              [Blob("none", 0, "notes", FALSE, FALSE) EXCEPT !.ends = {"notes", "raw"}]},
   pair  |-> {Blob("relay", 3, "relay", TRUE, TRUE), Blob("people", 2, "people", TRUE, TRUE)}]

Sdk1 == Release("sdk", "s1")
Sdk2 == Release("sdk", "s2")
Wiring == [c \in DOMAIN CHAINS["previewnet"] |-> CHAINS["previewnet"][c].node]
Default == [polkadot |-> Sdk1, ethRpc |-> Sdk1] @@ ("omni-node" :> Sdk2)
Names3 == {"polkadot", "omni-node", "ethRpc"}

Engine(obeys, records) ==
  [wiring |-> Wiring, default |-> Default, obeys |-> obeys, records |-> records]
MCEngines ==
  {Engine(Names3 \ {"polkadot"}, {"relay", "people"}),
   Engine(Names3 \ {"ethRpc"}, {"relay", "people"}),
   Engine(Names3, {"relay"})}

Canonical ==
  [network |-> "previewnet", base |-> "fork", tests |-> {"health"},
   pins |-> (<<"binaries", "polkadot">> :> Sdk1) @@ (<<"binaries", "omni-node">> :> Sdk1)
         @@ (<<"chains", "relay">> :> Release("paseo", "t2"))
         @@ (<<"chains", "people">> :> Release("individuality", "t1"))]

MCLatest == [paseo |-> <<"t1", "t2">>]

Form(values) == [values |-> values, advanced |-> <<>>]
Request(values) == [flow |-> "overlay", canonical |-> Canonical, form |-> Form(values)]
PullRequest(pins, values) ==
  [flow |-> "pr", base |-> Canonical, head |-> [Canonical EXCEPT !.pins = pins @@ @],
   form |-> Form(values)]

RelayTo(tag) == <<"chains", "relay">> :> Release("paseo", tag)
PeopleTo(tag) == <<"chains", "people">> :> Release("individuality", tag)
PeopleBuild(path) == <<"chains", "people">> :> Artifact("build", path)
\* Two builds of which one was never uploaded.
OneOfTwo ==
  (<<"chains", "relay">> :> Artifact("pair", "any"))
  @@ (<<"chains", "people">> :> Artifact("lost", "any"))
Polkadot2 == <<"binaries", "polkadot">> :> Sdk2
EthRpc2 == <<"services", "ethRpc">> :> Sdk2
Client == <<"product_sdk">> :> <<<<"individuality", "dev">>>>

MCRequests ==
  {Request(Client),
   Request(PeopleTo("t3")),
   Request(EthRpc2 @@ Polkadot2 @@ RelayTo("latest") @@ Client),
   Request(PeopleBuild("any") @@ RelayTo("t3")),
   Request(PeopleBuild("raw")),
   Request(<<"chains", "bulletin">> :> Release("bulletinChain", "t1")),
   Request(OneOfTwo),
   PullRequest(PeopleBuild("any"), <<>>),
   PullRequest(RelayTo("t1"), <<>>),
   PullRequest(<<>>, Client)}

MCNpm0 ==
  (<<"individuality", "v1">> :> "v1") @@ (<<"individuality", "v2">> :> "v2")
  @@ (<<"individuality", "dev">> :> "v1")
MCLive0 == [c \in DOMAIN CHAINS["previewnet"] |-> 1]
MCLimit == [bite |-> 2, spawn |-> 1]
MCMaxSpec == [MCLive0 EXCEPT !.people = 2]
=============================================================================
