----------------------------- MODULE ReleaseMap -----------------------------
(***************************************************************************)
(* The pure part of the release gate: which source may provide which       *)
(* artifact on which network (release-map.mjs), and how the fields of a    *)
(* request become a sparse overlay (gate-form.mjs).                        *)
(*                                                                         *)
(* A manifest is a record whose pins are one partial function from paths   *)
(* to pins; a path is <<dimension, name>>, where the source nests objects. *)
(* An overlay is such a function too, and is laid over the manifest.        *)
(* Repositories, assets and chains go by short names.  Every mapped chain  *)
(* has a public endpoint, so the scan's verdict for one without is dead.   *)
(***************************************************************************)
EXTENDS FiniteSets

\* f, and g where f says nothing (the @@ of TLC, in terms a prover can expand).
Over(f, g) ==
  [x \in DOMAIN f \cup DOMAIN g |-> IF x \in DOMAIN f THEN f[x] ELSE g[x]]

(***************************************************************************)
(* Tables.                                                                 *)
(***************************************************************************)
Relay(asset, policy) ==
  [node |-> "polkadot", policy |-> policy, runtime |-> [paseo |-> asset]]
Para(repo, asset) ==
  [node |-> "omni-node", policy |-> "bytes", runtime |-> [r \in {repo} |-> asset]]

\* Per network and chain: the binary slot its nodes run, how the scan compares
\* it with production, and the asset that each allowed repository carries.
CHAINS ==
  LET next(relay) == [relay    |-> relay,
                      assetHub |-> Para("individuality", "nextAssetHub"),
                      people   |-> Para("individuality", "nextPeople"),
                      bulletin |-> Para("bulletinChain", "bulletin")]
  IN [previewnet |-> Over([web3Storage |-> Para("web3Storage", "storage")],
                          next(Relay("paseoFast", "bytes"))),
      paseoNext  |-> next(Relay("paseo", "spec")),
      devnet     |-> [relay    |-> Relay("paseo", "spec"),
                      assetHub |-> Para("paseo", "assetHubPaseo"),
                      people   |-> Para("paseo", "peoplePaseo"),
                      bulletin |-> Para("bulletinChain", "bulletin")]]

\* devnet's asset hub cannot be bitten, so a change of its manifest is not gated.
NETWORK_META == [n \in DOMAIN CHAINS |-> [gateable |-> n # "devnet"]]

Sdk == {"sdk", "releaseAutomation"}
NODE_BINARIES == [slot \in {"polkadot", "omni-node"} |-> Sdk]

\* delivery: an engine override, an engine variable, or not delivered yet.
SERVICES ==
  LET ethRpc == [delivery |-> "override", repos |-> Sdk]
      identity == [delivery |-> "envTag", repos |-> {"uniquenessBackend"}]
  IN [previewnet |->
        [ethRpc          |-> ethRpc,
         identityBackend |-> identity,
         providerNode    |-> [delivery |-> "recorded", repos |-> {"web3Storage"}],
         kubo            |-> [delivery |-> "recorded", repos |-> {"kubo"}]],
      paseoNext |-> [ethRpc |-> ethRpc, identityBackend |-> identity],
      devnet |-> [ethRpc |-> ethRpc]]

networkSlots(network) ==
  {CHAINS[network][c].node : c \in DOMAIN CHAINS[network]}

\* What the rejection comment shows a tester: <<path, repository>> pairs.
allowedSources(network) ==
  (UNION {{<<"binaries", s>>} \X NODE_BINARIES[s] : s \in networkSlots(network)})
  \cup (UNION {{<<"chains", c>>} \X DOMAIN CHAINS[network][c].runtime :
                 c \in DOMAIN CHAINS[network]})
  \cup (UNION {{<<"services", n>>} \X SERVICES[network][n].repos :
                 n \in DOMAIN SERVICES[network]})

(***************************************************************************)
(* Pins.  "malformed" stands for text that no form matches, and for an     *)
(* entry of a chain that pins a binary or no runtime.                      *)
(***************************************************************************)
Release(repo, tag) == [kind |-> "release", from |-> repo, tag |-> tag]
\* A build of the calling run; tag is the path in it, or "any".
Artifact(name, within) == [kind |-> "artifact", from |-> name, tag |-> within]
File(name, path) == [kind |-> "file", from |-> name, tag |-> path]

parses(pin) == pin.kind \in {"release", "artifact", "file"}
isEphemeral(pin) == pin.kind \in {"artifact", "file"}

(***************************************************************************)
(* Manifests.                                                              *)
(***************************************************************************)
Dims == {"binaries", "chains", "services"}

\* What manifests and overlays are made of: pins at paths <<dimension, name>>.
PathsOk(pins) ==
  /\ pins = [p \in DOMAIN pins |-> pins[p]]
  /\ \A p \in DOMAIN pins : p[1] \in Dims => p = <<p[1], p[2]>>
PinsOk(pins) == PathsOk(pins) /\ \A p \in DOMAIN pins : p[1] \in Dims
\* A field that is left out of the file is there, with a value of its own.
ManifestOk(m) == {"network", "base", "tests", "pins"} \subseteq DOMAIN m /\ PinsOk(m.pins)

Names(m, dim) == {p[2] : p \in {q \in DOMAIN m.pins : q[1] = dim}}
Pin(m, dim, name) == m.pins[<<dim, name>>]

assertNoLocalPins(m) == \A p \in DOMAIN m.pins : ~isEphemeral(m.pins[p])

\* A pin of a build is taken as it is: it came from no release.
runtimePlanOk(m) ==
  \A c \in Names(m, "chains") :
    LET pin == Pin(m, "chains", c)
    IN /\ parses(pin)
       /\ isEphemeral(pin) \/ pin.from \in DOMAIN CHAINS[m.network][c].runtime

binaryPlanOk(m) ==
  LET from(pin, repos) == pin.kind = "release" /\ pin.from \in repos
  IN /\ \A s \in Names(m, "binaries") :
          s \in DOMAIN NODE_BINARIES /\ from(Pin(m, "binaries", s), NODE_BINARIES[s])
     /\ \A n \in Names(m, "services") :
          /\ n \in DOMAIN SERVICES[m.network]
          /\ from(Pin(m, "services", n), SERVICES[m.network][n].repos)

validateManifest(m) ==
  /\ m.network \in DOMAIN CHAINS /\ m.base = "fork"
  /\ Names(m, "chains") # {}
  /\ Names(m, "chains") \subseteq DOMAIN CHAINS[m.network]
  /\ Names(m, "binaries") = {CHAINS[m.network][c].node : c \in Names(m, "chains")}
  /\ m.tests # {}
  /\ runtimePlanOk(m) /\ binaryPlanOk(m)

\* What the engine is told to run: every slot, and the services it can override.
ppnOverrides(m) ==
  LET services == {s \in Names(m, "services") : SERVICES[m.network][s].delivery = "override"}
  IN Over([n \in Names(m, "binaries") |-> Pin(m, "binaries", n)],
          [n \in services |-> Pin(m, "services", n)])

envTagPins(m) ==
  [n \in {s \in Names(m, "services") : SERVICES[m.network][s].delivery = "envTag"}
     |-> Pin(m, "services", n).tag]

(***************************************************************************)
(* Laying a request over the canonical manifest: it may only narrow.       *)
(***************************************************************************)
mergeTargetOk(canonical, target) ==
  \A p \in {q \in DOMAIN target : q[1] \in Dims} :
    \/ p \in DOMAIN canonical.pins
    \/ p[1] = "services" /\ p[2] \in DOMAIN SERVICES[canonical.network]

mergeTarget(canonical, target) ==
  LET pins == [p \in {q \in DOMAIN target : q[1] \in Dims} |-> target[p]]
  IN [canonical EXCEPT
        !.pins = Over(pins, @),
        !.tests = IF <<"tests">> \in DOMAIN target THEN target[<<"tests">>] ELSE @]

(***************************************************************************)
(* What a run tests.                                                       *)
(***************************************************************************)
\* The moves the summary of a run lists; a service may leave the engine's default.
transitions(canonical, m) ==
  {p \in DOMAIN m.pins :
     IF p \in DOMAIN canonical.pins THEN canonical.pins[p] # m.pins[p]
                                    ELSE p[1] = "services"}

Within(m, dims) == [p \in {q \in DOMAIN m.pins : q[1] \in dims} |-> m.pins[p]]
binaryDim(m) == Within(m, {"binaries", "services"})
runtimeDim(m) == Within(m, {"chains"})

Candidate(base, id, gating, m) ==
  [id |-> id, gating |-> gating, manifest |-> m,
   steady |-> base.pins = m.pins, transitions |-> transitions(base, m)]

\* Cross terms that leave the services of the request in both.
CrossTermsKeepServices(base, head) ==
  LET binariesOnly == [head EXCEPT !.pins = Over(binaryDim(head), runtimeDim(base))]
      runtimesOnly == [head EXCEPT !.pins = Over(Within(base, {"binaries"}),
                                                   Within(head, {"chains", "services"}))]
  IN {c \in {Candidate(base, "binaries-only", FALSE, binariesOnly),
             Candidate(base, "runtimes-only", FALSE, runtimesOnly)} :
        c.manifest.pins \notin {head.pins, base.pins}}

\* A request that moves both dimensions gets two informational cross terms.
CrossTerms(base, head) ==
  LET both == /\ Names(base, "chains") = Names(head, "chains")
              /\ base.pins # head.pins
      binariesOnly == [head EXCEPT !.pins = Over(binaryDim(head), runtimeDim(base))]
      runtimesOnly == [head EXCEPT !.pins = Over(binaryDim(base), runtimeDim(head))]
  IN {c \in {Candidate(base, "binaries-only", FALSE, binariesOnly),
             Candidate(base, "runtimes-only", FALSE, runtimesOnly)} :
        both /\ c.manifest.pins \notin {head.pins, base.pins}}

candidateMatrix(base, head) ==
  {Candidate(base, "target", TRUE, head)} \cup CrossTerms(base, head)

(***************************************************************************)
(* The request form.                                                       *)
(***************************************************************************)
ClientFields == {<<"product_sdk">>, <<"truapi">>}
FIELDS ==
  ({"binaries"} \X {"polkadot", "omni-node"})
  \cup ({"chains"} \X {"relay", "assetHub", "people", "bulletin", "web3Storage"})
  \cup ({"services"} \X {"ethRpc", "identityBackend"})
  \cup ClientFields

\* The overlay of the fields filled in.
assemble(values, fields) == [p \in DOMAIN values \cap fields |-> values[p]]

\* The raw overlay, when given, replaces the fields of pins; the client fields
\* apply either way and win.
overlay(form) ==
  IF form.advanced = <<>> THEN assemble(form.values, FIELDS)
                          ELSE Over(assemble(form.values, ClientFields), form.advanced[1])

\* The engine's ref and the client builds are no pins.
RUN_OPTIONS == {<<"ppn_ref">>} \cup ClientFields
splitRunOptions(target) ==
  [target  |-> [p \in DOMAIN target \ RUN_OPTIONS |-> target[p]],
   clients |-> [p \in DOMAIN target \cap ClientFields |-> target[p]]]
=============================================================================
