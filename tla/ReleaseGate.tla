---------------------------- MODULE ReleaseGate ----------------------------
(***************************************************************************)
(* One run of the release gate (release-gate.yml and the scripts it        *)
(* calls).  A plan job turns the request into a matrix of candidate        *)
(* manifests and resolves the clients asked for; then one job per          *)
(* candidate works through its steps beside the others: it takes a fork of *)
(* the live network, starts it on the pinned binaries, upgrades the        *)
(* runtimes and runs the tests.  Meanwhile the network is deployed to,     *)
(* "latest" moves and npm publishes.                                       *)
(***************************************************************************)
EXTENDS ReleaseMap, Integers, Sequences

CONSTANTS
  Requests,   \* what callers ask: [flow, form] with a base and a head, or a canonical
  Assets,     \* <<repository, tag, asset>> -> the runtime that release carries
  Artifacts,  \* artifact -> the files in it
  Engines,    \* engines to check out: the binary slot of each chain, the
              \* overrides it obeys, what it runs otherwise, and the chains
              \* whose version its fork manifests record
  Latest,     \* repository -> the tags that are its latest, one after another
  Limit,      \* attempts at the fork and at its start: 3 and 2 in the workflow
  Installed,  \* client packages the workspace installs
  Live0,      \* chain -> its spec version at first
  Npm0,       \* <<package, version or dist-tag>> -> version
  MaxSpec     \* bound: chain -> spec versions of the live chain

\* What a request is made of: its flow, manifests and the fields of a form.  One
\* with pins in the form is an overlay; a call out of the pull request of
\* another repository may still name clients.
ASSUME RequestsAssumption ==
  \A r \in Requests :
    \/ /\ r.flow = "pr" /\ ManifestOk(r.base) /\ ManifestOk(r.head)
       /\ DOMAIN splitRunOptions(overlay(r.form)).target = {}
    \/ /\ r.flow = "overlay" /\ ManifestOk(r.canonical)
       /\ r.form.advanced = <<>> \/ PathsOk(r.form.advanced[1])

\* A dist-tag stands for a version; a version stands for itself, for good.
ASSUME NpmAssumption ==
  \A k \in DOMAIN Npm0 :
    /\ Npm0[k] # "dev" /\ <<k[1], Npm0[k]>> \in DOMAIN Npm0
    /\ Npm0[<<k[1], Npm0[k]>>] = Npm0[k]

\* A release carries a chain's runtime under the name the map has for it.
ASSUME ReleasesAssumption ==
  /\ \A a \in DOMAIN Assets : Assets[a].spec \in Nat
  /\ \A b \in DOMAIN Artifacts : \A f \in Artifacts[b] : f.spec \in Nat
  /\ \A n \in DOMAIN CHAINS : \A c \in DOMAIN CHAINS[n] :
       \A a \in DOMAIN Assets :
         a[1] \in DOMAIN CHAINS[n][c].runtime /\ a[3] = CHAINS[n][c].runtime[a[1]] =>
           Assets[a].of = c

\* The chains of a network are all live, and no list of latest releases is empty.
ASSUME LiveAssumption ==
  /\ Live0 \in [DOMAIN Live0 -> Nat]
  /\ \A n \in DOMAIN CHAINS : DOMAIN CHAINS[n] \subseteq DOMAIN Live0
  /\ \A r \in DOMAIN Latest : 1 \in DOMAIN Latest[r]

\* Each of the two is tried at least once.
ASSUME LimitAssumption == Limit \in [{"bite", "spawn"} -> Nat \ {0}]

VARIABLES
  live,       \* chain -> spec version on the live network
  latest,     \* repository -> the tag its latest release has
  npm,        \* <<package, version or dist-tag>> -> version
  request,    \* the request of this run
  engine,     \* the engine it checks out
  stage,      \* "plan", then "gate" or "refused"
  matrix,     \* the candidates
  clients,    \* package -> exact version, resolved by the plan job
  job         \* candidate id -> its job

world == <<live, latest, npm>>
planned == <<request, engine, stage, matrix, clients>>
vars == <<live, latest, npm, request, engine, stage, matrix, clients, job>>

-----------------------------------------------------------------------------
\* A runtime blob: the chain whose spec_name it declares, its spec version,
\* whether they can be read, whether it is compressed, its path, and the names
\* its path ends with.
runtimeSpecOf(blob) ==
  {s \in {[name |-> blob.of, spec |-> blob.spec]} : blob.readable}
Repos == DOMAIN Latest
Tags(repo) == {Latest[repo][i] : i \in DOMAIN Latest[repo]}
Files(build) == UNION {Artifacts[b] : b \in {build} \cap DOMAIN Artifacts}

\* The request, as an overlay and the clients it names.
ask == splitRunOptions(overlay(request.form))

(***************************************************************************)
(* The clients.                                                            *)
(***************************************************************************)
\* <<package, version or dist-tag>> pairs; no package twice, truapi apart.
parseSpecs(specs) ==
  /\ \A i, j \in DOMAIN specs : specs[i][1] = specs[j][1] => i = j
  /\ \A i \in DOMAIN specs : specs[i][1] # "truapi"

Specs(asked) ==
  IF <<"product_sdk">> \in DOMAIN asked THEN asked[<<"product_sdk">>] ELSE <<>>

wanted(asked) ==
  {Specs(asked)[i] : i \in DOMAIN Specs(asked)}
  \cup {<<"truapi", asked[f]>> : f \in {<<"truapi">>} \cap DOMAIN asked}

publishedVersion(spec) == npm[spec]

\* A package nothing installs would be replaced to no effect.
buildsOk(specs) ==
  \A spec \in specs : spec \in DOMAIN npm /\ spec[1] \in Installed

versions(specs) ==
  [n \in {spec[1] : spec \in specs} |->
     publishedVersion(CHOOSE spec \in specs : spec[1] = n)]

\* A job that resolves what was asked, dist-tags included.
applyAsked == versions(wanted(ask.clients))

\* Every job looks the resolved versions up again.
applyBuilds == versions({<<n, clients[n]>> : n \in DOMAIN clients})

(***************************************************************************)
(* The matrix.                                                             *)
(***************************************************************************)
\* X and Y: the two sides of a pull request, or the record and the request.
Before == IF request.flow = "pr" THEN request.base ELSE request.canonical
After == IF request.flow = "pr" THEN request.head
         ELSE mergeTarget(request.canonical, ask.target)

legal ==
  LET committed == IF request.flow = "pr" THEN request.head ELSE request.canonical
  IN /\ validateManifest(committed) /\ assertNoLocalPins(committed)
     /\ parseSpecs(Specs(ask.clients)) /\ buildsOk(wanted(ask.clients))
     /\ request.flow = "overlay" => mergeTargetOk(request.canonical, ask.target)
     /\ \A c \in candidateMatrix(Before, After) : validateManifest(c.manifest)

\* A pull request skips a network that cannot be forked; a request may try.
candidates ==
  IF request.flow = "pr" /\ ~NETWORK_META[After.network].gateable THEN {}
  ELSE candidateMatrix(Before, After)

NewJob(c) ==
  [pc |-> "clients", manifest |-> c.manifest, clients |-> <<>>, plan |-> <<>>,
   tries |-> 0, bitten |-> <<>>, fork |-> <<>>, runs |-> <<>>, keep |-> {}]

PlanRun ==
  /\ stage = "plan"
  /\ IF legal
     THEN /\ stage' = "gate"
          /\ matrix' = candidates
          /\ clients' = versions(wanted(ask.clients))
          /\ job' = [id \in {c.id : c \in candidates} |->
                       NewJob(CHOOSE c \in candidates : c.id = id)]
     ELSE /\ stage' = "refused"
          /\ UNCHANGED <<matrix, clients, job>>
  /\ UNCHANGED <<world, request, engine>>

(***************************************************************************)
(* One job, step by step.                                                  *)
(***************************************************************************)
CandidateOf(id) == CHOOSE c \in matrix : c.id = id
At(id, pc) == stage = "gate" /\ id \in DOMAIN job /\ job[id].pc = pc
Becomes(id, record) ==
  /\ job' = [job EXCEPT ![id] = record]
  /\ UNCHANGED <<world, planned>>
\* A failed job leaves nothing but its verdict.
Red(id) == [NewJob(CandidateOf(id)) EXCEPT !.pc = "red"]

ApplyClients(id) ==
  /\ At(id, "clients")
  /\ Becomes(id, [job[id] EXCEPT !.pc = "artifacts", !.clients = applyBuilds])

Built(m) == {c \in Names(m, "chains") : Pin(m, "chains", c).kind = "artifact"}

\* The artifacts a job downloads: those its manifest pins, as far as they exist.
Downloaded(m) == {Pin(m, "chains", c).from : c \in Built(m)} \cap DOMAIN Artifacts

\* <<artifact, file>> pairs: the files of an artifact, or all that were
\* downloaded when it came with none.
list(m, build) ==
  UNION {{b} \X Files(b) : b \in IF Files(build) # {} THEN {build} ELSE Downloaded(m)}

\* The files a build pin may mean: the one it names, or those that declare the
\* spec_name the live chain reports, a compressed one before a raw one.
hits(m, chain) ==
  LET pin == Pin(m, "chains", chain)
      files == list(m, pin.from)
      declared == {f \in files : \E s \in runtimeSpecOf(f[2]) : s.name = chain}
      compressed == {f \in declared : f[2].compressed}
  IN IF pin.tag # "any" THEN {f \in files : pin.tag \in f[2].ends}
     ELSE IF compressed # {} THEN compressed ELSE declared

resolveArtifactPins(m, chosen) ==
  [m EXCEPT !.pins =
     Over([p \in {<<"chains", c>> : c \in DOMAIN chosen} |->
             File(chosen[p[2]][1], chosen[p[2]][2].path)], @)]

MatchArtifacts(id) ==
  LET m == job[id].manifest IN
  /\ At(id, "artifacts")
  /\ \A c \in Built(m) : hits(m, c) # {}
  /\ \E chosen \in [Built(m) -> UNION {hits(m, c) : c \in Built(m)}] :
       /\ \A c \in Built(m) : chosen[c] \in hits(m, c)
       /\ Becomes(id, [job[id] EXCEPT !.pc = "resolve",
                         !.manifest = resolveArtifactPins(m, chosen)])

\* The file or the release asset a pin stands for now; none when it is missing.
blobs(m, chain) ==
  LET pin == Pin(m, "chains", chain)
      tags == IF pin.tag = "latest" THEN {latest[r] : r \in {pin.from} \cap Repos} ELSE {pin.tag}
      asset == CHAINS[m.network][chain].runtime[pin.from]
  IN IF pin.kind = "file" THEN {f \in Files(pin.from) : f.path = pin.tag}
     ELSE {Assets[a] : a \in ({pin.from} \X tags \X {asset}) \cap DOMAIN Assets}

Resolve(id) ==
  LET m == job[id].manifest IN
  /\ At(id, "resolve")
  /\ \A c \in Names(m, "chains") : blobs(m, c) # {}
  /\ Becomes(id, [job[id] EXCEPT !.pc = "bite",
       !.plan = [c \in Names(m, "chains") |-> CHOOSE b \in blobs(m, c) : TRUE]])

\* Attempts that nobody counts.
RetryForever(id) ==
  /\ At(id, "bite") \/ At(id, "spawn")
  /\ Becomes(id, [job[id] EXCEPT !.tries = 1 - @])

\* The fork and its start are tried more than once.
Retry(id) ==
  /\ At(id, "bite") \/ At(id, "spawn")
  /\ Becomes(id, IF job[id].tries + 1 = Limit[job[id].pc]
                 THEN Red(id)
                 ELSE [job[id] EXCEPT !.tries = @ + 1])

\* The fork is what live runs now.
Bite(id) ==
  /\ At(id, "bite")
  /\ Becomes(id, [job[id] EXCEPT !.pc = "assert", !.tries = 0,
                    !.bitten = live, !.fork = live])

\* A check that takes a binary that matches by default.
assertVersionsOnly(m, runs) ==
  /\ \A s \in networkSlots(m.network) :
       s \in Names(m, "binaries") /\ runs[s] = Pin(m, "binaries", s)
  /\ \A n \in DOMAIN ppnOverrides(m) \ networkSlots(m.network) :
       n \in DOMAIN runs /\ runs[n] = ppnOverrides(m)[n]

\* What the engine resolves under our overrides agrees with the map and the
\* pins; a binary whose override it ignored is refused though it match by default.
assertEngineAgrees(m, runs) ==
  /\ engine.wiring = [c \in DOMAIN CHAINS[m.network] |-> CHAINS[m.network][c].node]
  /\ \A s \in networkSlots(m.network) :
       s \in Names(m, "binaries") /\ runs[s] = Pin(m, "binaries", s) /\ s \in engine.obeys
  /\ \A n \in DOMAIN ppnOverrides(m) \ networkSlots(m.network) :
       n \in DOMAIN runs /\ runs[n] = ppnOverrides(m)[n]

AssertEngine(id) ==
  LET m == job[id].manifest
      obeyed == engine.obeys \cap DOMAIN ppnOverrides(m)
      runs == Over([n \in obeyed |-> ppnOverrides(m)[n]], engine.default)
  IN /\ At(id, "assert")
     /\ Becomes(id, IF assertEngineAgrees(m, runs)
                    THEN [job[id] EXCEPT !.pc = "spawn", !.runs = runs]
                    ELSE Red(id))

Spawn(id) ==
  /\ At(id, "spawn")
  /\ Becomes(id, [job[id] EXCEPT !.pc = "decide", !.tries = 0])

Supplied(m) == {c \in Names(m, "chains") : Pin(m, "chains", c).kind = "file"}

\* A supplied build that does not narrow the run to its chain.
ConsideredAll(m, steady) == IF steady THEN {} ELSE Names(m, "chains")

Considered(m, steady) ==
  IF steady THEN {} ELSE IF Supplied(m) # {} THEN Supplied(m) ELSE Names(m, "chains")

\* An older pin that is skipped like an equal one.
planNoDowngrade(m, plan, running, steady) ==
  LET known == {c \in Considered(m, steady) : runtimeSpecOf(plan[c]) # {} /\ c \in DOMAIN running}
  IN [keep   |-> (Considered(m, steady) \ known)
                 \cup {c \in known : plan[c].spec > running[c]},
      errors |-> {c \in known : plan[c].spec = running[c] /\ c \in Supplied(m)}]

\* Which chains are upgraded, and which of them make the run an error.
planUpgrades(m, plan, running, steady) ==
  LET known == {c \in Considered(m, steady) : runtimeSpecOf(plan[c]) # {} /\ c \in DOMAIN running}
  IN [keep   |-> (Considered(m, steady) \ known)
                 \cup {c \in known : plan[c].spec > running[c]},
      errors |-> {c \in known : \/ plan[c].spec < running[c]
                                \/ plan[c].spec = running[c] /\ c \in Supplied(m)}]

Decide(id) ==
  LET j == job[id]
      found == planUpgrades(j.manifest, j.plan, [c \in engine.records |-> j.fork[c]],
                            CandidateOf(id).steady)
  IN /\ At(id, "decide")
     /\ Becomes(id, IF found.errors # {} THEN Red(id)
                    ELSE [j EXCEPT !.pc = "upgrade", !.keep = found.keep])

\* One upgrade after another.  A chain takes only its own runtime, and newer;
\* what it runs already installs nothing, and another of that version is refused.
Upgrade(id) ==
  /\ At(id, "upgrade")
  /\ \E c \in job[id].keep :
       LET blob == job[id].plan[c]
           fork == job[id].fork
       IN \/ /\ blob.of = c /\ blob.spec >= fork[c]
             /\ Becomes(id, [job[id] EXCEPT !.fork[c] = blob.spec, !.keep = @ \ {c}])
          \/ /\ ~ (blob.of = c /\ blob.spec > fork[c])
             /\ Becomes(id, Red(id))

RunTests(id) ==
  /\ At(id, "upgrade") /\ job[id].keep = {}
  /\ Becomes(id, [job[id] EXCEPT !.pc = "green"])

Ended(id) == job[id].pc \in {"green", "red"}

\* Any step may fail, and does when what it needs is missing: the job is red.
StepFails(id) ==
  /\ stage = "gate" /\ id \in DOMAIN job /\ ~Ended(id)
  /\ Becomes(id, Red(id))

JobStep(id) ==
  \/ ApplyClients(id) \/ MatchArtifacts(id) \/ Resolve(id) \/ Bite(id) \/ Retry(id)
  \/ AssertEngine(id) \/ Spawn(id) \/ Decide(id) \/ Upgrade(id) \/ RunTests(id)
  \/ StepFails(id)

-----------------------------------------------------------------------------
(***************************************************************************)
(* Everything else moves on while the run works.                           *)
(***************************************************************************)
Deploy(c) ==
  /\ live[c] < MaxSpec[c]
  /\ live' = [live EXCEPT ![c] = @ + 1]
  /\ UNCHANGED <<latest, npm, planned, job>>

LatestMoves(repo) ==
  /\ \E i \in DOMAIN Latest[repo] :
       /\ i > 1 /\ Latest[repo][i - 1] = latest[repo]
       /\ latest' = [latest EXCEPT ![repo] = Latest[repo][i]]
  /\ UNCHANGED <<live, npm, planned, job>>

\* The dist-tag of a package moves to another of its versions.
NpmPublishes(n) ==
  /\ <<n, "dev">> \in DOMAIN npm
  /\ \E k \in DOMAIN npm :
       /\ k[1] = n /\ npm[k] # npm[<<n, "dev">>]
       /\ npm' = [npm EXCEPT ![<<n, "dev">>] = npm[k]]
  /\ UNCHANGED <<live, latest, planned, job>>

Ids == {"target", "binaries-only", "runtimes-only"}
RunStep == PlanRun \/ \E id \in Ids : JobStep(id)

Init ==
  /\ live = Live0 /\ npm = Npm0
  /\ latest = [r \in Repos |-> Latest[r][1]]
  /\ request \in Requests /\ engine \in Engines /\ stage = "plan"
  /\ matrix = {} /\ clients = <<>> /\ job = <<>>

Next ==
  \/ RunStep
  \/ \E c \in DOMAIN live : Deploy(c)
  \/ \E repo \in Repos : LatestMoves(repo)
  \/ \E n \in Installed : NpmPublishes(n)

\* The runner gets on with every job; nothing outside has to happen.
Spec == Init /\ [][Next]_vars /\ WF_vars(RunStep)
-----------------------------------------------------------------------------
TypeOK ==
  /\ live \in [DOMAIN Live0 -> Nat] /\ \A r \in Repos : latest[r] \in Tags(r)
  /\ request \in Requests /\ engine \in Engines /\ stage \in {"plan", "gate", "refused"}
  /\ DOMAIN job = {c.id : c \in matrix} /\ DOMAIN job \subseteq Ids
  /\ \A id \in DOMAIN job :
       /\ job[id].pc \in {"clients", "artifacts", "resolve", "bite", "assert", "spawn",
                         "decide", "upgrade", "green", "red"}
       /\ job[id].tries \in Nat
       /\ job[id].keep \subseteq Names(CandidateOf(id).manifest, "chains")

\* What a pin of a candidate may stand for in any of its jobs: the release
\* named, any that was latest, or a file of the artifact for that chain; where
\* that artifact came with no file, one of those the same candidate pins.
Means(m, c) ==
  LET pin == Pin(m, "chains", c)
      asset == CHAINS[m.network][c].runtime[pin.from]
      tags == IF pin.tag = "latest" THEN UNION {Tags(r) : r \in {pin.from} \cap Repos}
                                     ELSE {pin.tag}
  IN IF isEphemeral(pin) THEN {f \in {l[2] : l \in list(m, pin.from)} : f.of = c}
     ELSE {Assets[a] : a \in ({pin.from} \X tags \X {asset}) \cap DOMAIN Assets}

RunsPin(id, c) ==
  \E b \in Means(CandidateOf(id).manifest, c) : b.of = c /\ b.spec = job[id].fork[c]

Asked(m) == {c \in Names(m, "chains") : isEphemeral(Pin(m, "chains", c))}

\* A green candidate really tested what it was about: every chain it considered
\* runs the version its pin stands for, the supplied builds if there are any and
\* otherwise every pin, though the chain was deployed to, the release moved, the
\* fork did not say what it runs or an artifact was searched for another's build.
GreenRunsItsPins ==
  \A id \in DOMAIN job :
    LET c == CandidateOf(id)
        m == c.manifest
        judged == IF Asked(m) # {} THEN Asked(m) ELSE Names(m, "chains")
    IN job[id].pc = "green" /\ m.pins # Before.pins =>
         \A chain \in judged : RunsPin(id, chain)

\* A run changes no chain it was not asked about: none when no pin moves, a
\* request for clients alone included, and only those with a supplied build
\* when there are any.
OnlyTheAskIsTouched ==
  \A id \in DOMAIN job :
    LET m == CandidateOf(id).manifest
        untouched == IF m.pins = Before.pins THEN DOMAIN job[id].fork
                     ELSE IF Asked(m) = {} THEN {}
                     ELSE DOMAIN job[id].fork \ Asked(m)
    IN \A c \in untouched : job[id].fork[c] = job[id].bitten[c]

\* All jobs of a run test the same clients, whenever each of them installs and
\* wherever the dist-tag has moved by then.
OneClientForAll ==
  \A i, j \in DOMAIN job :
    "clients" \notin {job[i].pc, job[j].pc} /\ "red" \notin {job[i].pc, job[j].pc} =>
      job[i].clients = job[j].clients /\ DOMAIN job[i].clients = DOMAIN clients

\* The cross terms part the request between them: each move of the target is
\* made by exactly one of them, neither is the target or the record again, and
\* neither decides the run.
CrossTermsSplitTheAsk ==
  LET cross == {c \in matrix : c.id # "target"}
      target == CandidateOf("target")
  IN cross # {} =>
       /\ UNION {c.transitions : c \in cross} = target.transitions
       /\ \A c \in cross : /\ ~c.gating /\ c.manifest.pins \notin {target.manifest.pins, Before.pins}
                           /\ \A d \in cross \ {c} : c.transitions \cap d.transitions = {}

\* A job that got past the engine's check runs every binary and every service
\* the engine can override from the pins of its own candidate; the binaries
\* because of them, so that another pin would not have run the same one.
SpawnedOnItsPins ==
  \A id \in DOMAIN job :
    LET m == CandidateOf(id).manifest IN
    job[id].pc \in {"spawn", "decide", "upgrade", "green"} =>
      /\ \A s \in Names(m, "binaries") :
           job[id].runs[s] = Pin(m, "binaries", s) /\ s \in engine.obeys
      /\ \A n \in Names(m, "services") :
           SERVICES[m.network][n].delivery = "override" =>
             job[id].runs[n] = Pin(m, "services", n)

\* Whatever fails and is tried again, every job comes to a verdict.
RunEnds == <>(stage # "plan" /\ \A id \in DOMAIN job : Ended(id))

\* "What X -> Y did this run prove": a green gating job runs every runtime that
\* its summary lists as tested (release-map.mjs:575).
GreenTestsItsTransitions ==
  \A id \in DOMAIN job :
    job[id].pc = "green" /\ CandidateOf(id).gating =>
      \A p \in CandidateOf(id).transitions : p[1] = "chains" => RunsPin(id, p[2])
=============================================================================
