-------------------------- MODULE ReleaseGate_proofs --------------------------
(***************************************************************************)
(* Theorems about ReleaseGate, for every set of requests, releases,        *)
(* builds, engines and limits.                                             *)
(***************************************************************************)
EXTENDS ReleaseGate, ReleaseMap_proofs, FiniteSetTheorems, TLAPS

Fields == {"pc", "manifest", "clients", "plan", "tries", "bitten", "fork", "runs", "keep"}
Past == {"spawn", "decide", "upgrade", "green"}

\* A job keeps the binaries and services of its candidate and, of the chains,
\* the names; once the builds are found, each of them is a file.
SamePins(m, c) ==
  /\ ManifestOk(m) /\ m.network = c.network
  /\ \A d \in Dims : Names(m, d) = Names(c, d)
  /\ \A d \in {"binaries", "services"} : \A n \in Names(c, d) : Pin(m, d, n) = Pin(c, d, n)

RunsItsPins(runs, obeys, m) ==
  /\ \A s \in Names(m, "binaries") : runs[s] = Pin(m, "binaries", s) /\ s \in obeys
  /\ \A n \in Names(m, "services") :
       SERVICES[m.network][n].delivery = "override" => runs[n] = Pin(m, "services", n)

\* The chains a job has upgraded, or will, are those its candidate considers.
OnlyConsidered(j, considered) ==
  /\ DOMAIN j.fork = DOMAIN j.bitten
  /\ \A x \in DOMAIN j.fork \ considered : j.fork[x] = j.bitten[x]
  /\ j.keep \subseteq considered

JobOk(j, c) ==
  /\ DOMAIN j = Fields
  /\ SamePins(j.manifest, c.manifest)
  /\ j.pc \in {"clients", "artifacts"} => j.manifest = c.manifest
  /\ j.pc \in {"clients", "red"} \/ j.clients = clients
  /\ j.pc \in {"clients", "artifacts", "red"} \/ Supplied(j.manifest) = Asked(c.manifest)
  /\ j.pc \in Past => RunsItsPins(j.runs, engine.obeys, c.manifest)
  /\ IF j.pc \in {"upgrade", "green"} THEN OnlyConsidered(j, Considered(j.manifest, c.steady))
                                      ELSE j.fork = j.bitten

\* The versions that were resolved stand for themselves.
ClientsFixed ==
  /\ clients = [n \in DOMAIN clients |-> clients[n]]
  /\ \A n \in DOMAIN clients :
       /\ <<n, clients[n]>> \in DOMAIN npm /\ npm[<<n, clients[n]>>] = clients[n]
       /\ clients[n] # "dev"

NpmOk ==
  \A k \in DOMAIN npm :
    npm[k] # "dev" /\ <<k[1], npm[k]>> \in DOMAIN npm /\ npm[<<k[1], npm[k]>>] = npm[k]

CandidatesOk(cs) ==
  \A c \in cs :
    /\ ManifestOk(c.manifest) /\ validateManifest(c.manifest)
    /\ c.steady <=> c.manifest.pins = Before.pins

Plan ==
  /\ request \in Requests
  /\ CandidatesOk(matrix)
  /\ DOMAIN job = {c.id : c \in matrix}

IInv ==
  /\ Plan
  /\ NpmOk /\ ClientsFixed
  /\ \A id \in DOMAIN job : JobOk(job[id], CandidateOf(id))

-----------------------------------------------------------------------------
(***************************************************************************)
(* The plan job.                                                           *)
(***************************************************************************)
\* The overlay of a form goes by paths as well.
LEMMA PathsOfAsk ==
  ASSUME request \in Requests, request.flow = "overlay" PROVE PathsOk(ask.target)
<1>1. \A values, fields : fields \subseteq FIELDS => PathsOk(assemble(values, fields))
  <2> TAKE values, fields
  <2> HAVE fields \subseteq FIELDS
  <2>1. \A p \in FIELDS : p[1] \in Dims => p = <<p[1], p[2]>>
    BY DEF FIELDS, ClientFields, Dims
  <2> DEFINE a == assemble(values, fields)
  <2>2. DOMAIN a \subseteq FIELDS /\ a = [p \in DOMAIN a |-> a[p]]
    BY DEF assemble
  <2> HIDE DEF a
  <2> QED
    BY <2>1, <2>2 DEF PathsOk, a
<1>2. PathsOk(overlay(request.form))
  <2>1. CASE request.form.advanced = <<>>
    BY <1>1, <2>1 DEF overlay
  <2>2. CASE request.form.advanced # <<>>
    <3>1. PathsOk(request.form.advanced[1])
      BY <2>2, RequestsAssumption
    <3>2. PathsOk(assemble(request.form.values, ClientFields))
      BY <1>1 DEF FIELDS
    <3> QED
      BY <2>2, <3>1, <3>2, PathsOver DEF overlay
  <2> QED
    BY <2>1, <2>2
<1> DEFINE o == overlay(request.form)
<1>3. ask.target = [p \in DOMAIN o \ RUN_OPTIONS |-> o[p]]
  BY RequestsAssumption DEF ask, splitRunOptions
<1> HIDE DEF o
<1> QED
  BY <1>2, <1>3 DEF PathsOk, o

LEMMA SidesOk ==
  ASSUME request \in Requests PROVE ManifestOk(Before) /\ ManifestOk(After)
<1>1. CASE request.flow = "pr"
  BY <1>1, RequestsAssumption DEF Before, After
<1>2. CASE request.flow # "pr"
  <2>1. request.flow = "overlay" /\ ManifestOk(request.canonical)
    BY <1>2, RequestsAssumption
  <2> DEFINE pins == [p \in {q \in DOMAIN ask.target : q[1] \in Dims} |-> ask.target[p]]
  <2>2. PinsOk(pins)
    BY <2>1, PathsOfAsk DEF PathsOk, PinsOk
  <2>3. PinsOk(Over(pins, request.canonical.pins))
    BY <2>1, <2>2, PathsOver DEF ManifestOk, PinsOk
  <2>4. After = mergeTarget(request.canonical, ask.target)
    BY <1>2 DEF After
  <2>5. DOMAIN After = DOMAIN request.canonical
    BY <2>4 DEF mergeTarget
  <2>6. After.pins = Over(pins, request.canonical.pins)
    BY <2>1, <2>4 DEF mergeTarget, ManifestOk
  <2> HIDE DEF pins
  <2> QED
    BY <1>2, <2>1, <2>3, <2>5, <2>6 DEF Before, ManifestOk
<1> QED
  BY <1>1, <1>2

LEMMA CandidatesAreOk ==
  ASSUME request \in Requests, legal PROVE CandidatesOk(candidates)
<1>1. candidates \subseteq candidateMatrix(Before, After)
  BY DEF candidates
<1>2. \A c \in candidateMatrix(Before, After) : validateManifest(c.manifest)
  BY DEF legal
<1> QED
  BY <1>1, <1>2, SidesOk, MatrixOk DEF CandidatesOk

\* What was resolved resolves to itself.
LEMMA ResolvedFixed ==
  ASSUME request \in Requests, legal, NpmOk, UNCHANGED npm,
         clients' = versions(wanted(ask.clients))
  PROVE  ClientsFixed'
<1> DEFINE specs == wanted(ask.clients)
<1>1. \A s \in specs : s \in DOMAIN npm
  BY DEF legal, buildsOk
<1> HIDE DEF specs
<1>2. clients' = [n \in {s[1] : s \in specs} |-> npm[CHOOSE s \in specs : s[1] = n]]
  BY DEF versions, publishedVersion, specs
<1>3. ASSUME NEW n \in DOMAIN clients'
      PROVE  /\ <<n, clients'[n]>> \in DOMAIN npm /\ npm[<<n, clients'[n]>>] = clients'[n]
             /\ clients'[n] # "dev"
  <2>1. \E s \in specs : s[1] = n
    BY <1>2, <1>3
  <2>2. PICK s \in specs : s[1] = n /\ clients'[n] = npm[s]
    BY <1>2, <1>3, <2>1
  <2> QED
    BY <1>1, <2>2 DEF NpmOk
<1> QED
  BY <1>2, <1>3 DEF ClientsFixed

LEMMA BuildsFixed == ASSUME ClientsFixed PROVE applyBuilds = clients
<1> DEFINE specs == {<<n, clients[n]>> : n \in DOMAIN clients}
<1>1. {s[1] : s \in specs} = DOMAIN clients
  <2>1. \A n \in DOMAIN clients : <<n, clients[n]>> \in specs /\ <<n, clients[n]>>[1] = n
    OBVIOUS
  <2>2. \A s \in specs : s[1] \in DOMAIN clients
    OBVIOUS
  <2> HIDE DEF specs
  <2> QED
    BY <2>1, <2>2
<1>2. \A n \in DOMAIN clients : (CHOOSE s \in specs : s[1] = n) = <<n, clients[n]>>
  OBVIOUS
<1>3. applyBuilds = [n \in {s[1] : s \in specs} |-> npm[CHOOSE s \in specs : s[1] = n]]
  BY DEF applyBuilds, versions, publishedVersion
<1> HIDE DEF specs
<1>4. applyBuilds = [n \in DOMAIN clients |-> clients[n]]
  BY <1>1, <1>2, <1>3 DEF ClientsFixed
<1> QED
  BY <1>4 DEF ClientsFixed

-----------------------------------------------------------------------------
(***************************************************************************)
(* The steps of a job.                                                     *)
(***************************************************************************)
\* A job that has just begun, or failed, has its candidate's manifest.
LEMMA FreshOk ==
  ASSUME NEW c, ManifestOk(c.manifest), NEW p \in {"clients", "red"}
  PROVE  JobOk([NewJob(c) EXCEPT !.pc = p], c)
  BY DEF JobOk, NewJob, Fields, SamePins, Past

\* What the id of a job says of its candidate.
LEMMA Candidates ==
  ASSUME Plan, NEW id \in DOMAIN job
  PROVE  /\ CandidateOf(id) \in matrix
         /\ ManifestOk(CandidateOf(id).manifest) /\ validateManifest(CandidateOf(id).manifest)
         /\ (CandidateOf(id).steady <=> CandidateOf(id).manifest.pins = Before.pins)
<1>1. \E c \in matrix : c.id = id
  BY DEF Plan
<1>2. CandidateOf(id) \in matrix
  BY <1>1 DEF CandidateOf
<1> QED
  BY <1>2 DEF Plan, CandidatesOk

\* Pinning the builds to their files leaves everything else as it was.
LEMMA ResolvedPins ==
  ASSUME NEW m, ManifestOk(m), NEW chosen, DOMAIN chosen = Built(m)
  PROVE  LET r == resolveArtifactPins(m, chosen)
         IN SamePins(r, m) /\ Supplied(r) = Asked(m)
<1> DEFINE r == resolveArtifactPins(m, chosen)
           files == [p \in {<<"chains", c>> : c \in DOMAIN chosen} |->
                       File(chosen[p[2]][1], chosen[p[2]][2].path)]
<1>1. DOMAIN r = DOMAIN m /\ r.network = m.network /\ r.pins = Over(files, m.pins)
  BY DEF resolveArtifactPins, ManifestOk
<1>2. \A p \in DOMAIN files : p[1] = "chains" /\ p = <<"chains", p[2]>> /\ p[2] \in Built(m)
  OBVIOUS
<1>3. \A c \in Built(m) : <<"chains", c>> \in DOMAIN files /\ files[<<"chains", c>>].kind = "file"
  BY DEF File
<1>4. Built(m) \subseteq Names(m, "chains")
  BY DEF Built
<1> HIDE DEF files, r
<1>f. files = [p \in DOMAIN files |-> files[p]]
  BY DEF files
<1>5. PinsOk(files)
  BY <1>2, <1>f DEF PinsOk, PathsOk, Dims
<1>6. ManifestOk(r)
  BY <1>1, <1>5, PathsOver DEF ManifestOk, PinsOk
<1>7. DOMAIN r.pins = DOMAIN files \cup DOMAIN m.pins
  BY <1>1 DEF Over
<1>8. \A d \in Dims : Names(r, d) = Names(m, d)
  <2>1. ASSUME NEW d \in Dims, NEW n \in Names(m, d) PROVE n \in Names(r, d)
    BY <1>7, <2>1 DEF Names
  <2>2. ASSUME NEW d \in Dims, NEW n \in Names(r, d) PROVE n \in Names(m, d)
    <3>1. PICK p \in DOMAIN r.pins : p[1] = d /\ p[2] = n
      BY <2>2 DEF Names
    <3>2. CASE p \in DOMAIN files
      BY <1>2, <1>4, <3>1, <3>2
    <3>3. CASE p \in DOMAIN m.pins
      BY <3>1, <3>3 DEF Names
    <3> QED
      BY <1>7, <3>2, <3>3
  <2> QED
    BY <2>1, <2>2
<1>9. \A d \in Dims : \A n \in Names(m, d) : <<d, n>> \in DOMAIN m.pins
  BY DEF Names, ManifestOk, PinsOk, PathsOk
<1>10. \A p \in DOMAIN m.pins : p \notin DOMAIN files => r.pins[p] = m.pins[p]
  BY <1>1 DEF Over
<1>11. \A d \in {"binaries", "services"} : \A n \in Names(m, d) : Pin(r, d, n) = Pin(m, d, n)
  <2>1. ASSUME NEW d \in {"binaries", "services"}, NEW n \in Names(m, d)
        PROVE  <<d, n>> \notin DOMAIN files
    BY <1>2
  <2> QED
    BY <1>9, <1>10, <2>1 DEF Pin, Dims
<1>12. \A c \in Names(m, "chains") :
         Pin(r, "chains", c).kind = "file" <=> isEphemeral(Pin(m, "chains", c))
  <2> TAKE c \in Names(m, "chains")
  <2>1. CASE c \in Built(m)
    <3>1. r.pins[<<"chains", c>>] = files[<<"chains", c>>]
      BY <1>1, <1>3, <2>1 DEF Over
    <3> QED
      BY <1>3, <2>1, <3>1 DEF Pin, Built, isEphemeral
  <2>2. CASE c \notin Built(m)
    <3>1. <<"chains", c>> \notin DOMAIN files
      BY <1>2, <2>2
    <3>2. Pin(r, "chains", c) = Pin(m, "chains", c)
      BY <1>9, <1>10, <3>1 DEF Pin, Dims
    <3> QED
      BY <2>2, <3>2 DEF Built, isEphemeral
  <2> QED
    BY <2>1, <2>2
<1>13. Supplied(r) = Asked(m)
  BY <1>8, <1>12 DEF Supplied, Asked, Dims
<1> QED
  BY <1>1, <1>6, <1>8, <1>11, <1>13 DEF SamePins, r

\* The check of the engine holds every pin of the job against what would run.
LEMMA EngineRunsPins ==
  ASSUME NEW c, NEW m, NEW runs, validateManifest(c), SamePins(m, c),
         assertEngineAgrees(m, runs)
  PROVE  RunsItsPins(runs, engine.obeys, c)
<1>1. c.network \in DOMAIN CHAINS /\ m.network = c.network
  BY DEF validateManifest, SamePins
<1>2. \A d \in {"binaries", "services"} :
        Names(m, d) = Names(c, d) /\ \A n \in Names(c, d) : Pin(m, d, n) = Pin(c, d, n)
  BY DEF SamePins, Dims
<1>3. Names(c, "binaries") \subseteq networkSlots(c.network)
  BY DEF validateManifest, networkSlots
<1>4. \A s \in Names(c, "binaries") : runs[s] = Pin(c, "binaries", s) /\ s \in engine.obeys
  BY <1>1, <1>2, <1>3 DEF assertEngineAgrees
<1>5. ASSUME NEW n \in Names(c, "services"),
             SERVICES[c.network][n].delivery = "override"
      PROVE  runs[n] = Pin(c, "services", n)
  <2>1. n \notin Slots
    <3>1. n \in DOMAIN SERVICES[c.network]
      BY <1>5 DEF validateManifest, binaryPlanOk
    <3>2. DOMAIN CHAINS = DOMAIN SERVICES
      BY DEF CHAINS, SERVICES
    <3> QED
      BY <1>1, <3>1, <3>2, ServiceNames
  <2>2. n \notin networkSlots(c.network) /\ n \notin Names(m, "binaries")
    BY <1>1, <1>2, <1>3, <2>1, SlotNames
  <2> DEFINE pins == [s \in Names(m, "binaries") |-> Pin(m, "binaries", s)]
             over == [s \in {t \in Names(m, "services") :
                               SERVICES[m.network][t].delivery = "override"} |->
                        Pin(m, "services", s)]
  <2>3. ppnOverrides(m) = Over(pins, over)
    BY DEF ppnOverrides
  <2>4. n \in DOMAIN over /\ n \notin DOMAIN pins /\ over[n] = Pin(c, "services", n)
    BY <1>1, <1>2, <1>5, <2>2
  <2> HIDE DEF pins, over
  <2>5. n \in DOMAIN ppnOverrides(m) /\ ppnOverrides(m)[n] = Pin(c, "services", n)
    BY <2>3, <2>4 DEF Over
  <2> QED
    BY <1>1, <2>2, <2>5 DEF assertEngineAgrees
<1> QED
  BY <1>4, <1>5 DEF RunsItsPins

\* Only chains that the manifest names are considered.
LEMMA ConsideredNamed ==
  ASSUME NEW m, NEW steady PROVE Considered(m, steady) \subseteq Names(m, "chains")
  BY DEF Considered, Supplied

\* Whatever is left to upgrade is among the chains considered.
LEMMA KeepConsidered ==
  ASSUME NEW m, NEW plan, NEW running, NEW steady
  PROVE  planUpgrades(m, plan, running, steady).keep \subseteq Considered(m, steady)
  BY DEF planUpgrades

\* A step of a job keeps what its record promises.
LEMMA JobStepOk ==
  ASSUME IInv, NEW id, JobStep(id)
  PROVE  /\ id \in DOMAIN job /\ UNCHANGED <<world, planned>>
         /\ \E j : job' = [job EXCEPT ![id] = j] /\ JobOk(j, CandidateOf(id))
<1>1. id \in DOMAIN job
  BY Zenon DEF JobStep, ApplyClients, MatchArtifacts, Resolve, Bite, Retry, AssertEngine,
         Spawn, Decide, Upgrade, RunTests, StepFails, At
<1> DEFINE c == CandidateOf(id)
<1>2. ManifestOk(c.manifest) /\ validateManifest(c.manifest)
  BY <1>1, Candidates DEF IInv
<1>3. JobOk(job[id], c) /\ DOMAIN job[id] = Fields
  BY <1>1 DEF IInv, JobOk
<1>4. JobOk(Red(id), c)
  BY <1>2, FreshOk DEF Red
<1> HIDE DEF c
<1> SUFFICES \E j : Becomes(id, j) /\ JobOk(j, c)
  BY <1>1 DEF Becomes, c
<1>5. CASE ApplyClients(id)
  <2>1. applyBuilds = clients
    BY BuildsFixed DEF IInv
  <2>2. Becomes(id, [job[id] EXCEPT !.pc = "artifacts", !.clients = clients])
    BY <1>5, <2>1 DEF ApplyClients
  <2>3. job[id].pc = "clients"
    BY <1>5 DEF ApplyClients, At
  <2>4. JobOk([job[id] EXCEPT !.pc = "artifacts", !.clients = clients], c)
    BY <1>3, <2>3 DEF JobOk, Fields, Past
  <2> QED
    BY <2>2, <2>4
<1>6. CASE MatchArtifacts(id)
  <2>1. job[id].pc = "artifacts" /\ job[id].manifest = c.manifest
    BY <1>3, <1>6 DEF MatchArtifacts, At, JobOk
  <2>2. PICK chosen : /\ DOMAIN chosen = Built(c.manifest)
                      /\ Becomes(id, [job[id] EXCEPT !.pc = "resolve",
                           !.manifest = resolveArtifactPins(c.manifest, chosen)])
    BY <1>6, <2>1 DEF MatchArtifacts
  <2> DEFINE m == resolveArtifactPins(c.manifest, chosen)
  <2>3. SamePins(m, c.manifest) /\ Supplied(m) = Asked(c.manifest)
    BY <1>2, <2>2, ResolvedPins
  <2> HIDE DEF m
  <2>4. JobOk([job[id] EXCEPT !.pc = "resolve", !.manifest = m], c)
    BY <1>3, <2>1, <2>3 DEF JobOk, Fields, Past
  <2> QED
    BY <2>2, <2>4 DEF m
<1>7. CASE Resolve(id)
  <2>1. PICK plan : Becomes(id, [job[id] EXCEPT !.pc = "bite", !.plan = plan])
    BY <1>7 DEF Resolve
  <2>2. job[id].pc = "resolve"
    BY <1>7 DEF Resolve, At
  <2>3. JobOk([job[id] EXCEPT !.pc = "bite", !.plan = plan], c)
    BY <1>3, <2>2 DEF JobOk, Fields, Past
  <2> QED
    BY <2>1, <2>3
<1>8. CASE Bite(id)
  <2>1. job[id].pc = "bite"
    BY <1>8 DEF Bite, At
  <2>2. JobOk([job[id] EXCEPT !.pc = "assert", !.tries = 0, !.bitten = live, !.fork = live], c)
    BY <1>3, <2>1 DEF JobOk, Fields, Past
  <2> QED
    BY <1>8, <2>2 DEF Bite
<1>9. CASE Retry(id)
  <2>1. job[id].pc \in {"bite", "spawn"}
    BY <1>9 DEF Retry, At
  <2>2. JobOk([job[id] EXCEPT !.tries = @ + 1], c)
    BY <1>3, <2>1 DEF JobOk, Fields, Past
  <2> QED
    BY <1>4, <1>9, <2>2 DEF Retry
<1>10. CASE AssertEngine(id)
  <2>1. job[id].pc = "assert" /\ SamePins(job[id].manifest, c.manifest)
    BY <1>3, <1>10 DEF AssertEngine, At, JobOk
  <2>2. PICK runs : Becomes(id, IF assertEngineAgrees(job[id].manifest, runs)
                                THEN [job[id] EXCEPT !.pc = "spawn", !.runs = runs]
                                ELSE Red(id))
    BY <1>10 DEF AssertEngine
  <2>3. CASE assertEngineAgrees(job[id].manifest, runs)
    <3>1. RunsItsPins(runs, engine.obeys, c.manifest)
      BY <1>2, <2>1, <2>3, EngineRunsPins
    <3>2. JobOk([job[id] EXCEPT !.pc = "spawn", !.runs = runs], c)
      BY <1>3, <2>1, <3>1 DEF JobOk, Fields, Past
    <3> QED
      BY <2>2, <2>3, <3>2
  <2>4. CASE ~assertEngineAgrees(job[id].manifest, runs)
    BY <1>4, <2>2, <2>4
  <2> QED
    BY <2>3, <2>4
<1>11. CASE Spawn(id)
  <2>1. job[id].pc = "spawn"
    BY <1>11 DEF Spawn, At
  <2>2. JobOk([job[id] EXCEPT !.pc = "decide", !.tries = 0], c)
    BY <1>3, <2>1 DEF JobOk, Fields, Past
  <2> QED
    BY <1>11, <2>2 DEF Spawn
<1>12. CASE Decide(id)
  <2>1. job[id].pc = "decide" /\ job[id].fork = job[id].bitten
    BY <1>3, <1>12 DEF Decide, At, JobOk
  <2>2. PICK keep : /\ keep \subseteq Considered(job[id].manifest, c.steady)
                    /\ \/ Becomes(id, Red(id))
                       \/ Becomes(id, [job[id] EXCEPT !.pc = "upgrade", !.keep = keep])
    BY <1>12, KeepConsidered DEF Decide, c
  <2>3. OnlyConsidered([job[id] EXCEPT !.pc = "upgrade", !.keep = keep],
                       Considered(job[id].manifest, c.steady))
    BY <1>3, <2>1, <2>2 DEF OnlyConsidered, Fields
  <2>4. JobOk([job[id] EXCEPT !.pc = "upgrade", !.keep = keep], c)
    BY <1>3, <2>1, <2>3 DEF JobOk, Fields, Past
  <2> QED
    BY <1>4, <2>2, <2>4
<1>13. CASE Upgrade(id)
  <2>1. /\ job[id].pc = "upgrade"
        /\ OnlyConsidered(job[id], Considered(job[id].manifest, c.steady))
    BY <1>3, <1>13 DEF Upgrade, At, JobOk
  <2>2. PICK x, spec :
          /\ x \in job[id].keep
          /\ \/ Becomes(id, Red(id))
             \/ Becomes(id, [job[id] EXCEPT !.fork[x] = spec, !.keep = @ \ {x}])
    BY <1>13 DEF Upgrade
  <2> DEFINE j == [job[id] EXCEPT !.fork[x] = spec, !.keep = @ \ {x}]
  <2>3. /\ DOMAIN j = Fields /\ \A f \in Fields \ {"fork", "keep"} : j[f] = job[id][f]
        /\ j.fork = [job[id].fork EXCEPT ![x] = spec] /\ j.keep = job[id].keep \ {x}
    BY <1>3 DEF Fields
  <2>4. /\ j.pc = "upgrade" /\ j.manifest = job[id].manifest /\ j.clients = job[id].clients
        /\ j.runs = job[id].runs /\ j.bitten = job[id].bitten
    BY <2>1, <2>3 DEF Fields
  <2> HIDE DEF j
  <2>5. OnlyConsidered(j, Considered(j.manifest, c.steady))
    BY <2>1, <2>2, <2>3, <2>4 DEF OnlyConsidered
  <2>6. JobOk(j, c)
    BY <1>3, <2>1, <2>3, <2>4, <2>5 DEF JobOk, Past
  <2> QED
    BY <1>4, <2>2, <2>6 DEF j
<1>14. CASE RunTests(id)
  <2>1. job[id].pc = "upgrade"
    BY <1>14 DEF RunTests, At
  <2>2. JobOk([job[id] EXCEPT !.pc = "green"], c)
    BY <1>3, <2>1 DEF JobOk, Fields, Past, OnlyConsidered
  <2> QED
    BY <1>14, <2>2 DEF RunTests
<1>15. CASE StepFails(id)
  BY <1>4, <1>15 DEF StepFails
<1> QED
  BY <1>5, <1>6, <1>7, <1>8, <1>9, <1>10, <1>11, <1>12, <1>13, <1>14, <1>15, Zenon
  DEF JobStep

-----------------------------------------------------------------------------
LEMMA InitInv == ASSUME Init PROVE IInv
<1>1. matrix = {} /\ DOMAIN job = {} /\ DOMAIN clients = {} /\ clients = <<>>
  BY DEF Init
<1>2. ClientsFixed
  BY <1>1 DEF ClientsFixed
<1>3. NpmOk
  BY NpmAssumption DEF Init, NpmOk
<1>4. Plan
  BY <1>1 DEF Init, Plan, CandidatesOk
<1> QED
  BY <1>1, <1>2, <1>3, <1>4 DEF IInv

LEMMA PlanStep == ASSUME IInv, PlanRun PROVE IInv'
<1>1. request \in Requests /\ UNCHANGED <<world, request, engine>> /\ NpmOk
  BY DEF PlanRun, IInv, Plan
<1>2. CASE legal
  <2>1. /\ matrix' = candidates /\ clients' = versions(wanted(ask.clients))
        /\ job' = [id \in {c.id : c \in candidates} |->
                     NewJob(CHOOSE c \in candidates : c.id = id)]
    BY <1>2 DEF PlanRun
  <2>2. CandidatesOk(candidates)
    BY <1>1, <1>2, CandidatesAreOk
  <2>3. Plan'
    BY <1>1, <2>1, <2>2 DEF Plan, CandidatesOk, Before
  <2>4. NpmOk' /\ ClientsFixed'
    BY <1>1, <1>2, <2>1, ResolvedFixed DEF world, NpmOk
  <2>5. ASSUME NEW id \in DOMAIN job' PROVE JobOk(job[id], CandidateOf(id))'
    <3>1. \E d \in candidates : d.id = id
      BY <2>1, <2>5
    <3>2. PICK c \in candidates : CandidateOf(id)' = c /\ job'[id] = NewJob(c)
      BY <2>1, <2>5, <3>1 DEF CandidateOf
    <3>3. ManifestOk(c.manifest)
      BY <2>2 DEF CandidatesOk
    <3> QED
      BY <3>2, <3>3 DEF JobOk, NewJob, Fields, SamePins, Past
  <2> QED
    BY <2>3, <2>4, <2>5 DEF IInv
<1>3. CASE ~legal
  <2>1. UNCHANGED <<npm, request, engine, matrix, clients, job>>
    BY <1>3 DEF PlanRun, world
  <2> QED
    BY <2>1 DEF IInv, Plan, CandidatesOk, Before, NpmOk, ClientsFixed, CandidateOf, JobOk
<1> QED
  BY <1>2, <1>3

LEMMA StepInv == ASSUME IInv, [Next]_vars PROVE IInv'
<1>1. CASE PlanRun
  BY <1>1, PlanStep
<1>2. ASSUME NEW id, JobStep(id) PROVE IInv'
  <2>1. /\ id \in DOMAIN job /\ UNCHANGED <<world, planned>>
    BY <1>2, JobStepOk
  <2>2. PICK j : job' = [job EXCEPT ![id] = j] /\ JobOk(j, CandidateOf(id))
    BY <1>2, JobStepOk
  <2>3. UNCHANGED <<npm, request, engine, matrix, clients>> /\ DOMAIN job' = DOMAIN job
    BY <2>1, <2>2 DEF world, planned
  <2>4. Plan' /\ NpmOk' /\ ClientsFixed'
    BY <2>3 DEF IInv, Plan, CandidatesOk, Before, NpmOk, ClientsFixed
  <2>5. ASSUME NEW i \in DOMAIN job' PROVE JobOk(job'[i], CandidateOf(i))
    <3>1. CASE i = id
      BY <2>1, <2>2, <3>1
    <3>2. CASE i # id
      BY <2>2, <2>3, <2>5, <3>2 DEF IInv
    <3> QED
      BY <3>1, <3>2
  <2>6. \A i \in DOMAIN job' : JobOk(job[i], CandidateOf(i))'
    BY <2>3, <2>5 DEF JobOk, CandidateOf
  <2> QED
    BY <2>4, <2>6 DEF IInv
<1>3. ASSUME NEW x, Deploy(x) \/ LatestMoves(x) PROVE IInv'
  <2>1. UNCHANGED <<npm, request, engine, matrix, clients, job>>
    BY <1>3 DEF Deploy, LatestMoves, planned
  <2> QED
    BY <2>1 DEF IInv, Plan, CandidatesOk, Before, NpmOk, ClientsFixed, CandidateOf, JobOk
<1>4. ASSUME NEW n, NpmPublishes(n) PROVE IInv'
  <2>1. UNCHANGED <<request, engine, matrix, clients, job>>
    BY <1>4 DEF NpmPublishes, planned
  <2>2. PICK k \in DOMAIN npm : k[1] = n /\ npm' = [npm EXCEPT ![<<n, "dev">>] = npm[k]]
    BY <1>4 DEF NpmPublishes
  <2>3. npm[k] # "dev" /\ <<n, npm[k]>> \in DOMAIN npm /\ npm[<<n, npm[k]>>] = npm[k]
    BY <2>2 DEF IInv, NpmOk
  <2>4. \A q \in DOMAIN npm : q # <<n, "dev">> => npm'[q] = npm[q]
    BY <2>2
  <2>5. NpmOk'
    <3> SUFFICES ASSUME NEW q \in DOMAIN npm
                 PROVE  /\ npm'[q] # "dev" /\ <<q[1], npm'[q]>> \in DOMAIN npm
                        /\ npm'[<<q[1], npm'[q]>>] = npm'[q]
      BY <2>2 DEF NpmOk
    <3>1. CASE q = <<n, "dev">>
      BY <2>2, <2>3, <2>4, <3>1
    <3>2. CASE q # <<n, "dev">>
      BY <2>4, <3>2 DEF IInv, NpmOk
    <3> QED
      BY <3>1, <3>2
  <2>6. ClientsFixed'
    BY <2>1, <2>2, <2>4 DEF IInv, ClientsFixed
  <2> QED
    BY <2>1, <2>5, <2>6 DEF IInv, Plan, CandidatesOk, Before, CandidateOf, JobOk
<1>5. CASE UNCHANGED vars
  BY <1>5 DEF vars, IInv, Plan, CandidatesOk, Before, NpmOk, ClientsFixed, CandidateOf, JobOk
<1> QED
  BY <1>1, <1>2, <1>3, <1>4, <1>5 DEF Next, RunStep

LEMMA Invariance == Spec => []IInv
<1>1. Init => IInv
  BY InitInv
<1>2. IInv /\ [Next]_vars => IInv'
  BY StepInv
<1> QED
  BY <1>1, <1>2, PTL DEF Spec

-----------------------------------------------------------------------------
\* Whatever the engine obeys and runs otherwise, a job that starts its network
\* runs every binary and every service the engine can override from the pins of
\* its candidate, though its builds were pinned to files in between.
THEOREM SpawnsItsPins == Spec => []SpawnedOnItsPins
<1>1. IInv => SpawnedOnItsPins
  BY DEF IInv, JobOk, RunsItsPins, Past, SpawnedOnItsPins
<1> QED
  BY <1>1, Invariance, PTL

\* However the dist-tags move, every job installs the versions that the plan
\* job resolved.
THEOREM OneClient == Spec => []OneClientForAll
<1>1. IInv => OneClientForAll
  BY DEF IInv, JobOk, OneClientForAll
<1> QED
  BY <1>1, Invariance, PTL

\* The upgrades of a job stay within what its request is about.
THEOREM OnlyTheAsk == Spec => []OnlyTheAskIsTouched
<1>1. ASSUME IInv, NEW id \in DOMAIN job
      PROVE  LET m == CandidateOf(id).manifest
                 untouched == IF m.pins = Before.pins THEN DOMAIN job[id].fork
                              ELSE IF Asked(m) = {} THEN {}
                              ELSE DOMAIN job[id].fork \ Asked(m)
             IN \A c \in untouched : job[id].fork[c] = job[id].bitten[c]
  <2> DEFINE c == CandidateOf(id)
             considered == Considered(job[id].manifest, c.steady)
  <2>1. c.steady <=> c.manifest.pins = Before.pins
    BY <1>1, Candidates DEF IInv
  <2>2. JobOk(job[id], c)
    BY <1>1 DEF IInv
  <2> HIDE DEF c
  <2>3. CASE job[id].pc \notin {"upgrade", "green"}
    BY <2>2, <2>3 DEF JobOk
  <2>4. CASE job[id].pc \in {"upgrade", "green"}
    <3>1. Supplied(job[id].manifest) = Asked(c.manifest)
      BY <2>2, <2>4 DEF JobOk
    <3>2. \A x \in DOMAIN job[id].fork \ considered : job[id].fork[x] = job[id].bitten[x]
      BY <2>2, <2>4 DEF JobOk, OnlyConsidered
    <3>3. considered = IF c.manifest.pins = Before.pins THEN {}
                       ELSE IF Asked(c.manifest) # {} THEN Asked(c.manifest)
                       ELSE Names(job[id].manifest, "chains")
      BY <2>1, <3>1 DEF Considered
    <3> QED
      BY <3>2, <3>3 DEF c
  <2> QED
    BY <2>3, <2>4
<1>2. IInv => OnlyTheAskIsTouched
  BY <1>1 DEF OnlyTheAskIsTouched
<1> QED
  BY <1>2, Invariance, PTL
-----------------------------------------------------------------------------
(***************************************************************************)
(* A green job runs its pins.  The pin of a chain is resolved once, to a   *)
(* blob that it may stand for; the fork is compared with that blob, and    *)
(* what is not newer there is either the same or an error.                 *)
(***************************************************************************)
Bitten == {"assert", "spawn", "decide", "upgrade", "green"}

\* What the pin of a chain may be resolved to, as any chain's runtime.
Source(m, x) ==
  LET pin == Pin(m, "chains", x)
      asset == CHAINS[m.network][x].runtime[pin.from]
      tags == IF pin.tag = "latest" THEN UNION {Tags(r) : r \in {pin.from} \cap Repos}
                                     ELSE {pin.tag}
  IN IF isEphemeral(pin) THEN {l[2] : l \in list(m, pin.from)}
     ELSE {Assets[a] : a \in ({pin.from} \X tags \X {asset}) \cap DOMAIN Assets}

\* The manifest of a job once its builds are found: as its candidate's, with a
\* file of an artifact that was searched for each of them.
Traced(jm, m) ==
  /\ jm.network = m.network
  /\ \A x \in Names(m, "chains") :
       LET p == Pin(jm, "chains", x)
           q == Pin(m, "chains", x)
       IN IF isEphemeral(q)
          THEN p.kind = "file" /\ \A f \in Files(p.from) : <<p.from, f>> \in list(m, q.from)
          ELSE p = q /\ p.kind # "file"

Runs(j, x) == j.plan[x].of = x /\ j.plan[x].spec = j.fork[x]

RunsOk(j, c) ==
  /\ j.pc \in {"clients", "artifacts", "red"} \/ Traced(j.manifest, c.manifest)
  /\ j.pc \in {"clients", "artifacts", "resolve", "red"}
       \/ \A x \in Names(c.manifest, "chains") : j.plan[x] \in Source(c.manifest, x)
  /\ j.pc \in Bitten => j.fork \in [DOMAIN Live0 -> Nat]
  /\ j.pc \in {"upgrade", "green"} =>
       \A x \in Considered(j.manifest, c.steady) \ j.keep : Runs(j, x)
  /\ j.pc = "green" => j.keep = {}

WorldOk ==
  /\ live \in [DOMAIN Live0 -> Nat]
  /\ \A r \in Repos : latest[r] \in Tags(r)

RInv == WorldOk /\ \A id \in DOMAIN job : RunsOk(job[id], CandidateOf(id))

\* Every blob has a version, and a release the runtime of the chain that pins it.
LEMMA SourcesOk ==
  ASSUME NEW m, validateManifest(m), NEW x \in Names(m, "chains"), NEW b \in Source(m, x)
  PROVE  /\ b.spec \in Nat
         /\ ~isEphemeral(Pin(m, "chains", x)) => b.of = x
         /\ b.of = x => b \in Means(m, x)
<1> DEFINE pin == Pin(m, "chains", x)
           asset == CHAINS[m.network][x].runtime[pin.from]
           tags == IF pin.tag = "latest" THEN UNION {Tags(r) : r \in {pin.from} \cap Repos}
                                          ELSE {pin.tag}
<1>1. /\ m.network \in DOMAIN CHAINS /\ x \in DOMAIN CHAINS[m.network]
      /\ isEphemeral(pin) \/ pin.from \in DOMAIN CHAINS[m.network][x].runtime
  BY DEF validateManifest, runtimePlanOk
<1>2. CASE isEphemeral(pin)
  <2>1. b \in {l[2] : l \in list(m, pin.from)}
    BY <1>2 DEF Source
  <2>2. PICK a \in DOMAIN Artifacts : b \in Artifacts[a]
    BY <2>1 DEF list, Files
  <2>3. b.spec \in Nat
    BY <2>2, ReleasesAssumption
  <2> QED
    BY <1>2, <2>1, <2>3 DEF Means
<1>3. CASE ~isEphemeral(pin)
  <2>1. Source(m, x) = {Assets[a] : a \in ({pin.from} \X tags \X {asset}) \cap DOMAIN Assets}
    BY <1>3 DEF Source
  <2>2. Means(m, x) = Source(m, x)
    BY <1>3, <2>1 DEF Means
  <2>3. PICK a \in DOMAIN Assets : a[1] = pin.from /\ a[3] = asset /\ b = Assets[a]
    BY <2>1
  <2>4. b.spec \in Nat
    BY <2>3, ReleasesAssumption
  <2>5. b.of = x
    BY <1>1, <1>3, <2>3, ReleasesAssumption
  <2> QED
    BY <2>2, <2>4, <2>5
<1> QED
  BY <1>2, <1>3

\* Pinning the builds to files of theirs.
LEMMA ResolvedTraced ==
  ASSUME NEW m, ManifestOk(m), runtimePlanOk(m), NEW chosen, DOMAIN chosen = Built(m),
         \A c \in Built(m) : chosen[c] \in hits(m, c)
  PROVE  Traced(resolveArtifactPins(m, chosen), m)
<1> DEFINE r == resolveArtifactPins(m, chosen)
           files == [p \in {<<"chains", c>> : c \in DOMAIN chosen} |->
                       File(chosen[p[2]][1], chosen[p[2]][2].path)]
<1>1. r.network = m.network /\ r.pins = Over(files, m.pins)
  BY DEF resolveArtifactPins, ManifestOk
<1>2. \A c \in Built(m) : /\ <<"chains", c>> \in DOMAIN files
                          /\ files[<<"chains", c>>].kind = "file"
                          /\ files[<<"chains", c>>].from = chosen[c][1]
  BY DEF File
<1>3. \A c : c \notin Built(m) => <<"chains", c>> \notin DOMAIN files
  OBVIOUS
<1> HIDE DEF files, r
<1>4. \A c \in Names(m, "chains") : <<"chains", c>> \in DOMAIN m.pins
  BY DEF Names, ManifestOk, PinsOk, PathsOk, Dims
<1>5. ASSUME NEW x \in Names(m, "chains"), x \in Built(m)
      PROVE  Pin(r, "chains", x) = files[<<"chains", x>>]
  BY <1>1, <1>2, <1>5 DEF Pin, Over
<1>6. ASSUME NEW x \in Names(m, "chains"), x \notin Built(m)
      PROVE  Pin(r, "chains", x) = Pin(m, "chains", x)
  BY <1>1, <1>3, <1>4, <1>6 DEF Pin, Over
<1> SUFFICES ASSUME NEW x \in Names(m, "chains")
             PROVE  LET p == Pin(r, "chains", x)
                        q == Pin(m, "chains", x)
                    IN IF isEphemeral(q)
                       THEN /\ p.kind = "file"
                            /\ \A f \in Files(p.from) : <<p.from, f>> \in list(m, q.from)
                       ELSE p = q /\ p.kind # "file"
  BY <1>1 DEF Traced, r
<1>7. CASE x \in Built(m)
  <2>1. chosen[x] \in list(m, Pin(m, "chains", x).from)
    BY <1>7 DEF hits
  <2>2. \A f \in Files(chosen[x][1]) : <<chosen[x][1], f>> \in list(m, Pin(m, "chains", x).from)
    BY <2>1 DEF list
  <2> QED
    BY <1>2, <1>5, <1>7, <2>2 DEF Built, isEphemeral
<1>8. CASE x \notin Built(m)
  <2>1. isEphemeral(Pin(m, "chains", x)) => Pin(m, "chains", x).kind = "file"
    BY <1>8 DEF Built, isEphemeral
  <2>2. \A b : \A f \in Files(b) : <<b, f>> \in list(m, b)
    BY DEF list
  <2> QED
    BY <1>6, <1>8, <2>1, <2>2 DEF isEphemeral
<1> QED
  BY <1>7, <1>8

\* A pin is resolved to a blob it may stand for.
LEMMA BlobsAreSources ==
  ASSUME WorldOk, NEW jm, NEW m, Traced(jm, m), NEW x \in Names(m, "chains")
  PROVE  blobs(jm, x) \subseteq Source(m, x)
<1> DEFINE p == Pin(jm, "chains", x)
           q == Pin(m, "chains", x)
           asset == CHAINS[jm.network][x].runtime[p.from]
<1>1. jm.network = m.network
  BY DEF Traced
<1>2. CASE isEphemeral(q)
  <2>1. p.kind = "file" /\ \A f \in Files(p.from) : <<p.from, f>> \in list(m, q.from)
    BY <1>2 DEF Traced
  <2>2. blobs(jm, x) \subseteq Files(p.from)
    BY <2>1 DEF blobs
  <2>3. Source(m, x) = {l[2] : l \in list(m, q.from)}
    BY <1>2 DEF Source
  <2>4. ASSUME NEW f \in Files(p.from) PROVE f \in {l[2] : l \in list(m, q.from)}
    <3>1. <<p.from, f>> \in list(m, q.from) /\ <<p.from, f>>[2] = f
      BY <2>1
    <3> QED
      BY <3>1
  <2> QED
    BY <2>2, <2>3, <2>4
<1>3. CASE ~isEphemeral(q)
  <2>1. p = q /\ p.kind # "file"
    BY <1>3 DEF Traced
  <2> DEFINE now == IF p.tag = "latest" THEN {latest[r] : r \in {p.from} \cap Repos} ELSE {p.tag}
             ever == IF p.tag = "latest" THEN UNION {Tags(r) : r \in {p.from} \cap Repos}
                                          ELSE {p.tag}
  <2>2. now \subseteq ever
    BY DEF WorldOk
  <2>3. blobs(jm, x) = {Assets[a] : a \in ({p.from} \X now \X {asset}) \cap DOMAIN Assets}
    BY <2>1 DEF blobs
  <2>4. Source(m, x) = {Assets[a] : a \in ({p.from} \X ever \X {asset}) \cap DOMAIN Assets}
    BY <1>1, <1>3, <2>1 DEF Source
  <2> HIDE DEF now, ever, asset, p
  <2>5. {p.from} \X now \X {asset} \subseteq {p.from} \X ever \X {asset}
    BY <2>2
  <2> QED
    BY <2>3, <2>4, <2>5
<1> QED
  BY <1>2, <1>3

\* What is not left to upgrade, and no error, runs its pin already.
LEMMA DecidedRuns ==
  ASSUME NEW jm, NEW m, validateManifest(m), Traced(jm, m), SamePins(jm, m),
         NEW plan, \A x \in Names(m, "chains") : plan[x] \in Source(m, x),
         NEW fork \in [DOMAIN Live0 -> Nat], NEW records, NEW steady,
         NEW found, found = planUpgrades(jm, plan, [c \in records |-> fork[c]], steady),
         found.errors = {}
  PROVE  \A x \in Considered(jm, steady) \ found.keep : plan[x].of = x /\ plan[x].spec = fork[x]
<1> DEFINE running == [c \in records |-> fork[c]]
           known == {c \in Considered(jm, steady) :
                       runtimeSpecOf(plan[c]) # {} /\ c \in DOMAIN running}
<1> SUFFICES ASSUME NEW x \in Considered(jm, steady), x \notin found.keep
             PROVE  plan[x].of = x /\ plan[x].spec = fork[x]
  OBVIOUS
<1>1. found = [keep   |-> (Considered(jm, steady) \ known)
                            \cup {c \in known : plan[c].spec > running[c]},
               errors |-> {c \in known : \/ plan[c].spec < running[c]
                                         \/ plan[c].spec = running[c] /\ c \in Supplied(jm)}]
  BY DEF planUpgrades
<1>2. x \in known /\ running[x] = fork[x]
  BY <1>1
<1>3. /\ ~ (plan[x].spec > running[x]) /\ ~ (plan[x].spec < running[x])
      /\ plan[x].spec = running[x] => x \notin Supplied(jm)
  <2>1. x \notin {c \in known : plan[c].spec > running[c]}
    BY <1>1
  <2>2. {c \in known : \/ plan[c].spec < running[c]
                       \/ plan[c].spec = running[c] /\ c \in Supplied(jm)} = {}
    BY <1>1
  <2> HIDE DEF known, running
  <2> QED
    BY <1>2, <2>1, <2>2
<1>4. x \in Names(jm, "chains") /\ Names(jm, "chains") = Names(m, "chains")
  BY DEF Considered, Supplied, SamePins, Dims
<1>5. x \in DOMAIN Live0
  BY <1>4, LiveAssumption DEF validateManifest
<1>6. /\ plan[x].spec \in Nat /\ fork[x] \in Nat
      /\ ~isEphemeral(Pin(m, "chains", x)) => plan[x].of = x
  BY <1>4, <1>5, SourcesOk
<1>7. plan[x].spec = fork[x]
  BY <1>2, <1>3, <1>6
<1>8. ~isEphemeral(Pin(m, "chains", x))
  BY <1>2, <1>3, <1>4, <1>7 DEF Supplied, Traced
<1> QED
  BY <1>6, <1>7, <1>8

\* A step of a job keeps what it knows of its chains.
LEMMA JobStepRuns ==
  ASSUME IInv, RInv, NEW id, JobStep(id)
  PROVE  \E j : job' = [job EXCEPT ![id] = j] /\ RunsOk(j, CandidateOf(id))
<1>1. id \in DOMAIN job
  BY JobStepOk
<1> DEFINE c == CandidateOf(id)
<1>2. ManifestOk(c.manifest) /\ validateManifest(c.manifest)
  BY <1>1, Candidates DEF IInv
<1>3. JobOk(job[id], c) /\ DOMAIN job[id] = Fields /\ SamePins(job[id].manifest, c.manifest)
  BY <1>1 DEF IInv, JobOk
<1>4. RunsOk(job[id], c) /\ WorldOk
  BY <1>1 DEF RInv
<1>5. RunsOk(Red(id), c)
  BY DEF Red, NewJob, RunsOk, Bitten
<1> HIDE DEF c
<1> SUFFICES \E j : Becomes(id, j) /\ RunsOk(j, c)
  BY DEF Becomes, c
<1>6. CASE ApplyClients(id)
  <2>1. PICK v : Becomes(id, [job[id] EXCEPT !.pc = "artifacts", !.clients = v])
    BY <1>6 DEF ApplyClients
  <2>2. RunsOk([job[id] EXCEPT !.pc = "artifacts", !.clients = v], c)
    BY <1>3 DEF RunsOk, Fields, Bitten
  <2> QED
    BY <2>1, <2>2
<1>7. CASE MatchArtifacts(id)
  <2>1. job[id].pc = "artifacts" /\ job[id].manifest = c.manifest
    BY <1>3, <1>7 DEF MatchArtifacts, At, JobOk
  <2>2. PICK chosen : /\ DOMAIN chosen = Built(c.manifest)
                      /\ \A x \in Built(c.manifest) : chosen[x] \in hits(c.manifest, x)
                      /\ Becomes(id, [job[id] EXCEPT !.pc = "resolve",
                           !.manifest = resolveArtifactPins(c.manifest, chosen)])
    BY <1>7, <2>1 DEF MatchArtifacts
  <2> DEFINE m == resolveArtifactPins(c.manifest, chosen)
  <2>3. Traced(m, c.manifest)
    BY <1>2, <2>2, ResolvedTraced DEF validateManifest
  <2> HIDE DEF m
  <2>4. RunsOk([job[id] EXCEPT !.pc = "resolve", !.manifest = m], c)
    BY <1>3, <2>3 DEF RunsOk, Fields, Bitten
  <2> QED
    BY <2>2, <2>4 DEF m
<1>8. CASE Resolve(id)
  <2>1. job[id].pc = "resolve" /\ Traced(job[id].manifest, c.manifest)
    BY <1>4, <1>8 DEF Resolve, At, RunsOk
  <2>2. Names(job[id].manifest, "chains") = Names(c.manifest, "chains")
    BY <1>3 DEF SamePins, Dims
  <2>3. PICK plan :
          /\ \A x \in Names(c.manifest, "chains") : plan[x] \in blobs(job[id].manifest, x)
          /\ Becomes(id, [job[id] EXCEPT !.pc = "bite", !.plan = plan])
    <3> DEFINE m == job[id].manifest
               plan == [x \in Names(m, "chains") |-> CHOOSE b \in blobs(m, x) : TRUE]
    <3>1. \A x \in Names(m, "chains") : plan[x] \in blobs(m, x)
      BY <1>8 DEF Resolve
    <3>2. Becomes(id, [job[id] EXCEPT !.pc = "bite", !.plan = plan])
      BY <1>8 DEF Resolve
    <3> QED
      BY <2>2, <3>1, <3>2
  <2>4. \A x \in Names(c.manifest, "chains") : plan[x] \in Source(c.manifest, x)
    BY <1>4, <2>1, <2>3, BlobsAreSources
  <2>5. RunsOk([job[id] EXCEPT !.pc = "bite", !.plan = plan], c)
    BY <1>3, <2>1, <2>4 DEF RunsOk, Fields, Bitten
  <2> QED
    BY <2>3, <2>5
<1>9. CASE Bite(id)
  <2>1. job[id].pc = "bite"
    BY <1>9 DEF Bite, At
  <2>2. RunsOk([job[id] EXCEPT !.pc = "assert", !.tries = 0, !.bitten = live, !.fork = live], c)
    BY <1>3, <1>4, <2>1 DEF RunsOk, WorldOk, Fields, Bitten
  <2> QED
    BY <1>9, <2>2 DEF Bite
<1>10. CASE Retry(id)
  <2>1. job[id].pc \in {"bite", "spawn"}
    BY <1>10 DEF Retry, At
  <2>2. RunsOk([job[id] EXCEPT !.tries = @ + 1], c)
    BY <1>3, <1>4, <2>1 DEF RunsOk, Fields, Bitten
  <2> QED
    BY <1>5, <1>10, <2>2 DEF Retry
<1>11. CASE AssertEngine(id)
  <2>1. job[id].pc = "assert"
    BY <1>11 DEF AssertEngine, At
  <2>2. PICK runs : \/ Becomes(id, [job[id] EXCEPT !.pc = "spawn", !.runs = runs])
                    \/ Becomes(id, Red(id))
    BY <1>11 DEF AssertEngine
  <2>3. RunsOk([job[id] EXCEPT !.pc = "spawn", !.runs = runs], c)
    BY <1>3, <1>4, <2>1 DEF RunsOk, Fields, Bitten
  <2> QED
    BY <1>5, <2>2, <2>3
<1>12. CASE Spawn(id)
  <2>1. job[id].pc = "spawn"
    BY <1>12 DEF Spawn, At
  <2>2. RunsOk([job[id] EXCEPT !.pc = "decide", !.tries = 0], c)
    BY <1>3, <1>4, <2>1 DEF RunsOk, Fields, Bitten
  <2> QED
    BY <1>12, <2>2 DEF Spawn
<1>13. CASE Decide(id)
  <2> DEFINE found == planUpgrades(job[id].manifest, job[id].plan,
                                   [x \in engine.records |-> job[id].fork[x]], c.steady)
  <2>1. /\ job[id].pc = "decide" /\ Traced(job[id].manifest, c.manifest)
        /\ \A x \in Names(c.manifest, "chains") : job[id].plan[x] \in Source(c.manifest, x)
        /\ job[id].fork \in [DOMAIN Live0 -> Nat]
    BY <1>4, <1>13 DEF Decide, At, RunsOk, Bitten
  <2>2. \/ Becomes(id, Red(id))
        \/ /\ found.errors = {}
           /\ Becomes(id, [job[id] EXCEPT !.pc = "upgrade", !.keep = found.keep])
    BY <1>13 DEF Decide, c
  <2>3. CASE found.errors = {}
    <3>1. \A x \in Considered(job[id].manifest, c.steady) \ found.keep : Runs(job[id], x)
      BY <1>2, <1>3, <2>1, <2>3, DecidedRuns DEF Runs
    <3> HIDE DEF found
    <3> DEFINE j == [job[id] EXCEPT !.pc = "upgrade", !.keep = found.keep]
    <3>2. /\ j.pc = "upgrade" /\ j.manifest = job[id].manifest /\ j.plan = job[id].plan
          /\ j.fork = job[id].fork /\ j.keep = found.keep
      BY <1>3 DEF Fields
    <3> HIDE DEF j
    <3>3. RunsOk(j, c)
      BY <2>1, <3>1, <3>2 DEF RunsOk, Bitten, Runs
    <3> QED
      BY <1>5, <2>2, <3>3 DEF j
  <2> QED
    BY <1>5, <2>2, <2>3
<1>14. CASE Upgrade(id)
  <2>1. /\ job[id].pc = "upgrade" /\ Traced(job[id].manifest, c.manifest)
        /\ \A x \in Names(c.manifest, "chains") : job[id].plan[x] \in Source(c.manifest, x)
        /\ job[id].fork \in [DOMAIN Live0 -> Nat]
        /\ \A x \in Considered(job[id].manifest, c.steady) \ job[id].keep : Runs(job[id], x)
    BY <1>4, <1>14 DEF Upgrade, At, RunsOk, Bitten
  <2>2. job[id].keep \subseteq Names(c.manifest, "chains")
    <3>1. job[id].keep \subseteq Considered(job[id].manifest, c.steady)
      BY <1>3, <2>1 DEF JobOk, OnlyConsidered
    <3>2. Considered(job[id].manifest, c.steady) \subseteq Names(job[id].manifest, "chains")
      BY ConsideredNamed, Zenon
    <3> QED
      BY <1>3, <3>1, <3>2 DEF SamePins, Dims
  <2>3. PICK x \in job[id].keep :
          \/ Becomes(id, Red(id))
          \/ /\ job[id].plan[x].of = x
             /\ Becomes(id, [job[id] EXCEPT !.fork[x] = job[id].plan[x].spec, !.keep = @ \ {x}])
    BY <1>14 DEF Upgrade
  <2>4. CASE job[id].plan[x].of = x
    <3>1. x \in DOMAIN Live0 /\ job[id].plan[x].spec \in Nat
      <4>1. x \in Names(c.manifest, "chains")
        BY <2>2
      <4>2. job[id].plan[x].spec \in Nat
        BY <1>2, <2>1, <4>1, SourcesOk
      <4> QED
        BY <1>2, <4>1, <4>2, LiveAssumption DEF validateManifest
    <3> DEFINE j == [job[id] EXCEPT !.fork[x] = job[id].plan[x].spec, !.keep = @ \ {x}]
    <3>2. /\ j.pc = "upgrade" /\ j.manifest = job[id].manifest /\ j.plan = job[id].plan
          /\ j.fork = [job[id].fork EXCEPT ![x] = job[id].plan[x].spec]
          /\ j.keep = job[id].keep \ {x}
      BY <1>3, <2>1 DEF Fields
    <3> HIDE DEF j
    <3>3. j.fork \in [DOMAIN Live0 -> Nat]
      BY <2>1, <3>1, <3>2
    <3>4. \A y \in Considered(j.manifest, c.steady) \ j.keep : Runs(j, y)
      BY <2>1, <2>4, <3>1, <3>2 DEF Runs
    <3>5. RunsOk(j, c)
      BY <2>1, <3>2, <3>3, <3>4 DEF RunsOk
    <3> QED
      BY <1>5, <2>3, <3>5 DEF j
  <2> QED
    BY <1>5, <2>3, <2>4
<1>15. CASE RunTests(id)
  <2>1. job[id].pc = "upgrade" /\ job[id].keep = {}
    BY <1>15 DEF RunTests, At
  <2>2. RunsOk([job[id] EXCEPT !.pc = "green"], c)
    BY <1>3, <1>4, <2>1 DEF RunsOk, Fields, Bitten, Runs
  <2> QED
    BY <1>15, <2>2 DEF RunTests
<1>16. CASE StepFails(id)
  BY <1>5, <1>16 DEF StepFails
<1> QED
  BY <1>6, <1>7, <1>8, <1>9, <1>10, <1>11, <1>12, <1>13, <1>14, <1>15, <1>16, Zenon
  DEF JobStep

LEMMA InitRuns == ASSUME Init PROVE RInv
<1>1. DOMAIN job = {}
  BY DEF Init
<1>2. WorldOk
  BY LiveAssumption DEF Init, WorldOk, Repos, Tags
<1> QED
  BY <1>1, <1>2 DEF RInv

LEMMA StepRuns == ASSUME IInv, RInv, [Next]_vars PROVE RInv'
<1>1. ASSUME UNCHANGED <<live, latest>> PROVE WorldOk'
  BY <1>1 DEF RInv, WorldOk
<1>2. ASSUME UNCHANGED <<matrix, job>> PROVE \A i \in DOMAIN job' : RunsOk(job[i], CandidateOf(i))'
  BY <1>2 DEF RInv, RunsOk, CandidateOf
<1>3. CASE PlanRun
  <2>1. WorldOk'
    BY <1>1, <1>3 DEF PlanRun, world
  <2>2. CASE legal
    <3>1. ASSUME NEW i \in DOMAIN job' PROVE RunsOk(job[i], CandidateOf(i))'
      <4>1. job'[i].pc = "clients"
        BY <1>3, <2>2, <3>1 DEF PlanRun, NewJob
      <4> QED
        BY <4>1 DEF RunsOk, Bitten
    <3> QED
      BY <2>1, <3>1 DEF RInv
  <2>3. CASE ~legal
    BY <1>2, <1>3, <2>1, <2>3 DEF PlanRun, RInv
  <2> QED
    BY <2>2, <2>3
<1>4. ASSUME NEW id, JobStep(id) PROVE RInv'
  <2>1. /\ id \in DOMAIN job /\ UNCHANGED <<world, planned>>
    BY <1>4, JobStepOk
  <2>2. PICK j : job' = [job EXCEPT ![id] = j] /\ RunsOk(j, CandidateOf(id))
    BY <1>4, JobStepRuns
  <2>3. UNCHANGED <<live, latest, matrix>> /\ DOMAIN job' = DOMAIN job
    BY <2>1, <2>2 DEF world, planned
  <2>4. ASSUME NEW i \in DOMAIN job' PROVE RunsOk(job'[i], CandidateOf(i))
    <3>1. CASE i = id
      BY <2>1, <2>2, <3>1
    <3>2. CASE i # id
      BY <2>2, <2>3, <2>4, <3>2 DEF RInv
    <3> QED
      BY <3>1, <3>2
  <2>5. \A i \in DOMAIN job' : RunsOk(job[i], CandidateOf(i))'
    BY <2>3, <2>4 DEF RunsOk, CandidateOf
  <2> QED
    BY <1>1, <2>3, <2>5 DEF RInv
<1>5. ASSUME NEW c \in DOMAIN live, Deploy(c) PROVE RInv'
  <2>1. live' \in [DOMAIN Live0 -> Nat] /\ UNCHANGED <<latest, matrix, job>>
    BY <1>5 DEF Deploy, planned, RInv, WorldOk
  <2> QED
    BY <1>2, <2>1 DEF RInv, WorldOk
<1>6. ASSUME NEW repo \in Repos, LatestMoves(repo) PROVE RInv'
  <2>1. UNCHANGED <<live, matrix, job>> /\ \A r \in Repos : latest'[r] \in Tags(r)
    BY <1>6 DEF LatestMoves, planned, RInv, WorldOk, Tags
  <2> QED
    BY <1>2, <2>1 DEF RInv, WorldOk
<1>7. ASSUME NEW n, NpmPublishes(n) PROVE RInv'
  BY <1>1, <1>2, <1>7 DEF NpmPublishes, planned, RInv
<1>8. CASE UNCHANGED vars
  BY <1>1, <1>2, <1>8 DEF vars, RInv
<1> QED
  BY <1>3, <1>4, <1>5, <1>6, <1>7, <1>8 DEF Next, RunStep

\* Whatever is released, deployed and supplied meanwhile, a green job whose pins
\* move runs them: the supplied builds, or every pin when there are none.
THEOREM GreenMeansUpgraded == Spec => []GreenRunsItsPins
<1>1. ASSUME IInv, RInv, NEW id \in DOMAIN job, job[id].pc = "green",
             CandidateOf(id).manifest.pins # Before.pins
      PROVE  LET m == CandidateOf(id).manifest
                 judged == IF Asked(m) # {} THEN Asked(m) ELSE Names(m, "chains")
             IN \A chain \in judged : RunsPin(id, chain)
  <2> DEFINE c == CandidateOf(id)
             m == c.manifest
             j == job[id]
             judged == IF Asked(m) # {} THEN Asked(m) ELSE Names(m, "chains")
  <2>1. ~c.steady /\ validateManifest(m)
    BY <1>1, Candidates DEF IInv
  <2>2. Supplied(j.manifest) = Asked(m) /\ Names(j.manifest, "chains") = Names(m, "chains")
    BY <1>1 DEF IInv, JobOk, SamePins, Dims
  <2>3. Considered(j.manifest, c.steady) = judged
    BY <2>1, <2>2 DEF Considered
  <2>4. /\ \A x \in judged : Runs(j, x)
        /\ \A x \in Names(m, "chains") : j.plan[x] \in Source(m, x)
    BY <1>1, <2>3 DEF RInv, RunsOk
  <2>5. judged \subseteq Names(m, "chains")
    BY DEF Asked
  <2> HIDE DEF judged, m, j
  <2>6. ASSUME NEW x \in judged PROVE RunsPin(id, x)
    <3>1. j.plan[x] \in Means(m, x)
      BY <2>1, <2>4, <2>5, SourcesOk DEF Runs
    <3> QED
      BY <2>4, <3>1 DEF Runs, RunsPin, j, m, c
  <2> QED
    BY <2>6 DEF judged, m, c
<1>2. IInv /\ RInv => GreenRunsItsPins
  BY <1>1 DEF GreenRunsItsPins
<1>3. IInv /\ RInv /\ [Next]_vars => RInv'
  BY StepRuns
<1>4. Init => RInv
  BY InitRuns
<1> QED
  BY <1>2, <1>3, <1>4, Invariance, PTL DEF Spec
-----------------------------------------------------------------------------
(***************************************************************************)
(* Types: what TypeOK says of a job follows step by step, with the chains  *)
(* it keeps from what its manifest shares with its candidate's.            *)
(***************************************************************************)
Typed(j, c) ==
  /\ j.pc \in {"clients", "artifacts", "resolve", "bite", "assert", "spawn",
               "decide", "upgrade", "green", "red"}
  /\ j.tries \in Nat
  /\ j.keep \subseteq Names(c.manifest, "chains")

TInv ==
  /\ engine \in Engines /\ stage \in {"plan", "gate", "refused"}
  /\ DOMAIN job \subseteq Ids
  /\ \A id \in DOMAIN job : Typed(job[id], CandidateOf(id))

LEMMA JobStepTyped ==
  ASSUME IInv, TInv, NEW id, JobStep(id)
  PROVE  \E j : job' = [job EXCEPT ![id] = j] /\ Typed(j, CandidateOf(id))
<1>1. id \in DOMAIN job
  BY JobStepOk
<1> DEFINE c == CandidateOf(id)
<1>2. /\ JobOk(job[id], c) /\ DOMAIN job[id] = Fields
      /\ Names(job[id].manifest, "chains") = Names(c.manifest, "chains")
  BY <1>1 DEF IInv, JobOk, SamePins, Dims
<1>3. Typed(job[id], c)
  BY <1>1 DEF TInv
<1>4. Typed(Red(id), c)
  BY DEF Red, NewJob, Typed
<1> HIDE DEF c
<1> SUFFICES \E j : Becomes(id, j) /\ Typed(j, c)
  BY DEF Becomes, c
<1>5. CASE ApplyClients(id)
  <2>1. Typed([job[id] EXCEPT !.pc = "artifacts", !.clients = applyBuilds], c)
    BY <1>2, <1>3 DEF Typed, Fields
  <2> QED
    BY <1>5, <2>1 DEF ApplyClients
<1>6. CASE MatchArtifacts(id)
  <2>1. PICK m : Becomes(id, [job[id] EXCEPT !.pc = "resolve", !.manifest = m])
    BY <1>6 DEF MatchArtifacts
  <2>2. Typed([job[id] EXCEPT !.pc = "resolve", !.manifest = m], c)
    BY <1>2, <1>3 DEF Typed, Fields
  <2> QED
    BY <2>1, <2>2
<1>7. CASE Resolve(id)
  <2>1. PICK plan : Becomes(id, [job[id] EXCEPT !.pc = "bite", !.plan = plan])
    BY <1>7 DEF Resolve
  <2>2. Typed([job[id] EXCEPT !.pc = "bite", !.plan = plan], c)
    BY <1>2, <1>3 DEF Typed, Fields
  <2> QED
    BY <2>1, <2>2
<1>8. CASE Bite(id)
  <2>1. Typed([job[id] EXCEPT !.pc = "assert", !.tries = 0, !.bitten = live, !.fork = live], c)
    BY <1>2, <1>3 DEF Typed, Fields
  <2> QED
    BY <1>8, <2>1 DEF Bite
<1>9. CASE Retry(id)
  <2>1. Typed([job[id] EXCEPT !.tries = @ + 1], c)
    BY <1>2, <1>3 DEF Typed, Fields
  <2> QED
    BY <1>4, <1>9, <2>1 DEF Retry
<1>10. CASE AssertEngine(id)
  <2>1. PICK runs : \/ Becomes(id, Red(id))
                    \/ Becomes(id, [job[id] EXCEPT !.pc = "spawn", !.runs = runs])
    BY <1>10 DEF AssertEngine
  <2>2. Typed([job[id] EXCEPT !.pc = "spawn", !.runs = runs], c)
    BY <1>2, <1>3 DEF Typed, Fields
  <2> QED
    BY <1>4, <2>1, <2>2
<1>11. CASE Spawn(id)
  <2>1. Typed([job[id] EXCEPT !.pc = "decide", !.tries = 0], c)
    BY <1>2, <1>3 DEF Typed, Fields
  <2> QED
    BY <1>11, <2>1 DEF Spawn
<1>12. CASE Decide(id)
  <2>1. PICK keep : /\ keep \subseteq Considered(job[id].manifest, c.steady)
                    /\ \/ Becomes(id, Red(id))
                       \/ Becomes(id, [job[id] EXCEPT !.pc = "upgrade", !.keep = keep])
    BY <1>12, KeepConsidered DEF Decide, c
  <2>2. keep \subseteq Names(c.manifest, "chains")
    BY <1>2, <2>1, ConsideredNamed
  <2>3. Typed([job[id] EXCEPT !.pc = "upgrade", !.keep = keep], c)
    BY <1>2, <1>3, <2>2 DEF Typed, Fields
  <2> QED
    BY <1>4, <2>1, <2>3
<1>13. CASE Upgrade(id)
  <2>1. job[id].pc = "upgrade"
    BY <1>13 DEF Upgrade, At
  <2>2. PICK x, spec :
          /\ x \in job[id].keep
          /\ \/ Becomes(id, Red(id))
             \/ Becomes(id, [job[id] EXCEPT !.fork[x] = spec, !.keep = @ \ {x}])
    BY <1>13 DEF Upgrade
  <2> DEFINE j == [job[id] EXCEPT !.fork[x] = spec, !.keep = @ \ {x}]
  <2>3. j.pc = job[id].pc /\ j.tries = job[id].tries /\ j.keep = job[id].keep \ {x}
    BY <1>2 DEF Fields
  <2> HIDE DEF j
  <2>4. Typed(j, c)
    BY <1>3, <2>3 DEF Typed
  <2> QED
    BY <1>4, <2>2, <2>4 DEF j
<1>14. CASE RunTests(id)
  <2>1. Typed([job[id] EXCEPT !.pc = "green"], c)
    BY <1>2, <1>3 DEF Typed, Fields
  <2> QED
    BY <1>14, <2>1 DEF RunTests
<1>15. CASE StepFails(id)
  BY <1>4, <1>15 DEF StepFails
<1> QED
  BY <1>5, <1>6, <1>7, <1>8, <1>9, <1>10, <1>11, <1>12, <1>13, <1>14, <1>15, Zenon
  DEF JobStep

LEMMA StepTyped == ASSUME IInv, TInv, [Next]_vars PROVE TInv'
<1>1. CASE PlanRun
  <2>1. engine' = engine /\ stage' \in {"gate", "refused"}
    BY <1>1 DEF PlanRun
  <2>2. CASE legal
    <3>1. job' = [id \in {c.id : c \in candidates} |->
                    NewJob(CHOOSE c \in candidates : c.id = id)]
      BY <1>1, <2>2 DEF PlanRun
    <3>2. \A c \in candidates : c.id \in Ids
      BY DEF candidates, candidateMatrix, CrossTerms, Candidate, Ids
    <3>3. \A id \in DOMAIN job' : Typed(job[id], CandidateOf(id))'
      BY <3>1 DEF NewJob, Typed
    <3>4. DOMAIN job' \subseteq Ids
      BY <3>1, <3>2
    <3> QED
      BY <2>1, <3>3, <3>4 DEF TInv
  <2>3. CASE ~legal
    BY <1>1, <2>1, <2>3 DEF PlanRun, TInv, Typed, CandidateOf
  <2> QED
    BY <2>2, <2>3
<1>2. ASSUME NEW id, JobStep(id) PROVE TInv'
  <2>1. id \in DOMAIN job /\ UNCHANGED <<world, planned>>
    BY <1>2, JobStepOk
  <2>2. PICK j : job' = [job EXCEPT ![id] = j] /\ Typed(j, CandidateOf(id))
    BY <1>2, JobStepTyped
  <2>3. UNCHANGED <<engine, stage, matrix>> /\ DOMAIN job' = DOMAIN job
    BY <2>1, <2>2 DEF planned
  <2>4. \A i \in DOMAIN job' : Typed(job'[i], CandidateOf(i))
    BY <2>1, <2>2, <2>3 DEF TInv
  <2> QED
    BY <2>3, <2>4 DEF TInv, CandidateOf
<1>3. CASE UNCHANGED <<planned, job>>
  BY <1>3 DEF planned, TInv, Typed, CandidateOf
<1> QED
  BY <1>1, <1>2, <1>3
  DEF Next, RunStep, Deploy, LatestMoves, NpmPublishes, vars, planned

\* The state of a run keeps its types, whatever was asked and is retried, and
\* no job is left to upgrade a chain that its candidate does not name.
THEOREM TypeCorrect == Spec => []TypeOK
<1>1. Init => TInv
  BY DEF Init, TInv
<1>2. IInv /\ TInv /\ [Next]_vars => TInv'
  BY StepTyped
<1>3. IInv /\ RInv /\ [Next]_vars => RInv'
  BY StepRuns
<1>4. Init => RInv
  BY InitRuns
<1>5. IInv /\ RInv /\ TInv => TypeOK
  BY DEF IInv, Plan, RInv, WorldOk, TInv, Typed, TypeOK
<1> QED
  BY <1>1, <1>2, <1>3, <1>4, <1>5, Invariance, PTL DEF Spec

-----------------------------------------------------------------------------
(***************************************************************************)
(* The matrix and the verdict of the plan job: fixed by the request.       *)
(***************************************************************************)
MatrixKept == matrix \in {{}, candidateMatrix(Before, After)}

LEMMA MatrixStep == ASSUME MatrixKept, [Next]_vars PROVE MatrixKept'
<1>1. ASSUME UNCHANGED <<request, matrix>> PROVE MatrixKept'
  BY <1>1 DEF MatrixKept, Before, After, ask
<1>2. CASE PlanRun
  <2>1. request' = request /\ (matrix' = matrix \/ matrix' = candidates)
    BY <1>2 DEF PlanRun
  <2>2. Before' = Before /\ After' = After
    BY <2>1 DEF Before, After, ask
  <2>3. candidates \in {{}, candidateMatrix(Before, After)}
    BY DEF candidates
  <2> QED
    BY <2>1, <2>2, <2>3 DEF MatrixKept
<1>3. ASSUME NEW id, JobStep(id) PROVE UNCHANGED <<request, matrix>>
  BY <1>3, Zenon DEF JobStep, ApplyClients, MatchArtifacts, Resolve, Bite, Retry, AssertEngine,
     Spawn, Decide, Upgrade, RunTests, StepFails, Becomes, planned
<1>4. ASSUME NEW x, Deploy(x) \/ LatestMoves(x) \/ NpmPublishes(x)
      PROVE  UNCHANGED <<request, matrix>>
  BY <1>4 DEF Deploy, LatestMoves, NpmPublishes, planned
<1>5. CASE UNCHANGED vars
  BY <1>1, <1>5 DEF vars
<1> QED
  BY <1>1, <1>2, <1>3, <1>4, <1>5 DEF Next, RunStep

\* Whatever the request moves, its cross terms share the moves out between
\* them, and neither is the target or the record again.
THEOREM CrossTermsShareTheAsk == Spec => []CrossTermsSplitTheAsk
<1>1. ASSUME IInv, MatrixKept PROVE CrossTermsSplitTheAsk
  <2>1. ManifestOk(Before) /\ ManifestOk(After)
    BY <1>1, SidesOk DEF IInv, Plan
  <2>2. CASE matrix = {}
    BY <2>2 DEF CrossTermsSplitTheAsk
  <2>3. CASE matrix = candidateMatrix(Before, After)
    BY <2>1, <2>3, CrossTermsSplit DEF CrossTermsSplitTheAsk, CandidateOf
  <2> QED
    BY <1>1, <2>2, <2>3 DEF MatrixKept
<1>2. IInv /\ MatrixKept => CrossTermsSplitTheAsk
  BY <1>1
<1>3. Init => MatrixKept
  BY DEF Init, MatrixKept
<1> QED
  BY <1>2, <1>3, MatrixStep, Invariance, PTL DEF Spec

\* A move the summary of a green job lists was run, unless the request supplies
\* builds and none of the move's chain.
ListedIsRun ==
  \A id \in DOMAIN job :
    LET c == CandidateOf(id)
        asked == Asked(c.manifest)
    IN job[id].pc = "green" =>
         \A p \in c.transitions :
           p[1] = "chains" /\ (asked = {} \/ p[2] \in asked) => RunsPin(id, p[2])

\* How far GreenTestsItsTransitions is from true: only a request that mixes the
\* build of one chain with a release of another lists what it did not run
\* (plan-upgrades.mjs, release-gate.yml).
THEOREM ListedMovesAreRun == Spec => []ListedIsRun
<1>1. ASSUME IInv, MatrixKept, GreenRunsItsPins, NEW id \in DOMAIN job, job[id].pc = "green",
             NEW p \in CandidateOf(id).transitions, p[1] = "chains",
             Asked(CandidateOf(id).manifest) = {} \/ p[2] \in Asked(CandidateOf(id).manifest)
      PROVE  RunsPin(id, p[2])
  <2> DEFINE c == CandidateOf(id)
             m == c.manifest
  <2>1. c \in candidateMatrix(Before, After) /\ ManifestOk(m)
    BY <1>1, Candidates DEF IInv, MatrixKept
  <2>2. c.transitions = transitions(Before, m)
    BY <2>1 DEF candidateMatrix, CrossTerms, Candidate
  <2> HIDE DEF c
  <2>3. p \in DOMAIN m.pins /\ p = <<p[1], p[2]>> /\ Before.pins[p] # m.pins[p]
    BY <1>1, <2>1, <2>2 DEF transitions, ManifestOk, PinsOk, PathsOk, c
  <2>4. m.pins # Before.pins /\ p[2] \in Names(m, "chains")
    BY <1>1, <2>3 DEF Names
  <2> QED
    BY <1>1, <2>4 DEF GreenRunsItsPins, c
<1>2. IInv /\ MatrixKept /\ GreenRunsItsPins => ListedIsRun
  BY <1>1 DEF ListedIsRun
<1>3. Init => MatrixKept
  BY DEF Init, MatrixKept
<1> QED
  BY <1>2, <1>3, MatrixStep, GreenMeansUpgraded, Invariance, PTL DEF Spec

\* A request that the tables allow: it narrows a valid record to pins that are
\* shown for its network, and names clients the workspace can install.
Allowed ==
  /\ validateManifest(request.canonical) /\ assertNoLocalPins(request.canonical)
  /\ mergeTargetOk(request.canonical, ask.target)
  /\ \A p \in Pinned(ask.target) : Shown(request.canonical.network, p, ask.target[p])
  /\ <<"tests">> \in DOMAIN ask.target => ask.target[<<"tests">>] # {}
  /\ parseSpecs(Specs(ask.clients))
  /\ \A spec \in wanted(ask.clients) : spec \in DOMAIN Npm0 /\ spec[1] \in Installed

\* The form of a request and the tables decide whether it is run: neither the
\* network, nor what is published, nor a candidate it did not ask for.
VerdictOfTables ==
  request.flow = "overlay" => (stage = "gate" => Allowed) /\ (stage = "refused" => ~Allowed)

LEMMA LegalIsAllowed ==
  ASSUME request \in Requests, request.flow = "overlay", DOMAIN npm = DOMAIN Npm0
  PROVE  legal <=> Allowed
<1> DEFINE canonical == request.canonical
           target == ask.target
           record == validateManifest(canonical) /\ assertNoLocalPins(canonical)
           narrows == mergeTargetOk(canonical, target)
           clientsOk == parseSpecs(Specs(ask.clients)) /\ buildsOk(wanted(ask.clients))
           valid == \A c \in candidateMatrix(Before, After) : validateManifest(c.manifest)
           shown == /\ \A p \in Pinned(target) : Shown(canonical.network, p, target[p])
                    /\ <<"tests">> \in DOMAIN target => target[<<"tests">>] # {}
<1>1. legal <=> record /\ narrows /\ clientsOk /\ valid
  BY DEF legal
<1>2. Allowed <=> record /\ narrows /\ clientsOk /\ shown
  BY DEF Allowed, buildsOk
<1>3. ManifestOk(canonical) /\ PathsOk(target) /\ ManifestOk(Before) /\ ManifestOk(After)
  BY PathsOfAsk, SidesOk, RequestsAssumption
<1>4. Before = canonical /\ After = mergeTarget(canonical, target)
  BY DEF Before, After
<1>5. ASSUME record, narrows PROVE valid <=> shown
  <2>1. validateManifest(After) <=> shown
    BY <1>3, <1>4, <1>5, RequestsTakenAreShown
  <2>2. After.network = canonical.network
    BY <1>3, <1>4, <1>5, MergesNarrow
  <2>3. valid => validateManifest(After)
    <3> DEFINE whole == Candidate(Before, "target", TRUE, After)
    <3>1. whole \in candidateMatrix(Before, After)
      BY DEF candidateMatrix
    <3>2. whole.manifest = After
      BY DEF Candidate
    <3> HIDE DEF whole
    <3> QED
      BY <3>1, <3>2
  <2>4. validateManifest(After) => valid
    BY <1>3, <1>4, <1>5, <2>2, CandidatesAreValid
  <2> QED
    BY <2>1, <2>3, <2>4
<1> QED
  BY <1>1, <1>2, <1>5

\* A request is run exactly when the tables allow it, however far "latest" and
\* the dist-tags move before the plan job looks: what the rejection shows as
\* allowed is never refused, what is refused is never shown, and the cross terms
\* refuse nothing.
THEOREM TablesDecide == Spec => []VerdictOfTables
<1> DEFINE VInv == request \in Requests /\ DOMAIN npm = DOMAIN Npm0 /\ VerdictOfTables
<1>1. Init => VInv
  BY DEF Init, VerdictOfTables
<1>2. ASSUME VInv, [Next]_vars PROVE VInv'
  <2>1. ASSUME UNCHANGED <<request, stage>> PROVE VerdictOfTables'
    BY <1>2, <2>1 DEF VerdictOfTables, Allowed, ask
  <2>2. CASE PlanRun
    <3>1. UNCHANGED <<request, npm>> /\ stage' = IF legal THEN "gate" ELSE "refused"
      BY <2>2 DEF PlanRun, world
    <3>2. request.flow = "overlay" => (legal <=> Allowed)
      BY <1>2, LegalIsAllowed
    <3>3. Allowed' = Allowed
      BY <3>1 DEF Allowed, ask
    <3> QED
      BY <1>2, <3>1, <3>2, <3>3 DEF VerdictOfTables
  <2>3. ASSUME NEW id, JobStep(id) PROVE UNCHANGED <<request, stage, npm>>
    BY <2>3, Zenon DEF JobStep, ApplyClients, MatchArtifacts, Resolve, Bite, Retry,
       AssertEngine, Spawn, Decide, Upgrade, RunTests, StepFails, Becomes, planned, world
  <2>4. ASSUME NEW x, Deploy(x) \/ LatestMoves(x) PROVE UNCHANGED <<request, stage, npm>>
    BY <2>4 DEF Deploy, LatestMoves, planned
  <2>5. ASSUME NEW n, NpmPublishes(n) PROVE UNCHANGED <<request, stage>> /\ DOMAIN npm' = DOMAIN npm
    BY <2>5 DEF NpmPublishes, planned
  <2>6. CASE UNCHANGED vars
    BY <1>2, <2>1, <2>6 DEF vars
  <2> QED
    BY <1>2, <2>1, <2>2, <2>3, <2>4, <2>5, <2>6 DEF Next, RunStep
<1>3. VInv => VerdictOfTables
  OBVIOUS
<1>4. VInv /\ [Next]_vars => VInv'
  BY <1>2
<1> HIDE DEF VInv
<1> QED
  BY <1>1, <1>3, <1>4, PTL DEF Spec
-----------------------------------------------------------------------------
(***************************************************************************)
(* How much work a job can be.                                             *)
(***************************************************************************)
Bites == Limit["bite"]
Spawns == Limit["spawn"]

\* The work done: a step to each stage, the attempts at two of them, and the
\* chains already upgraded.
Work(j) ==
  CASE j.pc = "clients" -> 0
    [] j.pc = "artifacts" -> 1
    [] j.pc = "resolve" -> 2
    [] j.pc = "bite" -> 3 + j.tries
    [] j.pc = "assert" -> 3 + Bites
    [] j.pc = "spawn" -> 4 + Bites + j.tries
    [] j.pc = "decide" -> 4 + Bites + Spawns
    [] j.pc = "upgrade" -> 10 + Bites + Spawns - Cardinality(j.keep)
    [] OTHER -> 11 + Bites + Spawns

\* An attempt is counted where it is made, and the limit is ahead.
TriesOk(j) ==
  IF j.pc \in {"bite", "spawn"} THEN j.tries \in 0 .. Limit[j.pc] - 1 ELSE j.tries = 0

WorkGrows ==
  \A id \in DOMAIN job : job'[id] # job[id] => Work(job[id])' > Work(job[id]) /\ ~Ended(id)
WorkBounded == \A id \in DOMAIN job : Work(job[id]) \in 0 .. 11 + Bites + Spawns

\* T is S, or S and another element.
Grown(S, T) ==
  IsFiniteSet(S) => /\ IsFiniteSet(T) /\ Cardinality(S) \in Nat
                    /\ Cardinality(T) \in {Cardinality(S), Cardinality(S) + 1}

LEMMA FiveChains ==
  ASSUME NEW S \in SUBSET AllChains PROVE IsFiniteSet(S) /\ Cardinality(S) \in 0 .. 5
<1> DEFINE one == {} \cup {"relay"}
           two == one \cup {"assetHub"}
           three == two \cup {"people"}
           four == three \cup {"bulletin"}
           five == four \cup {"web3Storage"}
<1>1. \A T, x : Grown(T, T \cup {x})
  BY FS_AddElement, FS_CardinalityType DEF Grown
<1>2. Grown({}, one) /\ Grown(one, two) /\ Grown(two, three) /\ Grown(three, four)
      /\ Grown(four, five)
  BY <1>1, Zenon
<1>3. AllChains = five
  BY DEF AllChains
<1> HIDE DEF one, two, three, four, five
<1>4. IsFiniteSet(AllChains) /\ Cardinality(AllChains) \in 0 .. 5
  BY <1>2, <1>3, FS_EmptySet DEF Grown
<1>5. IsFiniteSet(S) /\ Cardinality(S) <= Cardinality(AllChains)
  BY <1>4, FS_Subset
<1> QED
  BY <1>4, <1>5, FS_CardinalityType

\* A job between its stages: its attempts are counted, its chains are few.
Underway(j) == TriesOk(j) /\ j.keep \subseteq AllChains

\* From j to k is a step of a job.
Further(j, k) == Underway(k) /\ Work(k) > Work(j)

LEMMA WorkIs ==
  ASSUME NEW j, NEW c, Underway(j), Typed(j, c)
  PROVE  /\ Bites \in Nat \ {0} /\ Spawns \in Nat \ {0}
         /\ Cardinality(j.keep) \in 0 .. 5
         /\ Work(j) \in 0 .. 11 + Bites + Spawns
         /\ j.pc \notin {"green", "red"} => Work(j) < 11 + Bites + Spawns
<1>1. Bites \in Nat \ {0} /\ Spawns \in Nat \ {0} /\ Cardinality(j.keep) \in 0 .. 5
  BY LimitAssumption, FiveChains DEF Bites, Spawns, Underway
<1>2. /\ j.pc = "bite" => j.tries \in 0 .. Bites - 1
      /\ j.pc = "spawn" => j.tries \in 0 .. Spawns - 1
  BY DEF Underway, TriesOk, Bites, Spawns
<1> DEFINE k == Cardinality(j.keep)
<1>3. k \in 0 .. 5
  BY <1>1
<1>4. j.pc = "bite" => Work(j) \in 3 .. 2 + Bites
  BY <1>1, <1>2 DEF Work
<1>5. j.pc = "spawn" => Work(j) \in 4 + Bites .. 3 + Bites + Spawns
  BY <1>1, <1>2 DEF Work
<1>6. j.pc = "upgrade" => Work(j) = 10 + Bites + Spawns - k
  BY DEF Work
<1> HIDE DEF k
<1>7. j.pc = "upgrade" => Work(j) \in 5 .. 10 + Bites + Spawns
  BY <1>1, <1>3, <1>6
<1>8. j.pc \in {"green", "red"} => Work(j) = 11 + Bites + Spawns
  BY DEF Work
<1>9. j.pc \in {"clients", "artifacts", "resolve", "assert", "decide"} =>
        Work(j) \in {0, 1, 2, 3 + Bites, 4 + Bites + Spawns}
  BY DEF Work
<1> QED
  BY <1>1, <1>4, <1>5, <1>7, <1>8, <1>9 DEF Typed

LEMMA JobStepWorks ==
  ASSUME IInv, TInv, NEW id, JobStep(id), Underway(job[id])
  PROVE  \E j : job' = [job EXCEPT ![id] = j] /\ Further(job[id], j) /\ ~Ended(id)
<1>0. id \in DOMAIN job
  BY JobStepOk
<1> DEFINE o == job[id]
<1>1. DOMAIN o = Fields /\ Typed(o, CandidateOf(id)) /\ o.tries \in Nat
  BY <1>0 DEF IInv, JobOk, TInv, Typed
<1>2. /\ Bites \in Nat \ {0} /\ Spawns \in Nat \ {0}
      /\ Limit["bite"] = Bites /\ Limit["spawn"] = Spawns
      /\ Work(o) \in 0 .. 11 + Bites + Spawns
      /\ ~Ended(id) => Work(o) < 11 + Bites + Spawns
  BY <1>1, WorkIs DEF Ended, Bites, Spawns
<1>3. Underway(Red(id)) /\ Work(Red(id)) = 11 + Bites + Spawns
  BY DEF Underway, TriesOk, Red, NewJob, Work
<1>4. ~Ended(id) => Further(o, Red(id))
  BY <1>2, <1>3 DEF Further
<1>5. /\ o.pc \notin {"bite", "spawn"} => o.tries = 0
      /\ o.pc \in {"bite", "spawn"} => o.tries < Limit[o.pc]
      /\ o.keep \subseteq AllChains
  <2>1. TriesOk(o) /\ o.keep \subseteq AllChains
    BY DEF Underway
  <2>2. o.pc \in {"bite", "spawn"} => o.tries \in 0 .. Limit[o.pc] - 1 /\ Limit[o.pc] \in Nat
    BY <1>2, <2>1 DEF TriesOk
  <2>3. o.pc \notin {"bite", "spawn"} => o.tries = 0
    BY <2>1 DEF TriesOk
  <2> HIDE DEF o
  <2> QED
    BY <2>1, <2>2, <2>3
<1> HIDE DEF o
<1> SUFFICES ~Ended(id) /\ \E j : Becomes(id, j) /\ Further(o, j)
  BY DEF Becomes, o
<1>6. ASSUME NEW pc, o.pc = pc, pc \notin {"green", "red"} PROVE ~Ended(id)
  BY <1>6 DEF Ended, o
<1>7. CASE ApplyClients(id)
  <2>1. o.pc = "clients"
    BY <1>7 DEF ApplyClients, At, o
  <2>2. Further(o, [o EXCEPT !.pc = "artifacts", !.clients = applyBuilds])
    BY <1>1, <1>5, <2>1 DEF Further, Work, Underway, TriesOk, Fields
  <2> QED
    BY <1>6, <1>7, <2>1, <2>2 DEF ApplyClients, o
<1>8. CASE MatchArtifacts(id)
  <2>1. o.pc = "artifacts"
    BY <1>8 DEF MatchArtifacts, At, o
  <2>2. PICK m : Becomes(id, [o EXCEPT !.pc = "resolve", !.manifest = m])
    BY <1>8 DEF MatchArtifacts, o
  <2>3. Further(o, [o EXCEPT !.pc = "resolve", !.manifest = m])
    BY <1>1, <1>5, <2>1 DEF Further, Work, Underway, TriesOk, Fields
  <2> QED
    BY <1>6, <2>1, <2>2, <2>3
<1>9. CASE Resolve(id)
  <2>1. o.pc = "resolve"
    BY <1>9 DEF Resolve, At, o
  <2>2. PICK plan : Becomes(id, [o EXCEPT !.pc = "bite", !.plan = plan])
    BY <1>9 DEF Resolve, o
  <2>3. Further(o, [o EXCEPT !.pc = "bite", !.plan = plan])
    BY <1>1, <1>2, <1>5, <2>1 DEF Further, Work, Underway, TriesOk, Fields
  <2> QED
    BY <1>6, <2>1, <2>2, <2>3
<1>10. CASE Bite(id)
  <2>1. o.pc = "bite"
    BY <1>10 DEF Bite, At, o
  <2>2. Further(o, [o EXCEPT !.pc = "assert", !.tries = 0, !.bitten = live, !.fork = live])
    BY <1>1, <1>2, <1>5, <2>1 DEF Further, Work, Underway, TriesOk, Fields
  <2> QED
    BY <1>6, <1>10, <2>1, <2>2 DEF Bite, o
<1>11. CASE Retry(id)
  <2>1. o.pc \in {"bite", "spawn"}
    BY <1>11 DEF Retry, At, o
  <2>2. CASE o.tries + 1 = Limit[o.pc]
    BY <1>4, <1>6, <1>11, <2>1, <2>2 DEF Retry, o
  <2>3. CASE o.tries + 1 # Limit[o.pc]
    <3>1. Becomes(id, [o EXCEPT !.tries = @ + 1])
      BY <1>11, <2>3 DEF Retry, o
    <3>2. o.tries + 1 \in 0 .. Limit[o.pc] - 1
      BY <1>1, <1>2, <1>5, <2>1, <2>3
    <3>3. Further(o, [o EXCEPT !.tries = @ + 1])
      BY <1>1, <1>2, <1>5, <2>1, <3>2 DEF Further, Work, Underway, TriesOk, Fields
    <3> QED
      BY <1>6, <2>1, <3>1, <3>3
  <2> QED
    BY <2>2, <2>3
<1>12. CASE AssertEngine(id)
  <2>1. o.pc = "assert"
    BY <1>12 DEF AssertEngine, At, o
  <2>2. PICK runs : \/ Becomes(id, Red(id))
                    \/ Becomes(id, [o EXCEPT !.pc = "spawn", !.runs = runs])
    BY <1>12 DEF AssertEngine, o
  <2>3. Further(o, [o EXCEPT !.pc = "spawn", !.runs = runs])
    BY <1>1, <1>2, <1>5, <2>1 DEF Further, Work, Underway, TriesOk, Fields
  <2> QED
    BY <1>4, <1>6, <2>1, <2>2, <2>3
<1>13. CASE Spawn(id)
  <2>1. o.pc = "spawn"
    BY <1>13 DEF Spawn, At, o
  <2>2. Further(o, [o EXCEPT !.pc = "decide", !.tries = 0])
    BY <1>1, <1>2, <1>5, <2>1 DEF Further, Work, Underway, TriesOk, Fields
  <2> QED
    BY <1>6, <1>13, <2>1, <2>2 DEF Spawn, o
<1>14. CASE Decide(id)
  <2>1. o.pc = "decide"
    BY <1>14 DEF Decide, At, o
  <2>2. PICK keep : /\ keep \subseteq AllChains
                    /\ \/ Becomes(id, Red(id))
                       \/ Becomes(id, [o EXCEPT !.pc = "upgrade", !.keep = keep])
    <3> DEFINE c == CandidateOf(id)
    <3>1. PICK keep : /\ keep \subseteq Considered(o.manifest, c.steady)
                      /\ \/ Becomes(id, Red(id))
                         \/ Becomes(id, [o EXCEPT !.pc = "upgrade", !.keep = keep])
      BY <1>14, KeepConsidered DEF Decide, o
    <3>2. Names(o.manifest, "chains") = Names(c.manifest, "chains")
      BY <1>0 DEF IInv, JobOk, SamePins, Dims, o
    <3>3. /\ Names(c.manifest, "chains") \subseteq DOMAIN CHAINS[c.manifest.network]
          /\ c.manifest.network \in DOMAIN CHAINS
      BY <1>0, Candidates DEF IInv, validateManifest
    <3> QED
      BY <3>1, <3>2, <3>3, ConsideredNamed, ChainNames
  <2>3. Cardinality(keep) \in 0 .. 5
    BY <2>2, FiveChains
  <2>4. Further(o, [o EXCEPT !.pc = "upgrade", !.keep = keep])
    BY <1>1, <1>2, <1>5, <2>1, <2>2, <2>3 DEF Further, Work, Underway, TriesOk, Fields
  <2> QED
    BY <1>4, <1>6, <2>1, <2>2, <2>4
<1>15. CASE Upgrade(id)
  <2>1. o.pc = "upgrade"
    BY <1>15 DEF Upgrade, At, o
  <2>2. PICK x, spec :
          /\ x \in o.keep
          /\ \/ Becomes(id, Red(id))
             \/ Becomes(id, [o EXCEPT !.fork[x] = spec, !.keep = @ \ {x}])
    BY <1>15 DEF Upgrade, o
  <2> DEFINE j == [o EXCEPT !.fork[x] = spec, !.keep = @ \ {x}]
  <2>3. j.pc = "upgrade" /\ j.tries = o.tries /\ j.keep = o.keep \ {x}
    BY <1>1, <2>1 DEF Fields
  <2>4. Cardinality(j.keep) = Cardinality(o.keep) - 1 /\ Cardinality(o.keep) \in 0 .. 5
    BY <1>5, <2>2, <2>3, FiveChains, FS_RemoveElement
  <2> HIDE DEF j
  <2>5. Further(o, j)
    BY <1>2, <1>5, <2>1, <2>3, <2>4 DEF Further, Work, Underway, TriesOk
  <2> QED
    BY <1>4, <1>6, <2>1, <2>2, <2>5 DEF j
<1>16. CASE RunTests(id)
  <2>1. o.pc = "upgrade"
    BY <1>16 DEF RunTests, At, o
  <2>2. Work(o) < 11 + Bites + Spawns
    BY <1>2, <1>6, <2>1
  <2>3. Work([o EXCEPT !.pc = "green"]) = 11 + Bites + Spawns
        /\ Underway([o EXCEPT !.pc = "green"])
    BY <1>1, <1>5, <2>1 DEF Work, Underway, TriesOk, Fields
  <2> QED
    BY <1>6, <1>16, <2>1, <2>2, <2>3 DEF RunTests, Further, o
<1>17. CASE StepFails(id)
  BY <1>4, <1>17 DEF StepFails
<1> QED
  BY <1>7, <1>8, <1>9, <1>10, <1>11, <1>12, <1>13, <1>14, <1>15, <1>16, <1>17, Zenon
  DEF JobStep

\* A job is bounded work: each step of it, a failed attempt included, brings it
\* nearer to a verdict, after which it stays as it is, and nothing the world does
\* undoes any of it.  So it takes at most 11 steps more than the attempts allowed
\* at the fork and at its start (release-gate.yml).
THEOREM JobsAreBounded == Spec => []WorkBounded /\ [][WorkGrows]_vars
<1> DEFINE WInv ==
      /\ stage = "plan" => matrix = {}
      /\ \A id \in DOMAIN job : Underway(job[id])
<1>1. Init => WInv /\ TInv
  BY DEF Init, TInv
<1>2. ASSUME IInv, TInv, WInv, [Next]_vars PROVE WInv' /\ WorkGrows
  <2>1. CASE PlanRun
    <3>1. DOMAIN job = {}
      BY <1>2, <2>1 DEF PlanRun, IInv, Plan
    <3>2. stage' # "plan"
      BY <2>1 DEF PlanRun
    <3>3. \A c : Underway(NewJob(c))
      BY DEF Underway, TriesOk, NewJob
    <3>4. \A id \in DOMAIN job' : \E c : job'[id] = NewJob(c)
      BY <2>1, <3>1 DEF PlanRun
    <3>5. \A id \in DOMAIN job' : Underway(job'[id])
      BY <3>3, <3>4
    <3> QED
      BY <3>1, <3>2, <3>5 DEF WorkGrows, Underway, TriesOk
  <2>2. ASSUME NEW id, JobStep(id) PROVE WInv' /\ WorkGrows
    <3>1. id \in DOMAIN job /\ UNCHANGED <<stage, matrix>>
      BY <1>2, <2>2, JobStepOk DEF planned
    <3>2. PICK j : job' = [job EXCEPT ![id] = j] /\ Further(job[id], j) /\ ~Ended(id)
      BY <1>2, <2>2, <3>1, JobStepWorks
    <3>3. \A i \in DOMAIN job' : Underway(job'[i])
      BY <1>2, <3>1, <3>2 DEF Further
    <3>4. \A i \in DOMAIN job : job'[i] # job[i] => i = id /\ job'[i] = j
      BY <3>1, <3>2
    <3>5. WorkGrows
      BY <3>2, <3>4 DEF WorkGrows, Further, Work, Bites, Spawns
    <3> QED
      BY <1>2, <3>1, <3>3, <3>5 DEF Underway, TriesOk
  <2>3. ASSUME UNCHANGED <<stage, matrix, job>> PROVE WInv' /\ WorkGrows
    BY <1>2, <2>3 DEF WorkGrows, Underway, TriesOk
  <2>4. ASSUME NEW x, Deploy(x) \/ LatestMoves(x) \/ NpmPublishes(x)
        PROVE  UNCHANGED <<stage, matrix, job>>
    BY <2>4 DEF Deploy, LatestMoves, NpmPublishes, planned
  <2>5. CASE UNCHANGED vars
    BY <2>3, <2>5 DEF vars
  <2> QED
    BY <1>2, <2>1, <2>2, <2>3, <2>4, <2>5 DEF Next, RunStep
<1>3. ASSUME TInv, WInv PROVE WorkBounded
  BY <1>3, WorkIs DEF TInv, WorkBounded
<1>4. IInv /\ TInv /\ [Next]_vars => TInv'
  BY StepTyped
<1>5. IInv /\ TInv /\ WInv /\ [Next]_vars => WInv' /\ WorkGrows
  BY <1>2
<1>6. TInv /\ WInv => WorkBounded
  BY <1>3
<1> HIDE DEF WInv
<1> QED
  BY <1>1, <1>4, <1>5, <1>6, Invariance, PTL DEF Spec
=============================================================================
