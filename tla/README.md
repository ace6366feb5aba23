# polkadot-pop-e2e in TLA+

`polkadot-pop-e2e` is the end-to-end suite of the Polkadot proof-of-personhood stack and the release gate
that runs it against forks of live networks. Most of its code is waiting: for an attested key to enter a
ring, for a ring root to reach Asset Hub, for a proof to be accepted before the ring moves again. The
chains move between any two reads, and what a test or an alert then says about them is the product. This
directory models that code, checks it with TLC and proves its main properties with TLAPS.

Paths are relative to the repository; `ring.ts` is `packages/chain-tests/src/lib/ring.ts`.

## 1. The system

### 1.1 Components

| Component | State | Operations | What makes it correct |
|---|---|---|---|
| Ring reads (`ring.ts`) | none; reads pinned to finalized blocks of People | `fetchRingMembers`, `isInRoot`, `takeRingSnapshot`, `captureRingDiagnostic` | the members returned are those the ring root was built from, and every reader agrees which they are |
| Inclusion wait (`ring.ts`) | clock, last tag, slot read before the settling time, first diagnostic | `waitForInclusion`, `formatInclusionTimeout` | it ends; a location it returns is provable; a timeout blames the right party |
| PopCounter (`contracts/PopCounter.sol`) | two totals, two per-person tallies, a nonce per caller | `bump`, `expectedMessage`, `bumpByProof` | an accepted proof is spent for good; one bump counts one person once |
| By-proof test (`tests/pop-gate-by-proof.test.ts`) | message read once, attempt, snapshot, count before the bump | build arguments (three attempts), bump, replay | it fails only for a reason the stack is to blame for |
| Ring health probe and alert (`tests/probes/ring-health.test.ts`, `scripts/parse-ring-health.py`, `scripts/diff-ring-health.py`) | the state saved by the last CI run; what the room was told | probe, parse, diff, notify | no page for one bad run, no missed recovery, no repeated or wrong message |
| Claim loops (`lib/alias-claim.ts`, `lts-claim.ts`, `people-claim.ts`, `allowances.ts`, `tests/alias-claim.test.ts`) | snapshot, period, attempt | wait for the mirror, snapshot, prove, submit, classify the error, retry | a rejected proof means the ring moved; every claim ends; a retry may meet its own earlier transaction |
| Attested account and cascades (`lib/attested-fixture.ts`, `attestation-budget.ts`, `ring-cascade.ts`, `chain-cascade.ts`, `tests/test-sequencer.ts`) | attestation in flight, permanent failure, chains marked unhealthy | attest once, fail fast afterwards | one attestation per run; a failure downstream names the failure upstream |
| Statement transport (`lib/statement-transport.ts`) | requests waiting for an answer | send, deliver, settle, close | the socket closes only when nothing is owed |
| Host CLI wrapper (`lib/truapi-host.ts`) | memoised version check, deadline of a claim | run the CLI under a kill, claim PGAS with retries | the runs of the CLI share one deadline |
| Release map (`environments/release-map.mjs`, `gate-form.mjs`) | none: tables, and functions over manifests | parse pins, validate, lay a request over the record, transitions, candidate matrix | a request only narrows what the record allows; the candidates part the request between them |
| Baseline scan (`environments/baseline-scan.mjs`, `github.mjs`, `.github/workflows/baseline-scan.yml`) | the record checked out, verdicts, the pull request | observe, compare, attribute, rewrite, propose | a pin is only rewritten to what production ran; a correction is not lost |
| Release gate (`.github/workflows/release-gate.yml`, `resolve.mjs`) | the matrix, and one job per candidate with a fork of its own | plan, fork, spawn, upgrade one by one, test | green only if every chain the candidate is about runs its pin |
| Pins, builds and engine (`artifact-pins.mjs`, `client-builds.mjs`, `assert-engine.mjs`, `plan-upgrades.mjs`, `wasm-spec.mjs`) | none | match supplied builds, resolve clients, check the engine, decide the upgrades | what runs is what was pinned |
| Runtime diff, summaries, RPC diagnostics, network actions, chain clients and encodings | | comparison, rendering, HTTP lookups, deployment, byte formats | not modelled: no protocol |

### 1.2 Interactions

A run of the suite attests one account through the identity backend; its ring key is registered on People,
onboarded to a ring and baked into the ring root by an offchain builder, which bumps the ring's revision.
`waitForInclusion` reads that from finalized blocks of People. Proofs are made off chain over the root's
members (`fetchRingMembers`) and verified on Asset Hub, which mirrors the last few roots; hence the waits
for a revision to be mirrored, and the retry loops for the case that it leaves the window again. The
contract asks the personhood precompile to verify a proof bound to the caller and its nonce. The
ring-health probe reads both chains on a schedule; its log is parsed to a state, and the state is compared
with the one saved by the run before to decide whether a room is told.

The committed manifests say which releases each network runs. The baseline scan keeps them true to
production and leaves its corrections in a pull request. The release gate lays a request over a manifest
(or takes the two sides of a pull request), makes a matrix of candidates of it, and works through one job
per candidate: a fork of the live network, started on the pinned binaries, upgraded to the pinned runtimes,
and tested with the suite above.

### 1.3 What is hard

Reads that are not from one block; a value read before a wait and used after it; a root that is rebuilt,
reset or evicted at any time; transactions whose fate the client does not learn; saved state that is lost;
several accounts of one person; "latest", dist-tags and production that move while several jobs work from
them; a pipeline that fails half way. `hazards` in `PROJECT.json` lists each at its line, with the property that
covers it or the reason none does yet.

## 2. Modules

| Module | Models | Lines it stands for |
|---|---|---|
| `RingChain` | one collection of the Members pallet, block by block (external: from how `ring.ts` and its comments use it) | |
| `RingReads` | the reads, as functions of the block they are pinned to | `ring.ts` 47-79, 167-182, 358-396 |
| `RingInclusion` | `waitForInclusion` over a moving chain | `ring.ts` 206-356, 406-447 |
| `MCRingInclusion` | instances for TLC | |
| `RingInclusion_proofs` | theorems | |
| `PopCounter` | the contract; precompile, alias registry and mirror are external | `PopCounter.sol` 54-108 |
| `PersonTally` | abstract: what the by-proof path promises | |
| `PopByProof` | the by-proof test as a client of the contract, one run per account, composed with `PopCounter` | `pop-gate-by-proof.test.ts` 45, 83-182 |
| `MCPopByProof`, `PopByProof_proofs` | instance; theorems and the refinement | |
| `RingHealthAlert` | the debounce, over runs that may lose the saved state | `diff-ring-health.py` 42-71, 107-144, 162-241 |
| `RingHealthAlert_proofs` | theorems | |
| `SuiteCascade` | the files of a vitest run in sequencer order and the state they share | `attested-fixture.ts`, `attestation-budget.ts`, `ring-cascade.ts`, `chain-cascade.ts`, `test-sequencer.ts`, `vitest.config.ts`, and what each test file asks of them |
| `SharedPerson` | abstract: what the attestation fixture promises | |
| `SuiteCascade_proofs` | theorems and the refinement | |
| `ProofClaim` | the alias, storage and PGAS claims, each with its retries, over a ring that is rebuilt and a mirror that lags | `alias-claim.ts` 73-76, 136-275, `alias-claim.test.ts` 59-86, 165-192, `lts-claim.ts` 52-141, `people-claim.ts` 27-63, `truapi-host.ts` 63-126 |
| `ProofClaim_proofs` | theorems | |
| `ReleaseMap` | the tables, and the operators on manifests and requests; no state | `release-map.mjs`, `gate-form.mjs` |
| `ReleaseMap_proofs` | what the operators do, as lemmas for the two modules that follow, and theorems on the tables | |
| `RecordLedger` | abstract: what the scan promises of the committed manifests | |
| `BaselineScan` | the scan and its pull request over `ReleaseMap`, while production and releases move | `baseline-scan.mjs`, `github.mjs`, `baseline-scan.yml` |
| `MCBaselineScan`, `BaselineScan_proofs` | instance, with an assumption on the tables; theorems and the refinement | |
| `ReleaseGate` | the plan job and the jobs of its candidates over `ReleaseMap` | `release-gate.yml`, `resolve.mjs`, `artifact-pins.mjs`, `client-builds.mjs`, `assert-engine.mjs`, `plan-upgrades.mjs`, `wasm-spec.mjs` |
| `MCReleaseGate`, `ReleaseGate_proofs` | instance; theorems | |

### 2.1 RingChain, RingReads, RingInclusion

`chain` is the latest finalized block: status of each key, the keys on the pages of `RingKeys` with their
slot, how many keys each root contains (`included`) and each root's revision. `Register`, `Onboard`,
`BuildRing`, `Suspend` and `RemoveSuspended` are the calls that matter; `EmptyBlock` lets height pass
without news. As on chain, onboarding turns a member `Included` and appends its key before any build, and
a build may take several blocks to catch up. A finalized block never changes, so a read pinned to it is an
operator on the captured block: `fin` and `fin2` hold the blocks of a poll and of its re-check, and
capturing them (`Poll`, `Settle`) is a step apart from using them.

The steps of the waiter follow the loop: `Begin` (baseline diagnostic), `Poll` (loop condition and
`getFinalizedBlock`), `ReadInRing` / `ReadPending` / `ReadWaiting` (the branches on the status), `Settle`
(18 s, then the second block), `Locate` / `Unstable`, `Sleep`, `TimeOut` with its verdict, and `RpcError`
for a read that throws. The slot `loc` is read before the settling time and used after it, as in the code.
`clock` counts polls (`pollMs`); time spent in reads is not counted.

### 2.2 PopCounter, PersonTally, PopByProof

An alias is deterministic in person and context, so persons stand for aliases. `keccak256` is taken to be
injective: a message is the pair it hashes. A proof names its person, its message and the revision of its
root; the precompile accepts it when that root is in the window and the message is the expected one.
`accepted` is a history of the bumps by proof. `Rebuild` and `Mirror` move the ring and the window,
skipping revisions as the mirror may. Every account runs the test: `ReadMessage`, up to three times
`Snapshot`, `SeeMirrored` or `MirrorTimesOut`, and the dry-run; then `ReadBefore`, `Submit`, `Land`,
`Hear`, `ReadAfter`, `Replay`. `LandReverts` is a transaction turned down after an accepted dry-run, `Throw`
a call that fails, and `RunAgain` a later run of the suite with the same account. Between `Submit` and its
block a transaction is in Asset Hub's pool: `StopWatching` ends the run and leaves it there (`left`), from
where it may land in any later step, also in the middle of the account's next run (`LandLeft`), or never
(`Lapse`). As in the test file, a count that is off does not keep the replay test from running. `late` and
`noted` are history: what the account had in the pool when it read its message, and the nonces when it
read `before`.

`PersonTally` knows callers, numbered tickets and persons only: a ticket is redeemed at most once, in
order, and counts one person once. `Tally` in `PopByProof` maps the accepted proofs to tickets.

### 2.3 RingHealthAlert

`saved` is what one CI run leaves for the next; `room`, `observed`, `streak`, `carried` and `lost` are
history variables. A run either finds the state of the run before (`CarriedRun`) or none (`LostRun`: the
first run, an evicted cache, or a file that is not JSON). `Reasons` are the errors the probe can throw and
`Categorise` what the patterns of the script make of each. A failing run may report any set of reasons,
the empty one included, because the parser reports a run that died without an error line as a fail.

### 2.4 SuiteCascade

A run takes the files of one npm script, or one file named by hand, in the order of
`OrderedSequencer.sort`. They share one process: `unhealthy` is the map of `chain-cascade.ts`, `fixture`
the promise `inflight` with what it waits for (`attesting` the host CLI, `searching` the backend's search,
`resolved`), `failure` is `cachedFailure` with or without the backend's tag, `location` stands for
`cachedRingLocation` and `ringKeyDrift`. `credentials` is the file on disk; `NextRun` starts another
process that finds it or finds it cleared.

A file either reports `chain-cascade` from its `beforeAll` or starts. The two probes may mark chains. A
file that needs the account fails fast, joins the promise, reuses the credentials or begins an attestation;
then it waits while `Tick` lets time pass, until `Searchable`, `Reject` or its own timeout (`GiveUp`).
After a `GiveUp` the attestation goes on under the files that follow, because nothing cancels the promise.
A file with the account looks its ring location up, waits for the inclusion, or reports the drift.

Which chains a probe finds dead, whether a feature suite passes, and how long the backend takes are free.
The Identity Backend is configured, and the time a hook spends before it asks for the account is not
charged to its budget.

`SharedPerson` is the fixture seen from the files: a process asks once, gets one answer for good, and an
account that was written down is everyone's until it is removed between two processes. Its `answer` is
mapped to the promise in flight together with the failure that is kept, its `person` to the file on disk.

### 2.5 ProofClaim

`kind` says which of three claims a behaviour makes. The alias and the storage claim are transactions:
`AwaitMirror` and `Mirrored` are the test's wait for one revision, `ReadPeriod` the clock read once, then
per attempt `takeSnapshot`, `createAndSubmit` and the fate of the transaction: `Finalized`,
`DispatchFails`, `Invalidated` by the pool, or `StreamFails`, after which the transaction stays in `pool`
and may land under a later attempt. `Caught` is the classification and the count of the attempts.
`StreamEnds` leaves the storage claim `hung`, as its promise heeds finalized events and errors only; the
alias submission goes through the library, which ends such a stream with an error.
`claimPgas` runs the CLI up to three times: `left` is the time to the deadline, `limit` what the run at
work was given before it is killed. `CliFails` retries when the output tells of the lag, also the output of
a run that was killed.

`Objections` is what the chain that takes the claim can find wrong with it: for the alias a revision that
left or never entered Asset Hub's window, for the storage claim a revision older than People's grace or a
period that passed. `moved` and `bad` count rebuilds and rejected proofs, for the properties only.

### 2.6 ReleaseMap and BaselineScan

A manifest's pins are one partial function from paths `<<dimension, name>>` to pins, where the source nests
objects; an overlay is such a function too and `Over` is the object spread. Pins are records of their kind:
what no form of `parseReleaseRef` matches is "malformed". The tables are those of the source with short
names for repositories, assets and chains.

A scan is taken apart into its reads: `SeeVersion` and `SeeCode` are separate steps in any order, `Compare`
fetches the pinned release, `Attribute` walks the newest ones, `Conclude` records the verdict and, at the
last chain of a network, rewrites that manifest (`applyDrift`). `Unreachable` is an endpoint that fails,
`FetchFails` a page or download that does, which ends the whole scan with the manifests before it already
rewritten. `Propose` opens the pull request, or replaces it, from whatever the checkout holds. `Deploy`,
`Publish` and `Merge` happen at any time. A runtime is a spec version with the build it came from, so equal
versions need not be equal bytes. `ran` is the history of what production ran since the scan began.

`RecordLedger` is the scan seen from the record: pins move by merges only, a merge moves what was proposed,
and a proposal holds only pins the scan at work had grounds for. Its grounds are mapped to the tags that
carry what `ran` says of the chain.

### 2.7 ReleaseGate

`request` is a filled-in form over the committed manifest, or the two sides of a pull request, which may come
with clients when another repository called the workflow for its own; `engine` is
what the fork is started with, which may ignore an override, run other defaults, or not record a chain's
version. `PlanRun` refuses the request or fixes the matrix and the clients. Each job then goes through
`ApplyClients`, `MatchArtifacts`, `Resolve`, `Bite`, `AssertEngine`, `Spawn`, `Decide`, one `Upgrade` per
chain in any order, and `RunTests`, beside the other jobs; `Retry` counts the attempts at the fork and at
its start, `StepFails` ends the job at any step. `latest` is resolved by each job when it gets there, as in
the code. `Deploy`, `LatestMoves` and `NpmPublishes` are the world that moves on.

`list` is where `MatchArtifacts` looks for a build: in the artifact the pin names or, when that came with no
file, in everything the job downloaded (`Downloaded`), so the build it finds may be another artifact's.

A blob is a runtime with the chain whose name it declares, its version, and whether they can be read.
`Upgrade` is `set_code` on the fork: it takes a newer runtime of that chain only; `RunTests` stands for a
suite that passes, `StepFails` for one that does not.

## 3. Runs

| Run | Instance | Shows |
|---|---|---|
| `ring_inclusion_lite` | 3 keys, 2 rings of 2, pages of 1, builds of 1, 7 blocks, timeout 2 polls | types, what a missing tag means, and that the wait ends |
| `ring_inclusion_flexible` | 3 keys in one ring and page, suspensions, 8 blocks, timeout 3 polls | what is returned is provable and a timeout is honest, with keys that move and roots that are reset |
| `ring_verdict` | as lite | **violated**: a key never seen is blamed on the builder |
| `pop_by_proof` | 2 accounts of one person, window 1, one rebuild, 2 bumps per path, 1 bump left in the pool | spent proofs, exact tallies, causes of reverts and miscounts, refinement of `PersonTally` |
| `ring_health_alert` | up to 3 fails in a row | debounce, recoveries, no noise, true headers |
| `suite_cascade` | every script and every single file, two runs on one credentials file | one attestation, one account, who pays for it, budgets, cascades and the single wait for inclusion; refinement of `SharedPerson` |
| `suite_dead_people` | as above, one run | **violated**: an attestation is started on a People chain marked unhealthy |
| `proof_claim` | grace 1, window 2, deadline 3, 7 revisions | causes of rejected proofs, the PGAS deadline, every claim ends or hangs |
| `alias_retry` | as above, 5 revisions | **violated**: one rebuild uses up all attempts of the alias |
| `baseline_scan` | 3 chains of 2 networks, a walk of 2, versions to 2, 4 releases, 1 failure | pins are rewritten to what ran, a green scan is true, corrections reach the pull request; refinement of `RecordLedger` |
| `release_gate` | 10 requests, 3 engines, a record of 2 chains | a green job ran its pins, nothing else was touched, one set of clients, what cross terms share, every job ends |
| `gate_mixed_ask` | as above | **violated**: a release beside a supplied build is listed as tested and is not |

Properties, in words:

- `LocationProvable`: a location returned is one whose snapshot contains the own key.
- `RootViewsAgree`: `isInRoot` and the sliced page walk agree on every key of every block.
- `TimeoutHonest`: unless the last thing seen was an unstable re-check, a timeout means the last block
  polled had no provable inclusion.
- `MissingIsReal`: a `missing` tag or a backend verdict comes from a last block without an entry.
- `WaitEnds`: a wait that polls is located, timed out or failed in the end.
- `SpentForGood`, `TalliesExact`: an accepted proof is never acceptable again, from any caller; tallies
  are numbers of accepted bumps in all, per person and per caller.
- `OnlyDriftReverts`: what is turned down is over a root that left the window, or a bump of an earlier run
  of the account, in the pool when the message was read, has landed since. Nothing else makes the message,
  read once before the retries, stale.
- `MiscountNeedsTwin`: `before + 1` fails only when another account of the same person bumped after `before`
  was read. A late bump of the own account cannot do it: it makes the own transaction revert instead.
- `TallySpec`: the by-proof path implements `PersonTally`.
- `NoPageForOne`, `RecoveryTold`, `RoomUpToDate`, `NoNoise`, `HeaderTrue`: see the comments in the module.
- `OneAttestation`, `OneAccount`: a run starts at most one attestation, also when a file gave up on it or
  it failed; all files of all runs on one credentials file act as the same person.
- `ProbePays`: with the Identity Backend probe in the run and People alive, no feature suite pays for the
  attestation, hence none is reported broken in the backend's place.
- `AttributedBeforeTimeout`: a file with the attestation budget is never ended by vitest's own timeout.
- `CascadeHasASignal`: when a file reports the cascade marker, the file that paid for the attestation
  reported the error itself, unless it attested within a test too short for it.
- `InclusionWaitedOnce`, `DriftEndsWaits`: the inclusion is waited for once; after a drift, never again.
- `PersonSpec`: the fixture, its failure and the credentials file implement `SharedPerson`.
- `BadProofIsARebuild`: proofs are rejected only for rebuilds during the claim, more than the grace for
  each rejection of the storage claim.
- `PgasWithinDeadline`: however often the CLI is run again, the PGAS claim is not at work past its deadline.
- `ClaimEnds`: every claim ends, or hangs on a stream that went quiet.
- `PinsWereRun`: a pin is rewritten only to a release that carries what production ran during the scan,
  though version and code are read at no common block and production moves between reads, walk and write,
  and a scan may break off with some manifests rewritten.
- `GreenScanTrue`: after a scan that calls for nobody, every pin names what its chain ran meanwhile.
- `RecordCatchesUp`: once production stands still, every wrong pin whose release the walk can reach has its
  correction in the pull request or on the main branch, for good, also beside a chain no release matches.
  Downloads that fail for ever are outside it: the scan breaks off there, and what comes after waits.
- `LedgerSpec`: the scan, its pull request and the main branch implement `RecordLedger`: the record takes
  nothing but what a scan had proved.
- `GreenRunsItsPins`: a green candidate ran what it was about: the supplied builds, or every pin. For a build
  whose artifact came with no file, that is a build of the same chain in an artifact another pin names.
- `OnlyTheAskIsTouched`: no other chain of the fork was changed; none by a request for clients alone.
- `OneClientForAll`: all jobs test the same clients, whenever each installs and however dist-tags move.
- `CrossTermsSplitTheAsk`: each move of the target is made by exactly one of the cross terms.
- `SpawnedOnItsPins`: past the engine check, every binary and overridable service is the pinned one, the
  binaries because the override took, not because the default happens to be the same.
- `RunEnds`: whatever fails and is retried, every job comes to a verdict.

`MCBaselineScan` also has TLC evaluate `SourcesShownAreSourcesTaken`: on every network, the table of
allowed sources that a rejected tester is shown and the validator agree on every path and repository; the
theorem `SourcesShownAreTaken` is that fact.

### 3.1 Bounds

`MaxHeight` bounds blocks: 7 are enough for two keys to be registered and onboarded, for the own key to land
on the second page or in the second ring, and for builds before, between and after the two reads; 8 in the
flexible collection also fit a suspension and the removal that moves the own key. `RingSize`, `PageSize` and
`BuildLimit` are at the smallest values at which a page, a ring and a build are each full at different times;
in the flexible run a ring is one page, so reads across pages are left to the theorems. `TimeoutTicks` leaves
room for an unstable re-check followed by another poll.
In `PopByProof`, `MaxRevision` 1 with a window of 1 evicts a root under an attempt; giving up by drift alone
takes three rebuilds and is left to the theorem `RevertsAreDrift`. `MaxBumps` 2 lets either account bump
twice or both once, and `MaxLeft` 1 leaves one bump in the pool for the next run of its account, or for a
run of its twin. `MaxFails` 3 is one past the threshold. In `SuiteCascade` a tick is 30 s, and the
limits are the ones of the code in ticks (480, 240, 60, 300 and 180 s; a last search poll of at most 13 s
is rounded up to one tick); the others are multiples of a tick, so no order of two timers is lost.
`MaxRun` 2 is the least that reuses a credentials file or finds it cleared.

In `ProofClaim`, 7 revisions are the least at which all three storage attempts can be rejected (a grace of 1
takes two rebuilds each), and more than enough to push one out of a window of 2; a deadline of 3 lets each CLI
run take a unit, or the first take them all. In `BaselineScan`, devnet's relay is compared by version and the
two people chains by bytes, in two manifests of which the first has two chains and both its runtimes from one
repository; the walk of 2 is shorter than the 4 releases there may be, so releases fall off it; production
starts on a build no release carries. In `ReleaseGate` the record has relay and people of previewnet, one
ahead of live and one that falls behind it; the requests cover clients alone, one chain, all dimensions at
once, supplied builds by name and by match, two builds of which one was never uploaded, an illegal one, and
pull requests up, down and with clients alone. `Limit` is 2 for the fork and 1 for its start, so one is
retried and one is not; only people is deployed to, once, since what matters is whether that falls before or
after a job's fork. The theorems of section 4 do not depend on the sizes of the instance: the bounds enter
them as arbitrary constants. Symmetry is used in the flexible run only, over the keys of other accounts, and
that run checks no liveness.

Deadlock is checked in `BaselineScan`, whose scan goes on for ever, and in `ReleaseGate`, where the world
may always move. It is not checked in the other runs: a wait, a claim or a run of the suite may end, and
the bounded chains may stop.

### 3.2 Fairness

All of it is weak fairness of the program's own steps; nothing outside has to happen.

- `RingInclusion`: the waiter's steps. It is what the JavaScript event loop gives a pending timer or
  promise; a read that would never answer is ended by the client with an error (`RpcError`), which needs no
  fairness because nothing depends on it happening. `WaitEnds` holds although chain, builder and mirror may
  stop at any time.
- `ProofClaim`: `ClaimStep`, the steps of the claim and of the transaction it watches, the end of its stream
  included. `ClaimEnds` asks nothing of rebuilds, imports or periods.
- `BaselineScan`: `ScanStep`. The workflow runs on a schedule and each step of a job is run to its end or
  its timeout. Nobody has to merge, deploy or publish for `RecordCatchesUp`.
- `ReleaseGate`: `RunStep`. The runner gets on with every job, and every job has a timeout.

`PopByProof`, `RingHealthAlert` and `SuiteCascade` state safety only and assume none.

### 3.3 Where the code and its documentation disagree

Each of these is a run of its own that TLC finds violated, on a property that says what the comment says:

1. `ring_verdict`, `ring.ts:435`. `revDelta === 0` is tested before `lastTag === "missing"`, so a
   registration that never landed is reported as the "builder stuck" fault whenever no ring was rebuilt
   meanwhile.
2. `suite_dead_people`, `pop-gate.test.ts:36`. The file asserts Asset Hub only and attests in its test;
   `hop-submit-and-claim.test.ts:139` attests and asserts no chain. With People marked unhealthy the probe
   cascades without attesting, and one of these two starts the attestation that `ib-health.test.ts:38-40`
   wants spared. Should it fail, a later file reports the marker that points at the Identity Backend probe,
   which never attested.
3. `alias_retry`, `alias-claim.ts:213`. Every attempt proves against the revision People has at that moment,
   and only the caller waited for the mirror. A rebuild after that wait makes all three attempts fail within
   moments, although "re-snapshotting picks up the new revision and the next attempt lands" (167-168).
4. `gate_mixed_ask`, `plan-upgrades.mjs:46`. With a supplied build for one chain, a release pin that the same
   request moves is skipped; the job is green and its summary lists the move under "Transitions under test"
   (`release-gate.yml:488`; `release-map.mjs:574-575`).

Seen while modelling, without a run:

- `ring.ts:278`. The second read is meant to cross a finalisation boundary (218-221, 274-276); the code waits
  18 s and takes whatever block is finalized then. With finality stalled it is the first one again.
- `ring.ts:380`. The diagnostic reads the revision of ring 0 only. When ring 0 is full and the builder works
  on ring 1, the verdict says it produced nothing.
- `diff-ring-health.py:42`. Three of the probe's messages match no pattern and all become `other`, so a
  failure that changes among them is not told, which the comment above the table promises.
- `truapi-host.ts:112-113` says the PGAS claim "fails with the CLI's error once `deadline` passes". A run
  killed at the deadline after it printed the lag is retried, and the claim fails with "no time left".
- `release-gate.yml:58` says of a chain's field "left alone unless set". A chain not named is upgraded too
  when the record is ahead of live, and makes the job an error when it is behind.
- `release-map.mjs:593` says "steady state — no pin moves" when a pull request removes a pin, while the
  candidate is not steady (613-625) and its chains are upgraded.
- `release-gate.yml`: `latest` is resolved by every job for itself, so the candidates of one run may test
  different releases. `GreenRunsItsPins` takes any tag that was latest during the run.
- `artifact-pins.mjs:129`. An artifact that was never uploaded is not missed as long as another one was: the
  whole download is searched, and a build of the same chain from there passes for it. The comment above
  wants that for artifacts that were merged, which the workflow never asks for, and the header promises a
  file "inside that artifact". `GreenRunsItsPins` says what is left of it.
- `pop-gate-by-proof.test.ts:116`. The retries are to re-snapshot what a rebuild made stale; a bump of an
  earlier run that lands after the message was read makes the message stale, and all three attempts bind it.
- `baseline-scan.yml`: a pull request is replaced when a scan moves a pin and stays when none does, so it may
  still propose a pin that production has left.

## 4. Proofs

TLAPS checks the following for all values of the constants that the named assumptions allow.

| Theorem | Property |
|---|---|
| `RingInclusion_proofs`: `TypeCorrect`, `LocationIsProvable`, `RootViewsAlwaysAgree`, `TimeoutsAreHonest`, `MissingIsAlwaysReal` | `TypeOK`, `LocationProvable`, `RootViewsAgree`, `TimeoutHonest`, `MissingIsReal` |
| `PopByProof_proofs`: `TypeCorrect`, `ProofsAreSpent`, `TalliesAreExact`, `MiscountsNeedTwins`, `RevertsAreDrift`, `ImplementsTally` | `TypeOK`, `SpentForGood`, `TalliesExact`, `MiscountNeedsTwin`, `OnlyDriftReverts`, `TallySpec` |
| `RingHealthAlert_proofs`: `TypeCorrect`, `RecoveriesAreTold`, `RoomIsUpToDate`, `OneFailDoesNotPage`, `MessagesAreNews`, `HeadersAreTrue` | `TypeOK`, `RecoveryTold`, `RoomUpToDate`, `NoPageForOne`, `NoNoise`, `HeaderTrue` |
| `SuiteCascade_proofs`: `AtMostOneAttestation`, `SamePersonThroughout`, `BudgetOutlastsAttestation`, `CascadeFollowsItsSignal`, `DriftIsFinal`, `TheProbePays`, `OneWaitForInclusion`, `ImplementsPerson` | `OneAttestation`, `OneAccount`, `AttributedBeforeTimeout`, `CascadeHasASignal`, `DriftEndsWaits`, `ProbePays`, `InclusionWaitedOnce`, `PersonSpec` |
| `ProofClaim_proofs`: `TypeCorrect`, `RejectionsAreRebuilds`, `PgasKeepsItsDeadline` | `TypeOK`, `BadProofIsARebuild`, `PgasWithinDeadline` |
| `BaselineScan_proofs`: `PinsRun`, `GreenIsTrue`, `ImplementsLedger` | `PinsWereRun`, `GreenScanTrue`, `LedgerSpec` |
| `ReleaseGate_proofs`: `GreenMeansUpgraded`, `OnlyTheAsk`, `OneClient`, `CrossTermsShareTheAsk`, `SpawnsItsPins` | `GreenRunsItsPins`, `OnlyTheAskIsTouched`, `OneClientForAll`, `CrossTermsSplitTheAsk`, `SpawnedOnItsPins` |

`TypeCorrect` of `SuiteCascade_proofs`, `BaselineScan_proofs` and `ReleaseGate_proofs` proves the module's
`TypeOK`, which is left out of those runs. Three more groups state what no run checks as a property.

*What a run can cost.* The liveness properties say that a wait, a claim, a scan and a job end; that they do
needs fairness, but not how soon. Each module counts the work done (`Work`), and the theorem says that every
step of the program raises it, that no step of the world lowers it, that what has ended stays ended, and
that it is bounded: so the program takes at most that many steps, whatever it meets.

| Theorem | Bound |
|---|---|
| `RingInclusion_proofs`: `WaitsAreBounded` | `5 * (TimeoutTicks + SettleTicks) + 6` steps, and the clock is past the timeout by one settling time at most |
| `ProofClaim_proofs`: `ClaimsAreBounded`, `OneSubmissionPerAttempt` | `Deadline + 15` steps; one transaction for each of three attempts, also when its watcher gave it up |
| `BaselineScan_proofs`: `ScansAreBounded` | `4 * Len(Sites) + 5` steps to a scan |
| `ReleaseGate_proofs`: `JobsAreBounded` | 11 steps to a job beyond the attempts at the fork and at its start |

*How far the findings go.* Each of these takes a violated property of section 3.3 and proves what is left of
it, so that the finding is known to be no larger than its run shows.

| Theorem | Says |
|---|---|
| `RingInclusion_proofs`: `OnlyAnIdleBuilderIsBlamed` | once the root of ring 0 is rebuilt during a wait, that wait cannot end in "builder stuck" |
| `SuiteCascade_proofs`: `DeadPeopleByTwoFiles` | on a People chain marked unhealthy, only `pop-gate` and `hop` ever start the attestation |
| `ProofClaim_proofs`: `OneRebuildNeedsTheMirror` | after one rebuild, the second and third rejection of an alias mean that Asset Hub has not imported the rebuilt root |
| `ReleaseGate_proofs`: `ListedMovesAreRun` | every move that the summary of a green job lists was run, unless the request supplies builds and none for that chain |

*What the tables decide.*

| Theorem | Says |
|---|---|
| `ReleaseMap_proofs`: `SourcesShownAreTaken` | the sources listed to a rejected tester are the ones the validator takes |
| `ReleaseMap_proofs`: `RequestsTakenAreShown` | a request that narrows a valid record is valid exactly when its pins are shown for that network (and it does not ask for no tests) |
| `ReleaseMap_proofs`: `CandidatesAreValid` | between two valid sides every cross term is valid, so none of them costs a request its run |
| `ReleaseGate_proofs`: `TablesDecide` | a request is run exactly when the tables allow it, whatever moves before the plan job looks |

**Assumptions.** `ChainAssumption`, `WaitAssumption`, `PopAssumption`, `AlertAssumption` and
`TimingAssumption` say that the sets are finite where they are counted, that sizes are positive, that the
own key and every account's person are in range, that a flexible collection fits a ring on one page, and
that the minute the budget adds exceeds the last search poll (60 s against 13 s). `ConstantsAssumption` types
the constants of `ProofClaim`. In `BaselineScan`, `SitesAssumption` says no chain is listed twice,
`ReleasesAssumption` that a repository's tags are distinct (they are counted) and the record starts on
existing ones, `BoundsAssumption` types the bounds. In `ReleaseGate`, `RequestsAssumption` says what requests
are made of, `NpmAssumption` that a published version stands for itself for good, `LiveAssumption` that every
mapped chain is live, `LimitAssumption` that the fork and its start are tried at least once, and
`ReleasesAssumption` that a release's asset named for a chain is that chain's
runtime. The last one is needed: a release pin whose version equals the fork's is skipped without a look at
whose runtime it is (`plan-upgrades.mjs` 30-86).

**RingInclusion.** The argument is about two ways to count. `isInRoot` adds the position on the page to
the lengths of the earlier pages; `fetchRingMembers` concatenates pages and slices. They agree because the
keys of a page have the positions 0 .. n - 1 without holes and no empty page lies before a key
(`PagesDense`, `NoGaps`, part of `ChainOK`): then a key's index is its rank (`AheadExact`, `RankIsIndex`,
by bijections with intervals), also after `RemoveSuspended` closes ranks. `LocationProvable` needs more,
because the slot is older than the block it is checked against: `Evolved` says that from an earlier block
to a later one a key keeps its ring and page, only moves forward and never comes back, so an old slot that
passes the re-check bounds the current one from above. The inductive invariant `IInv` says the chain is
`ChainOK`, the blocks captured are ancestors of each other in the order of capture, and what each control
point knows of them. `WaitsAreBounded` needs little of this: between polls the clock is short of the timeout,
and a settling time may take it past by itself once (`ClockBounded`). `OnlyAnIdleBuilderIsBlamed` rests on
revisions that only grow (`RevisionsGrow`).

**PopByProof.** An accepted proof is bound to its caller at a nonce already passed (`Bound`) and every
nonce passed was spent on one (`NoneSkipped`); hence a spent proof never binds the expected message again,
bumps add a new element to `accepted`, and the counts follow by cardinality. `Current` says that while a
run tries, all its account has in the pool was there when it read the message, and that the message is the
expected one unless one of those has spent it; `Reached` and `Outdated` say that a bump that landed outdates
what its account still has there. `Counting` is the conditional fact behind `MiscountNeedsTwin`: while no
twin's nonce has moved past what was noted, a message still expected means an unmoved count. `LandingInv`
carries this over a landing, watched or not. `ImplementsTally` maps every landing to `Redeem` and every
other step to a stutter.

**RingHealthAlert.** `SavedIsLast`, `CountsAgree`, `RoomAsSaved` and `Promoted` tie what is saved to what
was observed and to what the room was told; `DiffOutcome` states what one run does from either starting
point, and the theorems are its consequences.

**SuiteCascade.** Each theorem has its own invariant over the fixture. `AttestationKept`: an attestation
that was started is in flight, resolved or failed for good, and each of these keeps the next file from
starting one. `FileDecides`: whoever was handed an account was handed the one in the file, and the file is
written only when it held none. `BudgetKept`: a waiting file has waited no longer than the phases gone by
can last, whichever file started them (`Timers`), which with `TimingAssumption` keeps it below its budget
(`BudgetSuffices`); and while no such timeout is possible, the payer of a failed attestation was there to
report it (`Attribution`). `ProbedOnce`: the only file that can leave the drift behind has already run.
`ProbeFirst` and `NoneBeforeProbe` rest on the sequencer's order: no file that attests, or looks the
location up, is next while the probe is still queued (`AttestersAfterProbe`, `LocatorsAfterProbe`), and
once the probe is past, the fixture is settled, or the location or the drift is cached. In the same way
`MarkedFirst` rests on the chain checks coming before every file that attests (`AttestersAfterChains`): marks
are complete by then, so a file that passed its assertion on People ran on a People chain without a mark.
`ImplementsPerson` maps each step by the phase it resolves or leaves alone; an answer is a lookup only when
the file holds none (`FileDecides`).

**ProofClaim.** `Counted` ties rebuilds to revisions. `AliasCurrent`: until the first rebuild the alias
proves the revision it waited for, and Asset Hub, which only ever drops a revision for a newer one, still has
it. `LtsCounted`: a rejected storage proof was more than `Grace` revisions old, and the next snapshot starts
from the newest, so the rebuilds of two rejections do not overlap.
`FreshAfterBad` is what one rebuild leaves behind: the alias then proves the newest root there is, so a
further rejection can only be that Asset Hub has not got it. `NoneAhead` orders what was sent by attempt, so
that a new submission is not among the old ones. The bound counts five steps to an attempt and the ticks of
the CLI, whose clock only the PGAS claim reads (`Timed`).

**BaselineScan.** The invariant is `TypeOK`, `ReleasesOk`, `TagsOk` and `ScanOk`. Since tags are counted, a
release stays where its tag says while newer ones are put in front (`Place`, `Published`), so that `WasRun`
stays true of a tag once it was. `ScanOk` says that what was read of a chain it ran since the scan began,
that a match or a drift names a tag that was run, and which verdicts are applied to the checkout at each
point of the loop over sites and networks. `ImplementsLedger` adds that the checkout holds, at each site, the
record's pin or a tag that was run (`MovesOk`): the ledger's grounds are those tags, they are never taken back
while releases are published and chains upgrade (`GroundsGrow`), and none is collected between scans
(`IdleOk`). The work of a scan is at most four steps at each of its sites.

**ReleaseGate.** `IInv` says that each job still has its candidate's pins, but for builds now pinned to
their files (`SamePins`, `ResolvedPins`), that its clients are the planned ones, which resolve to themselves
whatever the dist-tags do (`ClientsFixed`), that past the engine check it runs the pinned binaries
by override (`EngineRunsPins`, with `SlotNames` and `ServiceNames` on the tables: no service goes by the name of a slot),
and that the fork differs from what was bitten only on chains considered. `RInv` adds that the plan is made
of blobs the pins may stand for (`BlobsAreSources`) and that every chain considered and not left to upgrade
runs its blob (`DecidedRuns`). For the cross terms, a manifest is its two dimensions rejoined (`Rejoined`),
so one of the terms equals a side of the request exactly when the other equals the other side
(`BothOrNeither`), and the moves of each are those of its dimension (`TermMoves`). `ListedMovesAreRun` uses
that the matrix, once made, stays the one of the request's two sides (`MatrixKept`). `TablesDecide` compares
what the two workflows check one after the other with one condition on the request (`LegalIsAllowed`): of
its parts, `RequestsTakenAreShown` replaces the validation of the merged record by a look at the tables, and
`CandidatesAreValid` drops the validation of the cross terms, so nothing that can move is left in it. A job's
work is its place in the order of steps plus its attempts (`TriesOk`) less the chains still to upgrade, which
are five at most (`FiveChains`).

Every invariant and every action property the passing runs check is proved, and so are the three
refinements. Only model-checked are the liveness properties `WaitEnds`, `ClaimEnds`, `RecordCatchesUp` and
`RunEnds`: fairness and ENABLED are out of the prover's reach, and what is proved of them is the bound on the
work, not that the work is done. That the violated properties are violated is shown by their runs alone. No
module uses a RECURSIVE operator; `Over` is defined in `ReleaseMap` rather than taken from `TLC`, whose `@@`
the provers do not expand.

## 5. Not modelled, and why

- In `ring.ts`: the branch without `peopleClient` (no caller in the repository takes it), `statusLog` and
  the texts. In the pallet: `merge_rings`, resumption of suspended members and key migration; no read in
  `ring.ts` depends on how they work, but they could move a key between rings, and the theorems about the
  re-check assume they do not happen meanwhile.
- In the by-proof test: a read of the count answered from a block older than the bump; the wall clock that
  ends the test at 300 s while an attempt still waits.
- In the suite: networks without an Identity Backend, credentials kept while the chains were reset, a
  process killed while it writes the file. A chain check that hangs may mark nothing in the model; whether
  it does is up to the client library.
- The delivery of messages to the room and the workflow that keeps the saved state; neither is in the
  repository. Two alert runs never overlap in the model.
- In the claims: the byte encodings of contexts and extensions, the `ValidAt` window of the alias (a minute
  back, four ahead) and the fee; `attest` and `claimStatementAllowance`, which are single runs of the CLI.
- In the release map: the order of keys in JSON, platform suffixes of asset names, blocked reasons, run
  options that are not strings. All mapped chains have an endpoint, so the scan's verdict for one without
  is left out; the latest release of a repository the map does not know is none.
- In the release gate: several networks in one run, the issue channel that comments, the fork's health
  checks (they only fail a job) and the age limit of the fork bundle. Chains are upgraded in any order, which
  the manifest's order is one of.
- `StatementTransport`: sixty lines around one set, whose hazard is the order in which the library sends
  from inside a delivery; a model would state that order, and not check it.
- Runtime diff reports and the rendering of summaries: comparison and formatting, one pass over two trees
  with no state. RPC diagnostics and network actions: what endpoints answer and scripts that deploy.
  Chain clients, contracts and encodings: connections and byte formats, no state of their own.

## 6. What is left

To prove: an abstract specification of what the alert room is promised, as `SharedPerson` and
`RecordLedger` are for their components. To model:

1. The polls of the ring-health probe (stale rings, the walk over build latencies) as a component of its
   own, instead of the reasons it may report.
2. Several networks in one gate run, and the concurrency groups of the workflows.
3. The wall clock of the by-proof test beside its three waits of 120 s.
4. `StatementTransport`, should the client's order of sends become part of the repository.
