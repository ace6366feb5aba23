---------------------------- MODULE BaselineScan ----------------------------
(***************************************************************************)
(* The scan that keeps the committed manifests true to production          *)
(* (baseline-scan.mjs) and the pull request it leaves (baseline-scan.yml). *)
(*                                                                         *)
(* Every few hours the scan takes the record from the main branch, asks    *)
(* each pinned chain what it runs, compares that with the pinned release   *)
(* and looks among the newest releases for what production moved to.  The  *)
(* chains are deployed to, releases appear and the pull request is merged  *)
(* while it works.  A site is a chain of a network; a runtime is a record  *)
(* of its spec version and its build.                                      *)
(***************************************************************************)
EXTENDS ReleaseMap, Integers, Sequences

CONSTANTS
  Sites,        \* the pinned chains <<network, chain>>, in the order scanned
  Record0,      \* site -> tag of its pin when the model starts
  Live0,        \* site -> what production runs then
  Releases0,    \* repository -> its releases then, newest first
  RELEASE_WALK, \* how many releases the attribution looks at
  MaxSpec,      \* bound: spec versions
  MaxReleases,  \* bound: releases on all the pages together
  MaxFaults     \* bound: endpoints and downloads that fail

VARIABLES
  live,         \* site -> what production runs
  releases,     \* repository -> its releases, newest first
  main,         \* site -> tag pinned on the main branch
  bump,         \* the pull request: site -> tag, for the pins it moves
  phase,        \* what the scan does next
  at,           \* which site it is at
  seen,         \* what it read of that site
  verdict,      \* site -> what it found
  base,         \* the record it checked out
  checkout,     \* that record with the pins rewritten so far
  ran,          \* history: site -> what production ran since the scan began
  faults        \* failures so far

world == <<live, releases>>
repository == <<main, bump>>
scan == <<phase, at, seen, verdict, base, checkout>>
vars == <<live, releases, main, bump, phase, at, seen, verdict, base,
          checkout, ran, faults>>

-----------------------------------------------------------------------------
SiteSet == {Sites[i] : i \in DOMAIN Sites}
Repo(s) == CHOOSE r \in DOMAIN CHAINS[s[1]][s[2]].runtime : TRUE
Asset(s) == CHAINS[s[1]][s[2]].runtime[Repo(s)]
Policy(s) == CHAINS[s[1]][s[2]].policy

Nothing == [spec |-> 0, build |-> "none"]
Runtime == [spec : 1 .. MaxSpec, build : {"ci", "local"}]
Seen == [spec : 0 .. MaxSpec, code : Runtime \cup {Nothing}]
Unseen == [spec |-> 0, code |-> Nothing]

AnyRelease ==
  [tag : Nat, assets : UNION {[A -> Runtime] : A \in SUBSET {Asset(s) : s \in SiteSet}}]

\* A chain of a network is scanned once; each repository counts its tags.
ASSUME SitesAssumption ==
  /\ Len(Sites) \in Nat \ {0} /\ DOMAIN Sites = 1 .. Len(Sites)
  /\ \A i, j \in DOMAIN Sites : Sites[i] = Sites[j] => i = j
ASSUME ReleasesAssumption ==
  /\ Releases0 \in [DOMAIN Releases0 -> Seq(AnyRelease)]
  /\ \A r \in DOMAIN Releases0 : \A i \in DOMAIN Releases0[r] :
       Releases0[r][i].tag = Len(Releases0[r]) + 1 - i
  /\ Live0 \in [SiteSet -> Runtime] /\ Record0 \in [SiteSet -> Nat]
  /\ \A s \in SiteSet :
       Repo(s) \in DOMAIN Releases0 /\ Record0[s] \in 1 .. Len(Releases0[Repo(s)])
ASSUME BoundsAssumption ==
  RELEASE_WALK \in Nat /\ MaxSpec \in Nat /\ MaxReleases \in Nat /\ MaxFaults \in Nat

Carried(release, s) ==
  IF Asset(s) \in DOMAIN release.assets THEN release.assets[Asset(s)] ELSE Nothing

\* The release of a tag, which stays where it is however many come after it.
getRelease(repo, tag) ==
  LET i == CHOOSE j \in DOMAIN releases[repo] : releases[repo][j].tag = tag
  IN releases[repo][i]
Pinned(s, tag) == Carried(getRelease(Repo(s), tag), s)

\* The newest releases, one page of them.
listReleases(repo) ==
  LET n == Len(releases[repo])
  IN SubSeq(releases[repo], 1, IF n < RELEASE_WALK THEN n ELSE RELEASE_WALK)

\* Equal bytes, or on a chain that upstream operates an equal spec version.
specMatches(runtime, spec) == runtime # Nothing /\ runtime.spec = spec
matches(s, runtime, observed) ==
  IF Policy(s) = "bytes" THEN runtime = observed.code
                         ELSE specMatches(runtime, observed.spec)

\* Attribution by spec version on every chain.
attributeBySpec(s, observed) ==
  LET walked == listReleases(Repo(s))
      hits == {i \in DOMAIN walked :
                 specMatches(Carried(walked[i], s), observed.spec)}
  IN IF hits = {} THEN [kind |-> "unattributed"]
     ELSE [kind |-> "drift",
           tag |-> walked[CHOOSE i \in hits : \A j \in hits : i <= j].tag]

\* The newest release walked that carries what was observed.
attribute(s, observed) ==
  LET walked == listReleases(Repo(s))
      hits == {i \in DOMAIN walked : matches(s, Carried(walked[i], s), observed)}
  IN IF hits = {} THEN [kind |-> "unattributed"]
     ELSE [kind |-> "drift",
           tag |-> walked[CHOOSE i \in hits : \A j \in hits : i <= j].tag]

-----------------------------------------------------------------------------
\* Production and the release pages.  A chain takes no code that does not raise
\* its spec version.
Deploy(s) ==
  /\ \E runtime \in Runtime :
       /\ runtime.spec > live[s].spec
       /\ live' = [live EXCEPT ![s] = runtime]
       /\ ran' = IF phase = "idle" THEN ran ELSE [ran EXCEPT ![s] = @ \cup {runtime}]
  /\ UNCHANGED <<releases, main, bump, scan, faults>>

Assets(repo) == {Asset(s) : s \in {t \in SiteSet : Repo(t) = repo}}

\* A release may leave an asset out, or carry one an earlier release carried.
Publish(repo) ==
  /\ Cardinality({page \in (DOMAIN releases) \X (1 .. MaxReleases) :
                     page[2] <= Len(releases[page[1]])}) < MaxReleases
  /\ \E assets \in SUBSET Assets(repo), spec \in 1 .. MaxSpec :
       releases' = [releases EXCEPT ![repo] =
         <<[tag |-> Len(@) + 1,
            assets |-> [a \in assets |-> [spec |-> spec, build |-> "ci"]]]>> \o @]
  /\ UNCHANGED <<live, main, bump, scan, ran, faults>>

\* Somebody merges the pull request.
Merge ==
  /\ bump # <<>>
  /\ main' = Over(bump, main)
  /\ bump' = <<>>
  /\ UNCHANGED <<world, scan, ran, faults>>

-----------------------------------------------------------------------------
\* One scan.
Begin ==
  /\ phase = "idle"
  /\ phase' = "observe" /\ at' = 1 /\ seen' = Unseen /\ verdict' = <<>>
  /\ base' = main /\ checkout' = main
  /\ ran' = [s \in SiteSet |-> {live[s]}]
  /\ UNCHANGED <<world, repository, faults>>

\* The version and the code are two calls, answered at no common block.
SeeVersion ==
  /\ phase = "observe" /\ seen.spec = 0
  /\ seen' = [seen EXCEPT !.spec = live[Sites[at]].spec]
  /\ UNCHANGED <<world, repository, phase, at, verdict, base, checkout, ran, faults>>

SeeCode ==
  /\ phase = "observe" /\ seen.code = Nothing
  /\ seen' = [seen EXCEPT !.code = live[Sites[at]]]
  /\ UNCHANGED <<world, repository, phase, at, verdict, base, checkout, ran, faults>>

\* A network with a chain that needs a human is not rewritten.
applyDriftIfClean(network, verdicts) ==
  [s \in SiteSet |->
     IF /\ s[1] = network /\ verdicts[s].kind = "drift"
        /\ \A t \in SiteSet : t[1] = network => verdicts[t].kind # "unattributed"
     THEN verdicts[s].tag ELSE checkout[s]]

\* The drifted pins of a network are rewritten once its last chain is scanned.
applyDrift(network, verdicts) ==
  [s \in SiteSet |->
     IF s[1] = network /\ verdicts[s].kind = "drift" THEN verdicts[s].tag
                                                     ELSE checkout[s]]

LastOfNetwork(i) == i = Len(Sites) \/ Sites[i + 1][1] # Sites[i][1]

Onward ==
  IF at = Len(Sites) THEN phase' = "over" /\ at' = at
                     ELSE phase' = "observe" /\ at' = at + 1

\* The verdict on the site at hand, and on to the next one.
Conclude(found) ==
  LET s == Sites[at]
      verdicts == Over([t \in {s} |-> found], verdict)
  IN /\ verdict' = verdicts
     /\ checkout' =
          IF LastOfNetwork(at)
          THEN applyDrift(s[1], Over(verdicts, [t \in SiteSet |-> [kind |-> "none"]]))
          ELSE checkout
     /\ seen' = Unseen /\ Onward
     /\ UNCHANGED <<world, repository, base, ran>>

Unreachable ==
  /\ phase = "observe" /\ faults < MaxFaults
  /\ faults' = faults + 1
  /\ Conclude([kind |-> "unreachable"])

Compare ==
  LET s == Sites[at] IN
  /\ phase = "observe" /\ seen.spec # 0 /\ seen.code # Nothing
  /\ IF matches(s, Pinned(s, checkout[s]), seen)
     THEN Conclude([kind |-> "match"])
     ELSE /\ phase' = "attribute"
          /\ UNCHANGED <<world, repository, at, seen, verdict, base, checkout, ran>>
  /\ UNCHANGED faults

Attribute ==
  /\ phase = "attribute"
  /\ Conclude(attribute(Sites[at], seen))
  /\ UNCHANGED faults

\* A release page or a download that fails three times ends the whole scan.
FetchFails ==
  /\ \/ phase = "observe" /\ seen.spec # 0 /\ seen.code # Nothing
     \/ phase = "attribute"
  /\ faults < MaxFaults
  /\ faults' = faults + 1
  /\ phase' = "aborted" /\ seen' = Unseen
  /\ UNCHANGED <<world, repository, at, verdict, base, checkout, ran>>

\* The scan only complains of code that no release carries.
GreenIfAttributed ==
  phase = "over" /\ \A s \in DOMAIN verdict : verdict[s].kind # "unattributed"

\* The scan needs nobody: it ran to the end and every chain was read and found.
Green ==
  /\ phase = "over"
  /\ \A s \in DOMAIN verdict : verdict[s].kind \notin {"unattributed", "unreachable"}

\* What differs from the main branch as it is by then.
MovedFromMain == {s \in SiteSet : checkout[s] # main[s]}

Moved == {s \in SiteSet : checkout[s] # base[s]}

\* The pull request is opened, or replaced, whatever became of the scan; the
\* next one starts from nothing but the repository.
Propose ==
  /\ phase \in {"over", "aborted"}
  /\ bump' = IF Moved = {} THEN bump ELSE [s \in Moved |-> checkout[s]]
  /\ phase' = "idle" /\ at' = 1 /\ verdict' = <<>> /\ base' = main /\ checkout' = main
  /\ ran' = [s \in SiteSet |-> {}]
  /\ UNCHANGED <<world, main, seen, faults>>

-----------------------------------------------------------------------------
Init ==
  /\ live = Live0 /\ releases = Releases0
  /\ main = Record0 /\ bump = <<>>
  /\ phase = "idle" /\ at = 1 /\ seen = Unseen /\ verdict = <<>>
  /\ base = Record0 /\ checkout = Record0
  /\ ran = [s \in SiteSet |-> {}] /\ faults = 0

ScanStep ==
  Begin \/ SeeVersion \/ SeeCode \/ Unreachable \/ Compare \/ Attribute
  \/ FetchFails \/ Propose

Next ==
  \/ \E s \in SiteSet : Deploy(s)
  \/ \E repo \in DOMAIN releases : Publish(repo)
  \/ Merge
  \/ ScanStep

\* The scan is scheduled and its steps are run to their end.  Nobody has to
\* merge, deploy or publish.
Spec == Init /\ [][Next]_vars /\ WF_vars(ScanStep)

-----------------------------------------------------------------------------
TypeOK ==
  /\ live \in [SiteSet -> Runtime]
  /\ main \in [SiteSet -> Nat] /\ base \in [SiteSet -> Nat]
  /\ checkout \in [SiteSet -> Nat]
  /\ DOMAIN bump \subseteq SiteSet /\ DOMAIN verdict \subseteq SiteSet
  /\ phase \in {"idle", "observe", "attribute", "over", "aborted"}
  /\ at \in DOMAIN Sites /\ seen \in Seen /\ faults \in 0 .. MaxFaults
  /\ ran \in [SiteSet -> SUBSET Runtime]

\* The pin names code that production ran while this scan was reading.
WasRun(s, tag) ==
  \E runtime \in ran[s] :
    matches(s, Pinned(s, tag), [spec |-> runtime.spec, code |-> runtime])

\* A pin is only ever rewritten to a release that carries what production ran
\* during the scan, though it moves between the reads, the reads and the walk,
\* and the walk and the write: attribution is proof and never a guess, in a scan
\* that is broken off half way too.
PinsWereRun == \A s \in Moved : WasRun(s, checkout[s])

\* The scan, its pull request and the main branch as RecordLedger promises them:
\* nothing is proposed, after a scan that broke off neither, but what the scan
\* proved, and the record takes nothing but what was proposed.
Grounds ==
  UNION {{s} \X {tag \in 1 .. Len(releases[Repo(s)]) : WasRun(s, tag)} : s \in SiteSet}
Ledger == INSTANCE RecordLedger
  WITH Pinned0 <- Record0, record <- main, proposal <- bump, grounds <- Grounds
LedgerSpec == Ledger!Spec

\* A scan that calls for nobody leaves a record in which every pin names what
\* its chain ran during the scan, the pins it did not move included.
GreenScanTrue == Green => \A s \in SiteSet : WasRun(s, checkout[s])

\* A chain that no release matches does not hold back the bumps of the others:
\* once production stands still, every wrong pin whose release the walk can
\* reach has its correction in the pull request, merged or not, for good.
Runs(s, tag) == matches(s, Pinned(s, tag), [spec |-> live[s].spec, code |-> live[s]])
Findable(s) ==
  attribute(s, [spec |-> live[s].spec, code |-> live[s]]).kind = "drift"
Corrected(s) ==
  Findable(s) /\ ~Runs(s, main[s]) => s \in DOMAIN bump /\ Runs(s, bump[s])
RecordCatchesUp == \A s \in SiteSet : <>[]Corrected(s)
=============================================================================
