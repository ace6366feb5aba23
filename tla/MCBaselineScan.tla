--------------------------- MODULE MCBaselineScan ---------------------------
(***************************************************************************)
(* BaselineScan over two manifests: two chains of devnet, the relay        *)
(* compared by spec version and people by its bytes, whose runtimes come   *)
(* from one repository, and one chain of previewnet.  Production starts    *)
(* ahead of the relay's pin, on a build that no release carries.           *)
(***************************************************************************)
EXTENDS BaselineScan, TLC

MCSites == <<<<"devnet", "relay">>, <<"devnet", "people">>,
             <<"previewnet", "people">>>>

Ci(spec) == [spec |-> spec, build |-> "ci"]

MCReleases0 ==
  [paseo |-> <<[tag |-> 2, assets |-> [paseo |-> Ci(2)]],
               [tag |-> 1, assets |-> [paseo |-> Ci(1), peoplePaseo |-> Ci(1)]]>>,
   individuality |-> <<[tag |-> 1, assets |-> [nextPeople |-> Ci(1)]]>>]

MCRecord0 == [s \in SiteSet |-> 1]
MCLive0 ==
  [s \in SiteSet |-> IF s[2] = "relay" THEN [spec |-> 2, build |-> "local"] ELSE Ci(1)]

\* The table of sources shown to a tester and the validator agree, source by
\* source, on every network.
OneManifest(network, path, repo) ==
  [network |-> network, base |-> "fork", tests |-> {"health"},
   pins |-> path :> Release(repo, 1)]
AllRepos == UNION {{ps[2] : ps \in allowedSources(n)} : n \in DOMAIN CHAINS}
AllPaths == UNION {{ps[1] : ps \in allowedSources(n)} : n \in DOMAIN CHAINS}

ASSUME SourcesShownAreSourcesTaken ==
  \A n \in DOMAIN CHAINS : \A path \in AllPaths, repo \in AllRepos :
    LET m == OneManifest(n, path, repo)
        known == path[1] = "chains" => path[2] \in DOMAIN CHAINS[n]
        taken == known /\ runtimePlanOk(m) /\ binaryPlanOk(m)
    IN <<path, repo>> \in allowedSources(n) <=> taken
=============================================================================
