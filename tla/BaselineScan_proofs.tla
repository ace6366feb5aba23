------------------------- MODULE BaselineScan_proofs -------------------------
(***************************************************************************)
(* Theorems about BaselineScan, for any manifests, any releases, however   *)
(* many the attribution looks at, and any number of deployments, releases  *)
(* and failures.                                                           *)
(***************************************************************************)
EXTENDS BaselineScan, WellFoundedInduction, TLAPS

RepoSet == DOMAIN Releases0

\* A repository counts its tags, so a release stays findable by its tag.
ReleasesOk ==
  /\ releases \in [RepoSet -> Seq(AnyRelease)]
  /\ \A r \in RepoSet : \A i \in DOMAIN releases[r] :
       releases[r][i].tag = Len(releases[r]) + 1 - i

TagSet(s) == 1 .. Len(releases[Repo(s)])
RunTags(s) == {tag \in TagSet(s) : WasRun(s, tag)}

TagsOk ==
  /\ \A s \in SiteSet : {main[s], base[s], checkout[s]} \subseteq TagSet(s)
  /\ \A s \in DOMAIN bump : bump[s] \in TagSet(s)

\* What was read of the chain at hand, it ran since the scan began.
SeenOk ==
  /\ seen.spec # 0 => \E runtime \in ran[Sites[at]] : runtime.spec = seen.spec
  /\ seen.code # Nothing => seen.code \in ran[Sites[at]]
  /\ phase = "attribute" => seen.spec # 0 /\ seen.code # Nothing

\* A match and a drift name code that was run; a drift names a release.
FoundOk(s, found) ==
  /\ found.kind \in {"match", "drift", "unattributed", "unreachable"}
  /\ found.kind = "drift" => found.tag \in RunTags(s)
  /\ found.kind = "match" => checkout[s] \in RunTags(s)

Applied(s) == verdict[s].kind = "drift" => checkout[s] = verdict[s].tag

Reading == phase \in {"observe", "attribute"}
Visited == {Sites[i] : i \in 1 .. at - 1}

\* Whatever becomes of the scan, what it rewrote it rewrote to what was run.
MovesOk == \A s \in SiteSet : checkout[s] = base[s] \/ checkout[s] \in RunTags(s)

ScanOk ==
  Reading \/ phase = "over" =>
    /\ \A s \in SiteSet : live[s] \in ran[s]
    /\ \A s \in DOMAIN verdict : FoundOk(s, verdict[s])
    /\ DOMAIN verdict = IF Reading THEN Visited ELSE SiteSet
    /\ \A s \in DOMAIN verdict : Applied(s) \/ (Reading /\ s[1] = Sites[at][1])
    /\ Reading => SeenOk

IInv == TypeOK /\ ReleasesOk /\ TagsOk /\ MovesOk /\ ScanOk

-----------------------------------------------------------------------------
LEMMA SiteFacts ==
  /\ \A i \in 1 .. Len(Sites) : Sites[i] \in SiteSet
  /\ \A s \in SiteSet : Repo(s) \in RepoSet
  BY SitesAssumption, ReleasesAssumption DEF SiteSet, RepoSet

\* A tag is found at the place it counts to.
LEMMA Place ==
  ASSUME NEW pages \in Seq(AnyRelease), NEW tag \in 1 .. Len(pages),
         \A i \in DOMAIN pages : pages[i].tag = Len(pages) + 1 - i
  PROVE  (CHOOSE j \in DOMAIN pages : pages[j].tag = tag) = Len(pages) + 1 - tag
<1>1. Len(pages) \in Nat /\ DOMAIN pages = 1 .. Len(pages)
  OBVIOUS
<1>2. Len(pages) + 1 - tag \in DOMAIN pages /\ pages[Len(pages) + 1 - tag].tag = tag
  BY <1>1
<1>3. \A j \in DOMAIN pages : pages[j].tag = tag => j = Len(pages) + 1 - tag
  BY <1>1
<1> QED
  BY <1>2, <1>3

LEMMA Located ==
  ASSUME ReleasesOk, NEW s \in SiteSet, NEW tag \in TagSet(s)
  PROVE  LET pages == releases[Repo(s)] IN
         getRelease(Repo(s), tag) = pages[Len(pages) + 1 - tag]
  BY SiteFacts, Place DEF ReleasesOk, TagSet, getRelease

\* What a release carries does not change when others appear.
LEMMA Published ==
  ASSUME ReleasesOk, NEW repo \in RepoSet, Publish(repo)
  PROVE  /\ ReleasesOk'
         /\ \A s \in SiteSet : TagSet(s) \subseteq TagSet(s)'
         /\ \A s \in SiteSet : \A tag \in TagSet(s) : Pinned(s, tag)' = Pinned(s, tag)
<1>1. PICK assets \in SUBSET Assets(repo), spec \in 1 .. MaxSpec :
        releases' = [releases EXCEPT ![repo] =
          <<[tag |-> Len(@) + 1,
             assets |-> [a \in assets |-> [spec |-> spec, build |-> "ci"]]]>> \o @]
  BY DEF Publish
<1> DEFINE old == releases[repo]
           new == [tag |-> Len(old) + 1,
                   assets |-> [a \in assets |-> [spec |-> spec, build |-> "ci"]]]
<1>2. old \in Seq(AnyRelease) /\ Len(old) \in Nat /\ DOMAIN old = 1 .. Len(old)
  BY DEF ReleasesOk
<1>3. new \in AnyRelease
  <2>1. assets \subseteq {Asset(s) : s \in SiteSet}
    BY DEF Assets
  <2>2. [a \in assets |-> [spec |-> spec, build |-> "ci"]] \in [assets -> Runtime]
    BY DEF Runtime
  <2> QED
    BY <1>2, <2>1, <2>2 DEF AnyRelease
<1>4. releases' = [releases EXCEPT ![repo] = <<new>> \o old]
  BY <1>1
<1> HIDE DEF new
<1>5. /\ <<new>> \o old \in Seq(AnyRelease) /\ Len(<<new>> \o old) = Len(old) + 1
      /\ DOMAIN (<<new>> \o old) = 1 .. Len(old) + 1
      /\ (<<new>> \o old)[1] = new
      /\ \A i \in 1 .. Len(old) : (<<new>> \o old)[i + 1] = old[i]
  BY <1>2, <1>3
<1>6. releases'[repo] = <<new>> \o old /\ \A r \in RepoSet \ {repo} : releases'[r] = releases[r]
  BY <1>4 DEF ReleasesOk
<1>7. \A i \in 1 .. Len(old) + 1 : releases'[repo][i].tag = Len(old) + 2 - i
  <2> TAKE i \in 1 .. Len(old) + 1
  <2>1. CASE i = 1
    BY <1>2, <1>5, <1>6, <2>1 DEF new
  <2>2. CASE i # 1
    <3>1. i - 1 \in 1 .. Len(old) /\ releases'[repo][i] = old[i - 1]
      BY <1>2, <1>5, <1>6, <2>2
    <3>2. old[i - 1].tag = Len(old) + 1 - (i - 1)
      BY <1>2, <3>1 DEF ReleasesOk
    <3> QED
      BY <1>2, <3>1, <3>2
  <2> QED
    BY <2>1, <2>2
<1>8. ReleasesOk'
  <2>1. releases' \in [RepoSet -> Seq(AnyRelease)]
    BY <1>4, <1>5 DEF ReleasesOk
  <2>2. ASSUME NEW r \in RepoSet, NEW i \in DOMAIN releases'[r]
        PROVE  releases'[r][i].tag = Len(releases'[r]) + 1 - i
    <3>1. CASE r = repo
      <4>1. i \in 1 .. Len(old) + 1 /\ Len(releases'[r]) = Len(old) + 1
        BY <1>5, <1>6, <2>2, <3>1
      <4>2. releases'[r][i].tag = Len(old) + 2 - i
        BY <1>7, <3>1, <4>1
      <4>3. \A n \in Nat : \A k \in 1 .. n + 1 : n + 2 - k = (n + 1) + 1 - k
        OBVIOUS
      <4>4. Len(old) + 2 - i = (Len(old) + 1) + 1 - i
        BY <1>2, <4>1, <4>3
      <4> QED
        BY <4>1, <4>2, <4>4
    <3>2. CASE r # repo
      BY <1>6, <2>2, <3>2 DEF ReleasesOk
    <3> QED
      BY <3>1, <3>2
  <2> QED
    BY <2>1, <2>2 DEF ReleasesOk
<1>9. ASSUME NEW s \in SiteSet, NEW tag \in TagSet(s)
      PROVE  tag \in TagSet(s)' /\ Pinned(s, tag)' = Pinned(s, tag)
  <2>1. CASE Repo(s) # repo
    <3>1. releases'[Repo(s)] = releases[Repo(s)]
      BY <1>6, <2>1, SiteFacts
    <3> QED
      BY <1>9, <3>1 DEF TagSet, Pinned, getRelease
  <2>2. CASE Repo(s) = repo
    <3>1. tag \in 1 .. Len(old) /\ tag \in TagSet(s)'
      BY <1>2, <1>5, <1>6, <1>9, <2>2 DEF TagSet
    <3>2. getRelease(Repo(s), tag) = old[Len(old) + 1 - tag]
      BY <1>9, <2>2, Located
    <3>3. getRelease(Repo(s), tag)' = releases'[repo][Len(releases'[repo]) + 1 - tag]
      <4>1. /\ releases'[repo] \in Seq(AnyRelease) /\ tag \in 1 .. Len(releases'[repo])
            /\ \A i \in DOMAIN releases'[repo] :
                 releases'[repo][i].tag = Len(releases'[repo]) + 1 - i
        BY <1>8, <2>2, <3>1 DEF ReleasesOk, TagSet
      <4>2. (CHOOSE j \in DOMAIN releases'[repo] : releases'[repo][j].tag = tag)
              = Len(releases'[repo]) + 1 - tag
        BY <4>1, Place
      <4> QED
        BY <2>2, <4>2 DEF getRelease
    <3>4. releases'[repo][Len(releases'[repo]) + 1 - tag] = old[Len(old) + 1 - tag]
      <4>1. Len(old) + 1 - tag \in 1 .. Len(old)
        BY <1>2, <3>1
      <4>2. (<<new>> \o old)[(Len(old) + 1 - tag) + 1] = old[Len(old) + 1 - tag]
        BY <1>5, <4>1
      <4>3. Len(releases'[repo]) + 1 - tag = (Len(old) + 1 - tag) + 1
        BY <1>2, <1>5, <1>6, <3>1
      <4> QED
        BY <1>6, <4>2, <4>3
    <3> QED
      BY <3>1, <3>2, <3>3, <3>4 DEF Pinned
  <2> QED
    BY <2>1, <2>2
<1> QED
  BY <1>8, <1>9

-----------------------------------------------------------------------------
(***************************************************************************)
(* Attribution.                                                            *)
(***************************************************************************)
LEMMA Ordered ==
  \E R : IsWellFoundedOn(R, Nat) /\ \A i, j \in Nat : j < i => <<j, i>> \in R
<1> DEFINE R == OpToRel(<, Nat)
<1>1. IsWellFoundedOn(R, Nat)
  BY NatLessThanWellFounded
<1>2. \A i, j \in Nat : j < i => <<j, i>> \in R
  BY DEF OpToRel
<1> QED
  BY <1>1, <1>2

\* Among some positions there is a first.
LEMMA First ==
  ASSUME NEW S \in SUBSET Nat, S # {} PROVE \E i \in S : \A j \in S : i <= j
<1>1. PICK R : IsWellFoundedOn(R, Nat) /\ \A i, j \in Nat : j < i => <<j, i>> \in R
  BY Ordered
<1>2. PICK i \in S : \A j \in S : ~ (<<j, i>> \in R)
  BY <1>1, WFMin
<1>3. \A j \in S : ~ (j < i)
  BY <1>1, <1>2
<1>4. \A j \in S : i <= j
  BY <1>3
<1> QED
  BY <1>4

\* What matches the reads of a chain was run by it.
LEMMA ReadIsRun ==
  ASSUME NEW s, NEW runtime, NEW observed, matches(s, runtime, observed),
         \E r \in ran[s] : r.spec = observed.spec, observed.code \in ran[s]
  PROVE  \E r \in ran[s] : matches(s, runtime, [spec |-> r.spec, code |-> r])
<1>1. CASE Policy(s) = "bytes"
  <2>1. matches(s, runtime, [spec |-> observed.code.spec, code |-> observed.code])
    BY <1>1 DEF matches
  <2> QED
    BY <2>1
<1>2. CASE Policy(s) # "bytes"
  <2>1. PICK r \in ran[s] : r.spec = observed.spec
    OBVIOUS
  <2>2. matches(s, runtime, [spec |-> r.spec, code |-> r])
    BY <1>2, <2>1 DEF matches
  <2> QED
    BY <2>2
<1> QED
  BY <1>1, <1>2

\* A drift names a release that exists and carries what was observed.
LEMMA Attributed ==
  ASSUME ReleasesOk, RELEASE_WALK \in Nat, NEW s \in SiteSet, NEW observed,
         attribute(s, observed).kind = "drift"
  PROVE  LET tag == attribute(s, observed).tag
         IN tag \in TagSet(s) /\ matches(s, Pinned(s, tag), observed)
<1> DEFINE pages == releases[Repo(s)]
           walked == listReleases(Repo(s))
           hits == {i \in DOMAIN walked : matches(s, Carried(walked[i], s), observed)}
           i == CHOOSE i \in hits : \A j \in hits : i <= j
           tag == attribute(s, observed).tag
<1>1. /\ pages \in Seq(AnyRelease) /\ Len(pages) \in Nat /\ DOMAIN pages = 1 .. Len(pages)
      /\ \A k \in DOMAIN pages : pages[k].tag = Len(pages) + 1 - k
  BY SiteFacts DEF ReleasesOk
<1>2. PICK n \in 0 .. Len(pages) : walked = SubSeq(pages, 1, n)
  BY <1>1 DEF listReleases
<1>3. DOMAIN walked = 1 .. n /\ \A k \in 1 .. n : walked[k] = pages[k]
  BY <1>1, <1>2
<1>4. hits # {} /\ tag = walked[i].tag
  BY DEF attribute
<1> HIDE DEF pages, walked
<1>5. hits \in SUBSET Nat
  BY <1>3
<1>6. i \in hits
  BY <1>4, <1>5, First
<1>7. i \in 1 .. n /\ matches(s, Carried(walked[i], s), observed)
  BY <1>3, <1>6
<1> HIDE DEF i, tag, hits
<1>8. i \in 1 .. Len(pages) /\ walked[i] = pages[i] /\ tag = Len(pages) + 1 - i
  BY <1>1, <1>3, <1>4, <1>7
<1>9. tag \in 1 .. Len(pages) /\ Len(pages) + 1 - tag = i
  BY <1>1, <1>8
<1>10. tag \in TagSet(s)
  BY <1>9 DEF TagSet, pages
<1>11. Pinned(s, tag) = Carried(walked[i], s)
  BY <1>8, <1>9, <1>10, Located DEF Pinned, pages
<1> QED
  BY <1>7, <1>10, <1>11 DEF tag

-----------------------------------------------------------------------------
(***************************************************************************)
(* What stays true while production, the pages and the main branch move.   *)
(***************************************************************************)
Stable ==
  /\ \A s \in SiteSet : TagSet(s) \subseteq TagSet(s)'
  /\ \A s \in SiteSet : \A tag \in TagSet(s) : Pinned(s, tag)' = Pinned(s, tag)
  /\ \A s \in SiteSet : ran[s] \subseteq ran'[s]

LEMMA StillRun ==
  ASSUME Stable, NEW s \in SiteSet PROVE RunTags(s) \subseteq RunTags(s)'
<1> SUFFICES ASSUME NEW tag \in TagSet(s), WasRun(s, tag) PROVE WasRun(s, tag)'
  BY DEF RunTags, Stable
<1>1. PICK r \in ran[s] : matches(s, Pinned(s, tag), [spec |-> r.spec, code |-> r])
  BY DEF WasRun
<1>2. r \in ran'[s] /\ Pinned(s, tag)' = Pinned(s, tag)
  BY DEF Stable
<1> QED
  BY <1>1, <1>2 DEF WasRun

\* Steps of others leave the scan's findings true.
LEMMA OthersKeepScan ==
  ASSUME TypeOK, MovesOk, ScanOk, Stable, UNCHANGED scan,
         Reading \/ phase = "over" => \A s \in SiteSet : live'[s] \in ran'[s]
  PROVE  MovesOk' /\ ScanOk'
<1>1. UNCHANGED <<phase, at, seen, verdict, base, checkout>>
  BY DEF scan
<1>2. DOMAIN verdict \subseteq SiteSet
  BY DEF TypeOK
<1>0. MovesOk'
  BY <1>1, StillRun DEF MovesOk
<1> SUFFICES ASSUME Reading \/ phase = "over"
             PROVE  /\ \A s \in SiteSet : live'[s] \in ran'[s]
                    /\ \A s \in DOMAIN verdict : FoundOk(s, verdict[s])'
                    /\ Reading => SeenOk'
  BY <1>0, <1>1 DEF ScanOk, Reading, Visited, Applied
<1>3. \A s \in DOMAIN verdict : FoundOk(s, verdict[s])'
  BY <1>1, <1>2, StillRun DEF ScanOk, FoundOk
<1>5. ASSUME Reading PROVE SeenOk'
  <2>1. SeenOk /\ Sites[at] \in SiteSet
    BY <1>5 DEF ScanOk, TypeOK, SiteSet
  <2>2. ran[Sites[at]] \subseteq ran'[Sites[at]]
    BY <2>1 DEF Stable
  <2> QED
    BY <1>1, <2>1, <2>2 DEF SeenOk
<1> QED
  BY <1>3, <1>5

-----------------------------------------------------------------------------
(***************************************************************************)
(* The steps of the scan.                                                  *)
(***************************************************************************)
LEMMA SameTags ==
  ASSUME UNCHANGED <<releases, ran>>, NEW s
  PROVE  TagSet(s)' = TagSet(s) /\ RunTags(s)' = RunTags(s)
  BY DEF TagSet, RunTags, WasRun, Pinned, getRelease

\* A verdict and what follows from it, the rewriting of a network included.
LEMMA ConcludeKeeps ==
  ASSUME SitesAssumption, IInv, Reading, NEW found, FoundOk(Sites[at], found),
         Conclude(found), faults' \in 0 .. MaxFaults
  PROVE  IInv'
<1> DEFINE s == Sites[at]
           drifted(t) == LastOfNetwork(at) /\ t[1] = s[1] /\ t \in DOMAIN verdict'
                         /\ verdict'[t].kind = "drift"
<1>1. /\ UNCHANGED <<live, releases, main, bump, base, ran>> /\ seen' = Unseen /\ Onward
      /\ verdict' = Over([t \in {s} |-> found], verdict)
  BY DEF Conclude, world, repository
<1>2. /\ at \in 1 .. Len(Sites) /\ Len(Sites) \in Nat /\ s \in SiteSet
      /\ DOMAIN verdict = Visited /\ Visited \subseteq SiteSet
  BY SitesAssumption DEF IInv, TypeOK, ScanOk, Visited, SiteSet
<1>3. s \notin DOMAIN verdict
  BY <1>2, SitesAssumption DEF Visited
<1>4. /\ DOMAIN verdict' = {s} \cup DOMAIN verdict /\ verdict'[s] = found
      /\ \A t \in DOMAIN verdict : verdict'[t] = verdict[t]
  BY <1>1, <1>3 DEF Over
<1>5. \A t \in SiteSet : TagSet(t)' = TagSet(t) /\ RunTags(t)' = RunTags(t)
  BY <1>1, SameTags
<1>6. \A t \in DOMAIN verdict' :
        /\ t \in SiteSet
        /\ verdict'[t].kind \in {"match", "drift", "unattributed", "unreachable"}
        /\ verdict'[t].kind = "drift" => verdict'[t].tag \in RunTags(t)
        /\ verdict'[t].kind = "match" => checkout[t] \in RunTags(t)
  BY <1>2, <1>4 DEF IInv, ScanOk, FoundOk
<1>7. /\ DOMAIN checkout' = SiteSet
      /\ \A t \in SiteSet :
           checkout'[t] = IF drifted(t) THEN verdict'[t].tag ELSE checkout[t]
      /\ checkout' = [t \in SiteSet |-> checkout'[t]]
  <2>1. CASE LastOfNetwork(at)
    <3> DEFINE all == Over(verdict', [t \in SiteSet |-> [kind |-> "none"]])
    <3>1. checkout' = applyDrift(s[1], all)
      BY <1>1, <2>1 DEF Conclude
    <3>2. \A t \in SiteSet : (all[t].kind = "drift" <=> t \in DOMAIN verdict' /\ verdict'[t].kind = "drift")
                             /\ (t \in DOMAIN verdict' => all[t] = verdict'[t])
      BY DEF Over
    <3> HIDE DEF all
    <3> QED
      BY <2>1, <3>1, <3>2 DEF applyDrift
  <2>2. CASE ~LastOfNetwork(at)
    BY <2>2 DEF Conclude, IInv, TypeOK
  <2> QED
    BY <2>1, <2>2
<1> HIDE DEF drifted
<1>8. \A t \in SiteSet : drifted(t) => verdict'[t].tag \in RunTags(t)
  BY <1>6 DEF drifted
<1>9. \A t \in SiteSet : RunTags(t) \subseteq TagSet(t) /\ TagSet(t) \subseteq Nat
  BY DEF RunTags, TagSet
<1>10. \A t \in SiteSet : checkout'[t] \in TagSet(t)
  <2> TAKE t \in SiteSet
  <2>1. checkout[t] \in TagSet(t)
    BY DEF IInv, TagsOk
  <2>2. CASE drifted(t)
    BY <1>7, <1>8, <1>9, <2>2
  <2>3. CASE ~drifted(t)
    BY <1>7, <2>1, <2>3
  <2> QED
    BY <2>2, <2>3
<1>11. /\ at' \in 1 .. Len(Sites)
       /\ IF at = Len(Sites) THEN phase' = "over" ELSE phase' = "observe" /\ at' = at + 1
  <2>1. PICK n \in Nat : n = Len(Sites)
    BY <1>2
  <2>2. at \in 1 .. n
    BY <1>2, <2>1
  <2>3. IF at = n THEN phase' = "over" /\ at' = at ELSE phase' = "observe" /\ at' = at + 1
    BY <1>1, <2>1 DEF Onward
  <2>4. at' \in 1 .. n /\ IF at = n THEN phase' = "over" ELSE phase' = "observe" /\ at' = at + 1
    BY <2>2, <2>3
  <2> QED
    BY <2>1, <2>4
<1>12. TypeOK'
  <2>1. checkout' \in [SiteSet -> Nat]
    BY <1>7, <1>9, <1>10
  <2>2. seen' \in Seen
    BY <1>1, SitesAssumption, BoundsAssumption DEF Unseen, Seen, Nothing
  <2>3. DOMAIN verdict' \subseteq SiteSet /\ at' \in DOMAIN Sites
    BY <1>2, <1>4, <1>11, SitesAssumption
  <2> QED
    BY <1>1, <1>11, <2>1, <2>2, <2>3 DEF IInv, TypeOK
<1>13. TagsOk' /\ ReleasesOk'
  <2>1. \A t \in DOMAIN bump : t \in SiteSet
    BY DEF IInv, TypeOK
  <2> QED
    BY <1>1, <1>5, <1>10, <2>1 DEF IInv, TagsOk, ReleasesOk
<1>15. MovesOk'
  BY <1>1, <1>5, <1>7, <1>8 DEF IInv, MovesOk
<1>14. ScanOk'
  <2>1. \A t \in SiteSet : live'[t] \in ran'[t]
    BY <1>1 DEF IInv, ScanOk
  <2>2. \A t \in DOMAIN verdict' : FoundOk(t, verdict[t])'
    BY <1>5, <1>6, <1>7 DEF FoundOk, drifted
  <2>4. DOMAIN verdict' = IF Reading' THEN Visited' ELSE SiteSet
    <3>1. DOMAIN verdict' = {Sites[i] : i \in 1 .. at}
      BY <1>2, <1>4 DEF Visited
    <3>2. CASE at = Len(Sites)
      BY <1>11, <3>1, <3>2, SitesAssumption DEF Reading, SiteSet
    <3>3. CASE at # Len(Sites)
      <4>1. at' = at + 1 /\ at \in Nat
        <5>1. at' = at + 1
          BY <1>11, <3>3
        <5>2. at \in Nat
          BY <1>2
        <5> QED
          BY <5>1, <5>2
      <4>2. at' - 1 = at
        BY <4>1
      <4> QED
        BY <1>11, <3>1, <3>3, <4>2 DEF Reading, Visited
    <3> QED
      BY <3>2, <3>3
  <2>5. \A t \in DOMAIN verdict' : Applied(t)' \/ (Reading' /\ t[1] = Sites[at'][1])
    <3> TAKE t \in DOMAIN verdict'
    <3>1. t \in SiteSet /\ (t = s \/ (t \in DOMAIN verdict /\ verdict'[t] = verdict[t]))
      BY <1>4, <1>6
    <3>2. t = s \/ Applied(t) \/ t[1] = s[1]
      BY <3>1 DEF IInv, ScanOk
    <3>3. CASE LastOfNetwork(at)
      <4>1. CASE t[1] = s[1]
        BY <1>7, <3>1, <3>3, <4>1 DEF drifted, Applied
      <4>2. CASE t[1] # s[1]
        BY <1>7, <3>1, <3>2, <4>2 DEF drifted, Applied
      <4> QED
        BY <4>1, <4>2
    <3>4. CASE ~LastOfNetwork(at)
      <4>1. Reading' /\ Sites[at'][1] = s[1]
        BY <1>2, <1>11, <3>4 DEF LastOfNetwork, Reading
      <4>2. checkout'[t] = checkout[t]
        BY <1>7, <3>1, <3>4 DEF drifted
      <4> QED
        BY <3>1, <3>2, <4>1, <4>2 DEF Applied
    <3> QED
      BY <3>3, <3>4
  <2>6. SeenOk'
    BY <1>1, <1>11 DEF SeenOk, Unseen
  <2> QED
    BY <2>1, <2>2, <2>4, <2>5, <2>6 DEF ScanOk
<1> QED
  BY <1>12, <1>13, <1>14, <1>15 DEF IInv

\* A tag whose release carries what was read is one that was run.
LEMMA ReadTagIsRun ==
  ASSUME ScanOk, Reading, NEW tag \in TagSet(Sites[at]), seen.spec # 0, seen.code # Nothing,
         matches(Sites[at], Pinned(Sites[at], tag), seen)
  PROVE  tag \in RunTags(Sites[at])
<1>1. SeenOk
  BY DEF ScanOk
<1>2. \E r \in ran[Sites[at]] :
        matches(Sites[at], Pinned(Sites[at], tag), [spec |-> r.spec, code |-> r])
  BY <1>1, ReadIsRun DEF SeenOk
<1> QED
  BY <1>2 DEF RunTags, WasRun

-----------------------------------------------------------------------------
LEMMA InitInv ==
  ASSUME SitesAssumption, ReleasesAssumption, BoundsAssumption, Init PROVE IInv
<1>1. TypeOK
  <2>1. 1 \in DOMAIN Sites
    BY SitesAssumption
  <2> QED
    BY <2>1, ReleasesAssumption, BoundsAssumption DEF Init, TypeOK, Seen, Unseen, Nothing
<1>2. ReleasesOk
  BY ReleasesAssumption DEF Init, ReleasesOk, RepoSet
<1>3. TagsOk
  BY ReleasesAssumption DEF Init, TagsOk, TagSet
<1>4. MovesOk /\ ScanOk
  BY DEF Init, MovesOk, ScanOk, Reading
<1> QED
  BY <1>1, <1>2, <1>3, <1>4 DEF IInv

\* Production, the release pages and whoever merges.
LEMMA OthersStep ==
  ASSUME SitesAssumption, ReleasesAssumption, BoundsAssumption, IInv,
         \/ \E s \in SiteSet : Deploy(s)
         \/ \E repo \in DOMAIN releases : Publish(repo)
         \/ Merge
  PROVE  IInv'
<1>1. ASSUME NEW s \in SiteSet, Deploy(s) PROVE IInv'
  <2>1. PICK runtime \in Runtime :
          /\ live' = [live EXCEPT ![s] = runtime]
          /\ ran' = IF phase = "idle" THEN ran ELSE [ran EXCEPT ![s] = @ \cup {runtime}]
    BY <1>1 DEF Deploy
  <2>2. UNCHANGED <<releases, main, bump, scan, faults>>
    BY <1>1 DEF Deploy
  <2>3. TypeOK'
    BY <2>1, <2>2 DEF IInv, TypeOK, scan
  <2>4. ReleasesOk' /\ TagsOk'
    BY <2>2 DEF IInv, ReleasesOk, TagsOk, TagSet, scan
  <2>5. Stable
    BY <2>1, <2>2 DEF Stable, TagSet, Pinned, getRelease, IInv, TypeOK
  <2>6. Reading \/ phase = "over" => \A t \in SiteSet : live'[t] \in ran'[t]
    BY <2>1 DEF IInv, ScanOk, Reading, TypeOK
  <2> QED
    BY <2>2, <2>3, <2>4, <2>5, <2>6, OthersKeepScan DEF IInv
<1>2. ASSUME NEW repo \in DOMAIN releases, Publish(repo) PROVE IInv'
  <2>1. UNCHANGED <<live, main, bump, scan, ran, faults>>
    BY <1>2 DEF Publish
  <2>2. repo \in RepoSet
    BY <1>2 DEF IInv, ReleasesOk
  <2>3. ReleasesOk' /\ Stable
    BY <1>2, <2>1, <2>2, Published DEF IInv, Stable
  <2>4. TypeOK'
    BY <2>1 DEF IInv, TypeOK, scan
  <2>5. TagsOk'
    <3>1. DOMAIN bump \subseteq SiteSet /\ UNCHANGED <<main, bump, base, checkout>>
      BY <2>1 DEF IInv, TypeOK, scan
    <3> QED
      BY <2>3, <3>1 DEF IInv, TagsOk, Stable
  <2> QED
    BY <2>1, <2>3, <2>4, <2>5, OthersKeepScan DEF IInv, ScanOk
<1>3. CASE Merge
  <2>1. /\ UNCHANGED <<live, releases, scan, ran, faults>>
        /\ main' = Over(bump, main) /\ bump' = <<>>
    BY <1>3 DEF Merge, world
  <2>2. /\ DOMAIN main' = SiteSet
        /\ \A s \in SiteSet : main'[s] \in TagSet(s)
        /\ main' = [s \in SiteSet |-> main'[s]]
    BY <2>1 DEF Over, IInv, TypeOK, TagsOk
  <2>3. TypeOK'
    <3>1. \A s \in SiteSet : main'[s] \in Nat
      BY <2>2 DEF TagSet
    <3> QED
      BY <2>1, <2>2, <3>1 DEF IInv, TypeOK, scan
  <2>4. ReleasesOk' /\ TagsOk'
    BY <2>1, <2>2 DEF IInv, ReleasesOk, TagsOk, TagSet, scan
  <2>5. Stable
    BY <2>1 DEF Stable, TagSet, Pinned, getRelease
  <2> QED
    BY <2>1, <2>3, <2>4, <2>5, OthersKeepScan DEF IInv, ScanOk
<1> QED
  BY <1>1, <1>2, <1>3

LEMMA ScanStepKeeps ==
  ASSUME SitesAssumption, ReleasesAssumption, BoundsAssumption, IInv, ScanStep
  PROVE  IInv'
<1> USE DEF IInv
<1>1. at \in 1 .. Len(Sites) /\ Sites[at] \in SiteSet
  BY SitesAssumption DEF TypeOK, SiteSet
<1>2. CASE Begin
  <2>1. UNCHANGED <<live, releases, main, bump, faults>>
    BY <1>2 DEF Begin, world, repository
  <2>2. /\ phase' = "observe" /\ at' = 1 /\ seen' = Unseen /\ verdict' = <<>>
        /\ base' = main /\ checkout' = main /\ ran' = [s \in SiteSet |-> {live[s]}]
    BY <1>2 DEF Begin
  <2>3. TypeOK'
    BY <2>1, <2>2, SitesAssumption, BoundsAssumption DEF TypeOK, Seen, Unseen, Nothing
  <2>4. ReleasesOk' /\ TagsOk'
    BY <2>1, <2>2 DEF ReleasesOk, TagsOk, TagSet
  <2>5. MovesOk' /\ ScanOk'
    BY <2>1, <2>2 DEF MovesOk, ScanOk, Reading, Visited, SeenOk, Unseen
  <2> QED
    BY <2>3, <2>4, <2>5
\* The two reads of the chain at hand.
<1>3. CASE SeeVersion \/ SeeCode
  <2>1. /\ phase = "observe"
        /\ UNCHANGED <<live, releases, main, bump, phase, at, verdict, base, checkout, ran, faults>>
    BY <1>3 DEF SeeVersion, SeeCode, world, repository
  <2>2. live[Sites[at]] \in Runtime /\ live[Sites[at]] \in ran[Sites[at]] /\ SeenOk
    BY <1>1, <2>1 DEF TypeOK, ScanOk, Reading
  <2>3. \/ seen' = [seen EXCEPT !.spec = live[Sites[at]].spec]
        \/ seen' = [seen EXCEPT !.code = live[Sites[at]]]
    BY <1>3 DEF SeeVersion, SeeCode
  <2>4. seen' \in Seen
    <3>1. live[Sites[at]].spec \in 0 .. MaxSpec
      BY <2>2, BoundsAssumption DEF Runtime
    <3>2. seen \in Seen
      BY DEF TypeOK
    <3>3. CASE seen' = [seen EXCEPT !.spec = live[Sites[at]].spec]
      BY <3>1, <3>2, <3>3 DEF Seen
    <3>4. CASE seen' = [seen EXCEPT !.code = live[Sites[at]]]
      BY <2>2, <3>2, <3>4 DEF Seen
    <3> QED
      BY <2>3, <3>3, <3>4
  <2>5. TypeOK' /\ ReleasesOk' /\ TagsOk'
    BY <2>1, <2>4 DEF TypeOK, ReleasesOk, TagsOk, TagSet
  <2>6. SeenOk'
    BY <2>1, <2>2, <2>3 DEF SeenOk, TypeOK, Seen
  <2>7. MovesOk' /\ ScanOk'
    <3>1. \A s \in SiteSet : RunTags(s)' = RunTags(s)
      BY <2>1, SameTags
    <3>2. DOMAIN verdict \subseteq SiteSet
      BY DEF TypeOK
    <3>3. MovesOk'
      BY <2>1, <3>1 DEF MovesOk
    <3> QED
      BY <2>1, <2>6, <3>1, <3>2, <3>3 DEF ScanOk, Reading, Visited, FoundOk, Applied
  <2> QED
    BY <2>5, <2>7
<1>4. CASE Unreachable
  <2>1. Reading /\ Conclude([kind |-> "unreachable"]) /\ faults' \in 0 .. MaxFaults
    BY <1>4, BoundsAssumption DEF Unreachable, Reading, TypeOK
  <2>2. FoundOk(Sites[at], [kind |-> "unreachable"])
    BY DEF FoundOk
  <2> QED
    BY <2>1, <2>2, ConcludeKeeps
<1>5. CASE Compare
  <2>1. Reading /\ seen.spec # 0 /\ seen.code # Nothing /\ faults' \in 0 .. MaxFaults
    BY <1>5 DEF Compare, Reading, TypeOK
  <2>2. CASE matches(Sites[at], Pinned(Sites[at], checkout[Sites[at]]), seen)
    <3>1. checkout[Sites[at]] \in RunTags(Sites[at])
      BY <1>1, <2>1, <2>2, ReadTagIsRun DEF TagsOk
    <3>2. FoundOk(Sites[at], [kind |-> "match"])
      BY <3>1 DEF FoundOk
    <3>3. Conclude([kind |-> "match"])
      BY <1>5, <2>2 DEF Compare
    <3> QED
      BY <2>1, <3>2, <3>3, ConcludeKeeps
  <2>3. CASE ~matches(Sites[at], Pinned(Sites[at], checkout[Sites[at]]), seen)
    <3>1. /\ phase = "observe" /\ phase' = "attribute"
          /\ UNCHANGED <<live, releases, main, bump, at, seen, verdict, base, checkout, ran, faults>>
      BY <1>5, <2>3 DEF Compare, world, repository
    <3>2. TypeOK' /\ ReleasesOk' /\ TagsOk'
      BY <3>1 DEF TypeOK, ReleasesOk, TagsOk, TagSet
    <3>3. \A s \in SiteSet : RunTags(s)' = RunTags(s)
      BY <3>1, SameTags
    <3>4. DOMAIN verdict \subseteq SiteSet
      BY DEF TypeOK
    <3>6. MovesOk'
      BY <3>1, <3>3 DEF MovesOk
    <3>5. ScanOk'
      BY <2>1, <3>1, <3>3, <3>4 DEF ScanOk, Reading, Visited, FoundOk, Applied, SeenOk
    <3> QED
      BY <3>2, <3>5, <3>6
  <2> QED
    BY <2>2, <2>3
<1>6. CASE Attribute
  <2> DEFINE found == attribute(Sites[at], seen)
  <2>1. Reading /\ Conclude(found) /\ faults' \in 0 .. MaxFaults
    BY <1>6 DEF Attribute, Reading, TypeOK
  <2>2. seen.spec # 0 /\ seen.code # Nothing
    BY <1>6 DEF Attribute, ScanOk, Reading, SeenOk
  <2>3. found.kind \in {"drift", "unattributed"}
    BY DEF attribute
  <2>4. found.kind = "drift" => found.tag \in RunTags(Sites[at])
    <3> SUFFICES ASSUME found.kind = "drift" PROVE found.tag \in RunTags(Sites[at])
      OBVIOUS
    <3>1. /\ found.tag \in TagSet(Sites[at])
          /\ matches(Sites[at], Pinned(Sites[at], found.tag), seen)
      BY <1>1, BoundsAssumption, Attributed
    <3> QED
      BY <2>1, <2>2, <3>1, ReadTagIsRun
  <2> HIDE DEF found
  <2>5. FoundOk(Sites[at], found)
    BY <2>3, <2>4 DEF FoundOk
  <2> QED
    BY <2>1, <2>5, ConcludeKeeps
<1>7. CASE FetchFails
  <2>1. /\ phase' = "aborted" /\ seen' = Unseen /\ faults' \in 0 .. MaxFaults
        /\ UNCHANGED <<live, releases, main, bump, at, verdict, base, checkout, ran>>
    BY <1>7, BoundsAssumption DEF FetchFails, world, repository, TypeOK
  <2>2. TypeOK'
    BY <2>1, BoundsAssumption DEF TypeOK, Seen, Unseen, Nothing
  <2>3. ReleasesOk' /\ TagsOk' /\ ScanOk'
    BY <2>1 DEF ReleasesOk, TagsOk, TagSet, ScanOk, Reading
  <2>4. MovesOk'
    BY <2>1, SameTags DEF MovesOk
  <2> QED
    BY <2>2, <2>3, <2>4
<1>8. CASE Propose
  <2>1. /\ phase' = "idle" /\ at' = 1 /\ verdict' = <<>> /\ base' = main /\ checkout' = main
        /\ ran' = [s \in SiteSet |-> {}]
        /\ UNCHANGED <<live, releases, main, seen, faults>>
    BY <1>8 DEF Propose, world
  <2>2. bump' = bump \/ bump' = [s \in Moved |-> checkout[s]]
    BY <1>8 DEF Propose
  <2>3. DOMAIN bump' \subseteq SiteSet
    BY <2>2 DEF Moved, TypeOK
  <2>4. TypeOK'
    BY <2>1, <2>3, SitesAssumption DEF TypeOK
  <2>5. TagsOk'
    <3>1. \A s \in DOMAIN bump' : bump'[s] \in TagSet(s)
      BY <2>2 DEF TagsOk, Moved
    <3> QED
      BY <2>1, <3>1 DEF TagsOk, TagSet
  <2>6. ReleasesOk' /\ MovesOk' /\ ScanOk'
    BY <2>1 DEF ReleasesOk, MovesOk, ScanOk, Reading
  <2> QED
    BY <2>4, <2>5, <2>6
<1> QED
  BY <1>2, <1>3, <1>4, <1>5, <1>6, <1>7, <1>8 DEF ScanStep

LEMMA Invariance == Spec => []IInv
<1> USE SitesAssumption, ReleasesAssumption, BoundsAssumption
<1>1. Init => IInv
  BY InitInv
<1>2. IInv /\ [Next]_vars => IInv'
  <2> SUFFICES ASSUME IInv, [Next]_vars PROVE IInv'
    OBVIOUS
  <2>1. CASE UNCHANGED vars
    <3>1. UNCHANGED scan /\ UNCHANGED <<live, releases, main, bump, ran, faults>>
      BY <2>1 DEF vars, scan
    <3>2. TypeOK' /\ ReleasesOk' /\ TagsOk'
      BY <3>1 DEF IInv, TypeOK, ReleasesOk, TagsOk, TagSet, scan
    <3>3. Stable
      BY <3>1 DEF Stable, TagSet, Pinned, getRelease
    <3> QED
      BY <3>1, <3>2, <3>3, OthersKeepScan DEF IInv, ScanOk
  <2> QED
    BY <2>1, OthersStep, ScanStepKeeps DEF Next
<1> QED
  BY <1>1, <1>2, PTL DEF Spec

-----------------------------------------------------------------------------
\* Type correctness of the scan: it reads the chains it is given, one by one,
\* and never goes past the last.
THEOREM TypeCorrect == Spec => []TypeOK
  BY Invariance, PTL DEF IInv

\* Whatever the scan rewrites a pin to, a release by that tag carries what the
\* chain ran during the scan, whether the scan came to its end or broke off.
THEOREM PinsRun == Spec => []PinsWereRun
<1>1. IInv => PinsWereRun
  BY DEF IInv, MovesOk, RunTags, PinsWereRun, Moved
<1> QED
  BY <1>1, Invariance, PTL

\* After a scan that calls for nobody, every pin names what its chain ran
\* during the scan.
THEOREM GreenIsTrue == Spec => []GreenScanTrue
<1>1. ASSUME IInv, Green, NEW s \in SiteSet PROVE WasRun(s, checkout[s])
  <2>1. phase = "over" /\ s \in DOMAIN verdict
    BY <1>1 DEF IInv, ScanOk, Green, Reading
  <2>2. FoundOk(s, verdict[s]) /\ Applied(s)
    BY <1>1, <2>1 DEF IInv, ScanOk, Reading
  <2>3. verdict[s].kind \in {"match", "drift"}
    BY <1>1, <2>1, <2>2 DEF Green, FoundOk
  <2> QED
    BY <2>2, <2>3 DEF FoundOk, Applied, RunTags
<1>2. IInv => GreenScanTrue
  BY <1>1 DEF GreenScanTrue
<1> QED
  BY <1>2, Invariance, PTL

-----------------------------------------------------------------------------
(***************************************************************************)
(* The scan implements RecordLedger.                                       *)
(***************************************************************************)
\* Nothing counts as run before a scan begins.
IdleOk == phase = "idle" => \A s \in SiteSet : ran[s] = {}

LEMMA IdleKept == Spec => []IdleOk
<1>1. Init => IdleOk
  BY DEF Init, IdleOk
<1>2. IdleOk /\ [Next]_vars => IdleOk'
  <2> SUFFICES ASSUME IdleOk, [Next]_vars PROVE IdleOk'
    OBVIOUS
  <2>1. CASE UNCHANGED vars
    BY <2>1 DEF vars, IdleOk
  <2>2. CASE (\E s \in SiteSet : Deploy(s)) \/ (\E repo \in DOMAIN releases : Publish(repo)) \/ Merge
    BY <2>2 DEF Deploy, Publish, Merge, scan, IdleOk
  <2>3. CASE ScanStep /\ ~Propose
    BY <2>3 DEF ScanStep, Begin, SeeVersion, SeeCode, Unreachable, Compare, Attribute,
                Conclude, Onward, FetchFails, IdleOk
  <2>4. CASE Propose
    BY <2>4 DEF Propose, IdleOk
  <2> QED
    BY <2>1, <2>2, <2>3, <2>4 DEF Next
<1> QED
  BY <1>1, <1>2, PTL DEF Spec

LEMMA GroundsAre == \A s, tag : <<s, tag>> \in Grounds <=> s \in SiteSet /\ tag \in RunTags(s)
  BY DEF Grounds, RunTags, TagSet

\* Grounds are not lost while a scan works and the world moves.
LEMMA GroundsGrow ==
  ASSUME Stable PROVE Grounds \subseteq Grounds'
<1> SUFFICES ASSUME NEW g \in Grounds PROVE g \in Grounds'
  OBVIOUS
<1>1. PICK s \in SiteSet : \E tag \in RunTags(s) : g = <<s, tag>>
  BY DEF Grounds, RunTags, TagSet
<1>2. \E tag \in RunTags(s)' : g = <<s, tag>>
  BY <1>1, StillRun
<1> QED
  BY <1>1, <1>2 DEF Grounds, RunTags, TagSet

\* Without a scan at work there are none.
LEMMA NoGrounds ==
  ASSUME ran' = [s \in SiteSet |-> {}] PROVE Grounds' = {}
  BY DEF Grounds, WasRun

\* Production, the pages and the scan up to its end move the grounds only.
LEMMA Gathers ==
  ASSUME SitesAssumption, ReleasesAssumption, IInv, IdleOk,
         \/ \E s \in SiteSet : Deploy(s)
         \/ \E repo \in DOMAIN releases : Publish(repo)
         \/ ScanStep /\ ~Propose
  PROVE  Ledger!Gather
<1>1. UNCHANGED repository
  BY DEF Deploy, Publish, ScanStep, Begin, SeeVersion, SeeCode, Unreachable, Compare,
         Attribute, Conclude, FetchFails, repository
<1>2. CASE \E s \in SiteSet : Deploy(s)
  <2>1. Stable
    BY <1>2 DEF Deploy, Stable, TagSet, Pinned, getRelease, IInv, TypeOK
  <2> QED
    BY <1>1, <2>1, GroundsGrow DEF Ledger!Gather, repository
<1>3. CASE \E repo \in DOMAIN releases : Publish(repo)
  <2>1. PICK repo \in RepoSet : Publish(repo)
    BY <1>3 DEF IInv, ReleasesOk
  <2>2. Stable
    BY <2>1, Published DEF IInv, Stable, Publish
  <2> QED
    BY <1>1, <2>2, GroundsGrow DEF Ledger!Gather, repository
<1>4. CASE Begin
  <2>1. \A s \in SiteSet : ran[s] = {}
    BY <1>4 DEF IdleOk, Begin
  <2>2. \A s \in SiteSet : \A tag : ~ WasRun(s, tag)
    BY <2>1 DEF WasRun
  <2>3. Grounds = {}
    BY <2>2 DEF Grounds
  <2> QED
    BY <1>1, <2>3 DEF Ledger!Gather, repository
<1>5. CASE ScanStep /\ ~Propose /\ ~Begin
  <2>1. UNCHANGED <<releases, ran>>
    BY <1>5 DEF ScanStep, SeeVersion, SeeCode, Unreachable, Compare, Attribute, Conclude,
                FetchFails, world
  <2>2. Stable
    BY <2>1 DEF Stable, TagSet, Pinned, getRelease
  <2> QED
    BY <1>1, <2>2, GroundsGrow DEF Ledger!Gather, repository
<1> QED
  BY <1>2, <1>3, <1>4, <1>5

LEMMA Proposes ==
  ASSUME IInv, Propose PROVE Ledger!Propose
<1>1. Grounds' = {} /\ main' = main
  BY NoGrounds DEF Propose, world
<1>2. ASSUME bump' # bump
      PROVE  DOMAIN bump' # {} /\ \A s \in DOMAIN bump' : <<s, bump'[s]>> \in Grounds
  <2>1. Moved # {} /\ bump' = [s \in Moved |-> checkout[s]]
    BY <1>2 DEF Propose
  <2>2. \A s \in Moved : s \in SiteSet /\ checkout[s] \in RunTags(s)
    BY DEF IInv, MovesOk, Moved
  <2> QED
    BY <2>1, <2>2, GroundsAre
<1> QED
  BY <1>1, <1>2 DEF Ledger!Propose

LEMMA Merges ==
  ASSUME IInv, Merge PROVE Ledger!Merge
<1>1. main' = Over(bump, main) /\ bump' = <<>> /\ UNCHANGED <<releases, ran>>
  BY DEF Merge, world
<1>2. DOMAIN bump \subseteq DOMAIN main
  BY DEF IInv, TypeOK
<1>3. Over(bump, main)
        = [s \in DOMAIN main |-> IF s \in DOMAIN bump THEN bump[s] ELSE main[s]]
  BY <1>2 DEF Over
<1>4. Grounds' = Grounds
  BY <1>1, SameTags DEF Grounds, WasRun, Pinned, getRelease
<1> QED
  BY <1>1, <1>3, <1>4 DEF Ledger!Merge

\* The scan, however its steps fall between deployments, releases and merges and
\* wherever it breaks off, implements RecordLedger: the record takes what was
\* proposed and nothing else, and what is proposed was proved by the scan that
\* proposes it.
THEOREM ImplementsLedger == Spec => LedgerSpec
<1> USE SitesAssumption, ReleasesAssumption, BoundsAssumption
<1>1. Init => Ledger!Init
  BY DEF Init, Ledger!Init, Grounds, WasRun
<1>2. IInv /\ IdleOk /\ [Next]_vars => [Ledger!Next]_<<main, bump, Grounds>>
  <2> SUFFICES ASSUME IInv, IdleOk, [Next]_vars
               PROVE  Ledger!Next \/ UNCHANGED <<main, bump, Grounds>>
    OBVIOUS
  <2>1. CASE UNCHANGED vars
    BY <2>1 DEF vars, Grounds, WasRun, Pinned, getRelease
  <2>2. CASE Merge
    BY <2>2, Merges DEF Ledger!Next
  <2>3. CASE Propose
    BY <2>3, Proposes DEF Ledger!Next
  <2>4. CASE \/ \E s \in SiteSet : Deploy(s)
             \/ \E repo \in DOMAIN releases : Publish(repo)
             \/ ScanStep /\ ~Propose
    BY <2>4, Gathers DEF Ledger!Next
  <2> QED
    BY <2>1, <2>2, <2>3, <2>4 DEF Next
<1> QED
  BY <1>1, <1>2, Invariance, IdleKept, PTL DEF Spec, LedgerSpec, Ledger!Spec
-----------------------------------------------------------------------------
(***************************************************************************)
(* How much work a scan can be.                                            *)
(***************************************************************************)
\* The work done: four steps to a site, read in either order.
Work ==
  CASE phase = "idle" -> 0
    [] phase = "observe" -> 4 * at + (IF seen.spec = 0 THEN 0 ELSE 1)
                                   + (IF seen.code = Nothing THEN 0 ELSE 1)
    [] phase = "attribute" -> 4 * at + 3
    [] OTHER -> 4 * Len(Sites) + 4

ScanDone == phase \in {"over", "aborted"} /\ phase' = "idle"
WorkGrows == scan' # scan => Work' > Work \/ ScanDone

\* On from a site.
LEMMA OnwardWorks ==
  ASSUME TypeOK, phase \in {"observe", "attribute"}, Onward, seen' = Unseen PROVE Work' > Work
<1>1. at \in 1 .. Len(Sites) /\ Len(Sites) \in Nat
  BY SitesAssumption DEF TypeOK
<1>2. Work \in Int /\ Work <= 4 * at + 3
  BY <1>1 DEF Work
<1>3. CASE at = Len(Sites)
  <2>1. phase' = "over"
    BY <1>3 DEF Onward
  <2>2. Work' = 4 * Len(Sites) + 4
    BY <2>1 DEF Work
  <2> QED
    BY <1>1, <1>2, <1>3, <2>2
<1>4. CASE at # Len(Sites)
  <2>1. phase' = "observe" /\ at' = at + 1
    BY <1>4 DEF Onward
  <2>2. Work' = 4 * (at + 1)
    BY <1>1, <2>1 DEF Work, Unseen
  <2> QED
    BY <1>1, <1>2, <2>2
<1> QED
  BY <1>3, <1>4

\* Whatever fails, every scan comes to its pull request in bounded work: each
\* step brings it nearer to an end from which nothing but the proposal leads, so
\* it takes at most 4 * Len(Sites) + 5 steps, however production moves under it.
THEOREM ScansAreBounded ==
  Spec => [](Work \in 0 .. 4 * Len(Sites) + 4) /\ [][WorkGrows]_vars
<1>1. ASSUME TypeOK
      PROVE  /\ Len(Sites) \in Nat /\ at \in 1 .. Len(Sites)
             /\ phase \in {"idle", "observe", "attribute", "over", "aborted"}
  BY <1>1, SitesAssumption DEF TypeOK
<1>2. TypeOK => Work \in 0 .. 4 * Len(Sites) + 4
  BY <1>1 DEF Work
<1>3. ASSUME TypeOK, [Next]_vars PROVE WorkGrows
  <2>1. CASE Begin
    BY <1>1, <1>3, <2>1 DEF Begin, Work, WorkGrows, Unseen
  <2>2. CASE SeeVersion
    <3>1. Sites[at] \in SiteSet
      BY <1>1, <1>3, SiteFacts
    <3>2. live[Sites[at]].spec \in 1 .. MaxSpec
      BY <1>3, <3>1 DEF TypeOK, Runtime
    <3>3. seen'.spec # 0 /\ seen'.code = seen.code
      BY <1>3, <2>2, <3>2, BoundsAssumption DEF SeeVersion, TypeOK, Seen
    <3> QED
      BY <1>1, <1>3, <2>2, <3>3 DEF SeeVersion, Work, WorkGrows
  <2>3. CASE SeeCode
    <3>1. Sites[at] \in SiteSet
      BY <1>1, <1>3, SiteFacts
    <3>2. live[Sites[at]].spec \in 1 .. MaxSpec
      BY <1>3, <3>1 DEF TypeOK, Runtime
    <3>3. seen'.spec = seen.spec /\ seen'.code # Nothing
      BY <1>3, <2>3, <3>2, BoundsAssumption DEF SeeCode, TypeOK, Seen, Nothing
    <3> QED
      BY <1>1, <1>3, <2>3, <3>3 DEF SeeCode, Work, WorkGrows
  <2>4. CASE Unreachable \/ Attribute
    BY <1>3, <2>4, OnwardWorks DEF Unreachable, Attribute, Conclude, WorkGrows
  <2>5. CASE Compare
    <3>1. phase = "observe" /\ (Conclude([kind |-> "match"]) \/ (phase' = "attribute" /\ at' = at))
      BY <2>5 DEF Compare
    <3>2. CASE Conclude([kind |-> "match"])
      BY <1>3, <3>1, <3>2, OnwardWorks DEF Conclude, WorkGrows
    <3>3. CASE phase' = "attribute" /\ at' = at
      BY <1>1, <1>3, <3>1, <3>3 DEF Work, WorkGrows
    <3> QED
      BY <3>1, <3>2, <3>3
  <2>6. CASE FetchFails
    BY <1>1, <1>3, <2>6 DEF FetchFails, Work, WorkGrows
  <2>7. CASE Propose
    BY <2>7 DEF Propose, WorkGrows, ScanDone
  <2>8. ASSUME NEW x, Deploy(x) \/ Publish(x) \/ Merge \/ UNCHANGED vars PROVE WorkGrows
    BY <2>8 DEF Deploy, Publish, Merge, vars, scan, WorkGrows
  <2> QED
    BY <1>3, <2>1, <2>2, <2>3, <2>4, <2>5, <2>6, <2>7, <2>8 DEF Next, ScanStep
<1>4. TypeOK /\ [Next]_vars => [WorkGrows]_vars
  BY <1>3
<1> QED
  BY <1>2, <1>4, TypeCorrect, PTL DEF Spec
=============================================================================
