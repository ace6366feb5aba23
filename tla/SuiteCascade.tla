---------------------------- MODULE SuiteCascade ----------------------------
(***************************************************************************)
(* A vitest run of packages/chain-tests: the files one after another in    *)
(* the sequencer's order, and the state they share because the run has one *)
(* process and one module context: the chains marked unhealthy             *)
(* (chain-cascade.ts), the attestation in flight and its permanent failure *)
(* marker (attested-fixture.ts), the ring location and the key drift       *)
(* (ring-cascade.ts), and the credentials file, which outlives the run.    *)
(*                                                                         *)
(* An attestation is not tied to the file that started it: a file whose    *)
(* timeout fires goes on to the next one, and the attestation goes on too. *)
(* The clock runs only while an attestation is in flight.                  *)
(***************************************************************************)
EXTENDS Naturals, FiniteSets, Sequences

CONSTANTS
  AttestLimit,    \* ATTEST_TIMEOUT_MS, in ticks
  SearchLimit,    \* SEARCH_TIMEOUT_MS
  PollOvershoot,  \* a last search poll and its pause, past SEARCH_TIMEOUT_MS
  Spare,          \* the minute ATTESTATION_TIMEOUT_MS adds
  ClaimTime,      \* what the storage and HOP hooks add for their claim
  TestLimit,      \* timeout of the tests that call ensureAttested themselves
  MaxRun          \* runs that share the credentials file

ASSUME TimingAssumption ==
  /\ {AttestLimit, SearchLimit, PollOvershoot, Spare, ClaimTime, TestLimit} \subseteq Nat
  /\ MaxRun \in Nat \ {0}
  /\ PollOvershoot < Spare

(***************************************************************************)
(* The files.                                                              *)
(***************************************************************************)
Order == <<"chain-health", "ring-health", "ib-health", "ring-inclusion", "core",
           "allowances", "alias-claim", "pop-gate", "pop-gate-by-proof",
           "lite-alias-bind", "dotns", "statement", "storage">>

Unlisted == <<"game-signup", "hop">>    \* alphabetically

Probes == {Order[i] : i \in 1 .. 4}
Files  == {Order[i] : i \in 1 .. Len(Order)} \cup {Unlisted[i] : i \in 1 .. Len(Unlisted)}

\* The scripts of package.json that attest, and a single file by hand.
Scripts ==
  LET toInclusion == Probes \cup {"allowances"}
      aliased     == toInclusion \cup {"alias-claim"}
  IN {Files, Files \ {"ring-health"}, Probes \ {"ring-inclusion"},
      aliased, aliased \cup {"pop-gate"}, toInclusion \cup {"pop-gate-by-proof"},
      Probes \cup {"storage"}}
     \cup {{f} : f \in Files}

\* The chains whose health a file's beforeAll asserts.
Asserts(f) ==
  CASE f \in {"ib-health", "ring-inclusion", "lite-alias-bind", "statement",
              "game-signup"}                                     -> {"people"}
    [] f \in {"core", "pop-gate", "dotns"}                       -> {"asset-hub"}
    [] f \in {"allowances", "alias-claim", "pop-gate-by-proof"}  -> {"people", "asset-hub"}
    [] f = "storage"                                             -> {"bulletin", "people"}
    [] OTHER                                                     -> {}

\* Files that attest in a test of their own, within that test's timeout.
InTest == {"alias-claim", "pop-gate", "lite-alias-bind"}

Attesters == InTest \cup {"ib-health", "ring-inclusion", "allowances",
                          "pop-gate-by-proof", "statement", "storage", "hop"}

\* Files that read the cached ring location.
Locators == {"alias-claim", "pop-gate-by-proof", "lite-alias-bind", "storage", "hop"}

\* Mutant: the budget as it would be had the search not been counted in.
BudgetWithoutSearch == AttestLimit + Spare

AttestationTimeout == AttestLimit + SearchLimit + Spare

Budget(f) ==
  IF f \in InTest THEN TestLimit
  ELSE IF f \in {"storage", "hop"} THEN AttestationTimeout + ClaimTime
  ELSE AttestationTimeout

PositionIn(seq, f) == CHOOSE i \in 1 .. Len(seq) : seq[i] = f

\* Mutants: a probe's path no longer matches its entry in ORDER.
PriorityProbeUnlisted(f) ==
  IF f = "ib-health" THEN Len(Order) + 2
  ELSE IF f \in {"game-signup", "hop"} THEN Len(Order) + 1 ELSE PositionIn(Order, f)

PriorityInclusionUnlisted(f) ==
  IF f = "ring-inclusion" THEN Len(Order) + 2
  ELSE IF f \in {"game-signup", "hop"} THEN Len(Order) + 1 ELSE PositionIn(Order, f)

Priority(f) ==
  IF \E i \in 1 .. Len(Order) : Order[i] = f THEN PositionIn(Order, f) ELSE Len(Order) + 1

\* The order of OrderedSequencer.sort.
RunsBefore(f, g) ==
  \/ Priority(f) < Priority(g)
  \/ Priority(f) = Priority(g) /\ PositionIn(Unlisted, f) < PositionIn(Unlisted, g)

Chains == {"people", "asset-hub", "bulletin"}
NoOne  == "none"
NoAccount == <<0, 0>>

Outcomes == {"passed", "failed", "chain-cascade", "ib-cascade", "attestation", "timeout", "drift"}

VARIABLES
  run,         \* number of the run
  script,      \* files of the run
  queue,       \* files still to run
  file,        \* the file running, or NoOne
  stage,       \* where that file is
  waited,      \* ticks it has waited for the attestation
  report,      \* the file reported last and its outcome
  attributed,  \* files that reported the attestation's own error
  unhealthy,   \* chains marked unhealthy
  fixture,     \* the promise inflight and what it waits for
  age,         \* ticks in that phase
  failure,     \* cachedFailure
  payer,       \* the file that started the attestation of this run
  attempts,    \* attestations started in this run
  location,    \* cachedRingLocation and ringKeyDrift
  waits,       \* files that ran waitForInclusion in this run
  credentials, \* the credentials file
  handed       \* accounts given to files since that file was cleared

flight == <<fixture, age, failure, payer, attempts>>
place  == <<location, waits>>
disk   == <<credentials, handed>>
vars   == <<run, script, queue, file, stage, waited, report, attributed, unhealthy,
            flight, place, disk>>

Account == Nat \X Nat    \* the run that attested it, and which attestation of that run

TypeOK ==
  /\ run \in 1 .. MaxRun
  /\ script \subseteq Files
  /\ queue \subseteq script
  /\ file \in Files \cup {NoOne}
  /\ stage \in {"hook", "waiting", "attested"}
  /\ waited \in Nat
  /\ report \in [file : Files \cup {NoOne}, outcome : Outcomes]
  /\ attributed \subseteq Files
  /\ unhealthy \subseteq Chains
  /\ fixture \in {"null", "attesting", "searching", "resolved"}
  /\ age \in Nat
  /\ failure \in {"none", "tagged", "untagged"}
  /\ payer \in Files \cup {NoOne}
  /\ attempts \in Nat
  /\ location \in {"null", "cached", "drift"}
  /\ waits \subseteq Files
  /\ credentials \in Account
  /\ handed \subseteq Account

\* A fresh process about to run the files of a script.
Init ==
  /\ run = 1
  /\ script \in Scripts
  /\ queue = script
  /\ file = NoOne
  /\ stage = "hook"
  /\ waited = 0
  /\ report = [file |-> NoOne, outcome |-> "passed"]
  /\ attributed = {}
  /\ unhealthy = {}
  /\ fixture = "null"
  /\ age = 0
  /\ failure = "none"
  /\ payer = NoOne
  /\ attempts = 0
  /\ location = "null"
  /\ waits = {}
  /\ credentials = NoAccount
  /\ handed = {}

(***************************************************************************)
(* A file ends with an outcome.                                            *)
(***************************************************************************)
Report(f, outcome) ==
  /\ file' = NoOne
  /\ stage' = "hook"
  /\ waited' = 0
  /\ report' = [file |-> f, outcome |-> outcome]
  /\ attributed' = IF outcome = "attestation" THEN attributed \cup {f} ELSE attributed

IsNext(f) == f \in queue /\ \A g \in queue \ {f} : RunsBefore(f, g)

\* assertChainHealthy throws in the file's beforeAll.
ChainCascade(f) ==
  /\ file = NoOne
  /\ IsNext(f)
  /\ Asserts(f) \cap unhealthy # {}
  /\ queue' = queue \ {f}
  /\ Report(f, "chain-cascade")
  /\ UNCHANGED <<run, script, unhealthy, flight, place, disk>>

StartFile(f) ==
  /\ file = NoOne
  /\ IsNext(f)
  /\ Asserts(f) \cap unhealthy = {}
  /\ queue' = queue \ {f}
  /\ file' = f
  /\ UNCHANGED <<run, script, stage, waited, report, attributed, unhealthy, flight, place, disk>>

\* The probe marks the chains whose check throws.  A check that hangs until
\* the test's timeout fails the probe and marks nothing.
ProbeChains ==
  /\ file = "chain-health"
  /\ \E marked \in SUBSET Chains, outcome \in {"passed", "failed"} :
       /\ marked # {} => outcome = "failed"
       /\ unhealthy' = unhealthy \cup marked
       /\ Report(file, outcome)
  /\ UNCHANGED <<run, script, queue, flight, place, disk>>

\* A mirror of the ring roots that is empty or far behind marks Asset Hub; the
\* probe's other tests fail without marking anything.
ProbeRings ==
  /\ file = "ring-health"
  /\ \E stuck \in BOOLEAN, outcome \in {"passed", "failed"} :
       /\ stuck => outcome = "failed"
       /\ unhealthy' = IF stuck THEN unhealthy \cup {"asset-hub"} ELSE unhealthy
       /\ Report(file, outcome)
  /\ UNCHANGED <<run, script, queue, flight, place, disk>>

\* Files with a step that can throw before they ask for the account.
MayFailFirst == {"pop-gate", "pop-gate-by-proof", "lite-alias-bind", "storage", "hop"}

\* A file that attests nothing passes or fails by itself.
OwnOutcome(f) ==
  /\ file = f
  /\ stage = "hook"
  /\ \/ f \in MayFailFirst /\ Report(f, "failed")
     \/ /\ f \notin Attesters \cup {"chain-health", "ring-health"}
        /\ \E outcome \in {"passed", "failed"} : Report(f, outcome)
  /\ UNCHANGED <<run, script, queue, unhealthy, flight, place, disk>>

(***************************************************************************)
(* ensureAttested.                                                         *)
(***************************************************************************)
Asking(f) == file = f /\ stage = "hook" /\ f \in Attesters

FailFast(f) ==
  /\ Asking(f)
  /\ failure # "none"
  /\ Report(f, IF failure = "tagged" THEN "ib-cascade" ELSE "attestation")
  /\ UNCHANGED <<run, script, queue, unhealthy, flight, place, disk>>

JoinInflight(f) ==
  /\ Asking(f)
  /\ failure = "none"
  /\ fixture # "null"
  /\ IF fixture = "resolved"
       THEN stage' = "attested" /\ handed' = handed \cup {credentials}
       ELSE stage' = "waiting" /\ UNCHANGED handed
  /\ UNCHANGED <<run, script, queue, file, waited, report, attributed, unhealthy, flight,
                 place, credentials>>

ReuseCredentials(f) ==
  /\ Asking(f)
  /\ failure = "none"
  /\ fixture = "null"
  /\ credentials # NoAccount
  /\ fixture' = "resolved"
  /\ stage' = "attested"
  /\ handed' = handed \cup {credentials}
  /\ UNCHANGED <<run, script, queue, file, waited, report, attributed, unhealthy, age,
                 failure, payer, attempts, place, credentials>>

\* Mutants: a failure is retried by the next file; the file is not looked at.
BeginAttestationAgain(f) ==
  /\ Asking(f)
  /\ fixture = "null"
  /\ credentials = NoAccount
  /\ fixture' = "attesting"
  /\ age' = 0
  /\ payer' = f
  /\ attempts' = attempts + 1
  /\ stage' = "waiting"
  /\ UNCHANGED <<run, script, queue, file, waited, report, attributed, unhealthy,
                 failure, place, disk>>

BeginAttestationAlways(f) ==
  /\ Asking(f)
  /\ failure = "none"
  /\ fixture = "null"
  /\ fixture' = "attesting"
  /\ age' = 0
  /\ payer' = f
  /\ attempts' = attempts + 1
  /\ stage' = "waiting"
  /\ UNCHANGED <<run, script, queue, file, waited, report, attributed, unhealthy,
                 failure, place, disk>>

BeginAttestation(f) ==
  /\ Asking(f)
  /\ failure = "none"
  /\ fixture = "null"
  /\ credentials = NoAccount
  /\ fixture' = "attesting"
  /\ age' = 0
  /\ payer' = f
  /\ attempts' = attempts + 1
  /\ stage' = "waiting"
  /\ UNCHANGED <<run, script, queue, file, waited, report, attributed, unhealthy, failure,
                 place, disk>>

(***************************************************************************)
(* The attestation, with whatever file is running meanwhile.               *)
(***************************************************************************)
PhaseLimit == IF fixture = "attesting" THEN AttestLimit ELSE SearchLimit + PollOvershoot

InFlight == fixture \in {"attesting", "searching"}

\* Time passes until a timer has to fire.
Tick ==
  /\ InFlight
  /\ age < PhaseLimit
  /\ stage = "waiting" => waited < Budget(file)
  /\ age' = age + 1
  /\ waited' = IF stage = "waiting" THEN waited + 1 ELSE waited
  /\ UNCHANGED <<run, script, queue, file, stage, report, attributed, unhealthy, fixture,
                 failure, payer, attempts, place, disk>>

\* truapi-host attest returned the account, and it is the one derived locally.
Attested ==
  /\ fixture = "attesting"
  /\ fixture' = "searching"
  /\ age' = 0
  /\ UNCHANGED <<run, script, queue, file, stage, waited, report, attributed, unhealthy,
                 failure, payer, attempts, place, disk>>

\* The search lists the username and the credentials are written: whoever
\* waits goes on with the account.
Searchable ==
  /\ fixture = "searching"
  /\ fixture' = "resolved"
  /\ credentials' = <<run, attempts>>
  /\ stage' = IF stage = "waiting" THEN "attested" ELSE stage
  /\ handed' = IF stage = "waiting" THEN handed \cup {credentials'} ELSE handed
  /\ UNCHANGED <<run, script, queue, file, waited, report, attributed, unhealthy, age,
                 failure, payer, attempts, place>>

\* Mutant: the first failure is thrown as the cascade marker too.
RejectAsCascade ==
  /\ InFlight
  /\ failure' = "tagged"
  /\ fixture' = "null"
  /\ IF stage = "waiting"
       THEN Report(file, "ib-cascade")
       ELSE UNCHANGED <<file, stage, waited, report, attributed>>
  /\ UNCHANGED <<run, script, queue, unhealthy, age, payer, attempts, place, disk>>

\* Mutant: the promise is dropped and its failure not kept.
RejectForgets ==
  /\ InFlight
  /\ fixture' = "null"
  /\ IF stage = "waiting"
       THEN Report(file, "attestation")
       ELSE UNCHANGED <<file, stage, waited, report, attributed>>
  /\ UNCHANGED <<run, script, queue, unhealthy, age, failure, payer, attempts, place, disk>>

\* The promise rejects: the failure is kept for the rest of the run, tagged or
\* not as the Identity Backend's, and whoever waits reports the error itself.
\* The search fails by its deadline, the write of the file at any time.
Reject ==
  /\ InFlight
  /\ \E kind \in {"tagged", "untagged"} :
       /\ fixture = "searching" /\ kind = "tagged" => age >= SearchLimit
       /\ failure' = kind
  /\ fixture' = "null"
  /\ IF stage = "waiting"
       THEN Report(file, "attestation")
       ELSE UNCHANGED <<file, stage, waited, report, attributed>>
  /\ UNCHANGED <<run, script, queue, unhealthy, age, payer, attempts, place, disk>>

\* Vitest's own timeout ends the file; the attestation goes on.
GiveUp(f) ==
  /\ file = f
  /\ stage = "waiting"
  /\ waited = Budget(f)
  /\ Report(f, "timeout")
  /\ UNCHANGED <<run, script, queue, unhealthy, flight, place, disk>>

(***************************************************************************)
(* With the account.                                                       *)
(***************************************************************************)
\* The probe waits for the account's place in the ring and caches it, or the
\* verdict that People has no member for the key.
LocateInRing ==
  /\ file = "ring-inclusion"
  /\ stage = "attested"
  /\ waits' = waits \cup {file}
  /\ \/ location' = "cached" /\ Report(file, "passed")
     \/ location' = "drift"  /\ Report(file, "failed")
     \/ location' = location /\ Report(file, "failed")
  /\ UNCHANGED <<run, script, queue, unhealthy, flight, disk>>

\* Mutant: the drift is kept but not thrown, so it reads as no location.
UseLocationIgnoringDrift(f) ==
  /\ file = f
  /\ f \in Locators
  /\ stage = "attested"
  /\ \/ location = "cached" /\ UNCHANGED waits
     \/ location # "cached" /\ f # "alias-claim" /\ waits' = waits \cup {f}
  /\ \E outcome \in {"passed", "failed"} : Report(f, outcome)
  /\ UNCHANGED <<run, script, queue, unhealthy, flight, location, disk>>

\* getCachedRingLocation throws the drift, or returns the place or null; with
\* null the alias claim fails and the others wait for the inclusion themselves.
UseLocation(f) ==
  /\ file = f
  /\ f \in Locators
  /\ stage = "attested"
  /\ \/ location = "drift" /\ Report(f, "drift") /\ UNCHANGED waits
     \/ /\ location = "cached"
        /\ \E outcome \in {"passed", "failed"} : Report(f, outcome)
        /\ UNCHANGED waits
     \/ /\ location = "null"
        /\ f = "alias-claim"
        /\ Report(f, "failed")
        /\ UNCHANGED waits
     \/ /\ location = "null"
        /\ f # "alias-claim"
        /\ waits' = waits \cup {f}
        /\ \E outcome \in {"passed", "failed"} : Report(f, outcome)
  /\ UNCHANGED <<run, script, queue, unhealthy, flight, location, disk>>

\* The rest of a file that needs no location.  Storage and HOP need none when
\* Bulletin has authorized the account already.
RestOfFile(f) ==
  /\ file = f
  /\ stage = "attested"
  /\ f # "ring-inclusion"
  /\ \E outcome \in {"passed", "failed"} :
       /\ f \in Locators \ {"storage", "hop"} => outcome = "failed"
       /\ Report(f, outcome)
  /\ UNCHANGED <<run, script, queue, unhealthy, flight, place, disk>>

\* The process exits and another script runs, on the credentials file left
\* behind or without it.
NextRun ==
  /\ file = NoOne
  /\ queue = {}
  /\ run < MaxRun
  /\ run' = run + 1
  /\ \/ UNCHANGED disk
     \/ credentials' = NoAccount /\ handed' = {}
  /\ script' \in Scripts
  /\ queue' = script'
  /\ report' = [file |-> NoOne, outcome |-> "passed"]
  /\ attributed' = {}
  /\ unhealthy' = {}
  /\ fixture' = "null"
  /\ age' = 0
  /\ failure' = "none"
  /\ payer' = NoOne
  /\ attempts' = 0
  /\ location' = "null"
  /\ waits' = {}
  /\ UNCHANGED <<file, stage, waited>>

RunOfFile(f) ==
  \/ ChainCascade(f)
  \/ StartFile(f)
  \/ OwnOutcome(f)
  \/ FailFast(f)
  \/ JoinInflight(f)
  \/ ReuseCredentials(f)
  \/ BeginAttestation(f)
  \/ GiveUp(f)
  \/ UseLocation(f)
  \/ RestOfFile(f)

Attestation == Tick \/ Attested \/ Searchable \/ Reject

Next ==
  \/ \E f \in Files : RunOfFile(f)
  \/ ProbeChains
  \/ ProbeRings
  \/ LocateInRing
  \/ Attestation
  \/ NextRun

-----------------------------------------------------------------------------
(***************************************************************************)
(* Properties.                                                             *)
(***************************************************************************)
\* However files time out and overlap with the attestation they share, a run
\* starts at most one: an account costs the backend minutes, and a backend
\* that failed is not asked again (inflight and cachedFailure).
OneAttestation == attempts <= 1

\* All files of all the runs on one credentials file act as the same person:
\* what one of them claims or registers is what the next one relies on.
OneAccount == Cardinality(handed) <= 1

\* In a run with the Identity Backend probe and a live People, the attestation
\* is the probe's: no feature suite pays for it, so none is reported broken in
\* the backend's place (the order of the sequencer).
ProbePays ==
  "ib-health" \in script /\ "people" \notin unhealthy => payer \in {NoOne, "ib-health"}

\* A file with the attestation budget is never ended by vitest's generic
\* timeout: the fixture's own timers end the attestation before
\* (ATTESTATION_TIMEOUT_MS), whichever phase is slow and whoever started it.
AttributedBeforeTimeout == report.outcome = "timeout" => report.file \in InTest

\* A cascade points at a signal: when a file reports the cascade marker, the
\* file that paid for the attestation has reported the error itself, unless
\* that file runs it within a test too short for it.
CascadeHasASignal ==
  report.outcome = "ib-cascade" => payer \in attributed \cup InTest

\* Once the probe has cached a place in the ring, no file of the run has waited
\* or waits for the inclusion itself (ring-cascade.ts: the wait happens once).
InclusionWaitedOnce == location = "cached" => waits = {"ring-inclusion"}

\* After the probe's verdict that People has no member for the key, nobody
\* waits for that member any more in the run.
DriftEndsWaits == [][location = "drift" /\ run' = run => waits' = waits]_vars

\* Nothing is attested on a People chain marked unhealthy: files that depend on
\* it fail fast off the marker instead of spending the attestation's minutes.
NoAttestationOnDeadPeople == attempts > 0 => "people" \notin unhealthy

\* The fixture as SharedPerson promises it: the promise in flight, the failure
\* kept and the credentials file make one answer for all the files of a run.
Answer ==
  IF InFlight THEN "asked"
  ELSE IF fixture = "resolved" \/ failure # "none" THEN "given" ELSE "open"

Fixture == INSTANCE SharedPerson
             WITH process <- run, answer <- Answer, person <- credentials, users <- handed

PersonSpec == Fixture!Spec

-----------------------------------------------------------------------------
Spec == Init /\ [][Next]_vars
=============================================================================
