------------------------- MODULE SuiteCascade_proofs -------------------------
(***************************************************************************)
(* Proofs about SuiteCascade, for every value of the timers that leaves    *)
(* the spare minute longer than the overshoot of the last search poll.     *)
(***************************************************************************)
EXTENDS SuiteCascade, FiniteSetTheorems, TLAPS

(***************************************************************************)
(* What a file may do, one disjunct for each action of a running file.     *)
(***************************************************************************)
LEMMA NextCases ==
  ASSUME Next
  PROVE  \/ \E f \in Files : ChainCascade(f)
         \/ \E f \in Files : StartFile(f)
         \/ \E f \in Files : OwnOutcome(f)
         \/ \E f \in Files : FailFast(f)
         \/ \E f \in Files : JoinInflight(f)
         \/ \E f \in Files : ReuseCredentials(f)
         \/ \E f \in Files : BeginAttestation(f)
         \/ \E f \in Files : GiveUp(f)
         \/ \E f \in Files : UseLocation(f)
         \/ \E f \in Files : RestOfFile(f)
         \/ ProbeChains \/ ProbeRings \/ LocateInRing
         \/ Tick \/ Attested \/ Searchable \/ Reject \/ NextRun
  BY Zenon DEF Next, RunOfFile, Attestation

(***************************************************************************)
(* Types.                                                                  *)
(***************************************************************************)
\* The end of a file keeps the types of what it sets.
LEMMA ReportTyped ==
  ASSUME attributed \subseteq Files, NEW f \in Files, NEW outcome \in Outcomes,
         Report(f, outcome)
  PROVE  /\ file' = NoOne
         /\ stage' = "hook"
         /\ waited' \in Nat
         /\ report' \in [file : Files \cup {NoOne}, outcome : Outcomes]
         /\ attributed' \subseteq Files
  BY DEF Report

LEMMA FileNames == Attesters \subseteq Files /\ NoOne \notin Files /\ Locators \subseteq Attesters
<1>1. Files = {"chain-health", "ring-health", "ib-health", "ring-inclusion", "core",
               "allowances", "alias-claim", "pop-gate", "pop-gate-by-proof",
               "lite-alias-bind", "dotns", "statement", "storage", "game-signup", "hop"}
  BY DEF Files, Order, Unlisted
<1> QED
  BY <1>1 DEF Attesters, InTest, Locators, NoOne

LEMMA ScriptsOfFiles == \A S \in Scripts : S \subseteq Files
<1>1. Probes \subseteq Files
  BY DEF Probes, Files, Order
<1>2. {"allowances", "alias-claim", "pop-gate", "pop-gate-by-proof", "storage"} \subseteq Files
  BY FileNames DEF Attesters, InTest
<1> QED
  BY <1>1, <1>2 DEF Scripts

\* Only a file that attests gets past its hook.
AttesterBusy == stage # "hook" => file \in Attesters

LEMMA AttesterBusyStep ==
  ASSUME AttesterBusy, [Next]_vars
  PROVE  AttesterBusy'
<1> USE DEF AttesterBusy
<1>1. CASE UNCHANGED vars
  BY <1>1 DEF vars
<1>2. ASSUME NEW f, NEW outcome, Report(f, outcome)
      PROVE  AttesterBusy'
  BY <1>2 DEF Report
<1>3. ASSUME NEW f \in Files,
             \/ ChainCascade(f) \/ OwnOutcome(f) \/ FailFast(f) \/ GiveUp(f)
             \/ UseLocation(f) \/ RestOfFile(f)
      PROVE  AttesterBusy'
  BY <1>2, <1>3 DEF ChainCascade, OwnOutcome, FailFast, GiveUp, UseLocation, RestOfFile
<1>4. CASE ProbeChains \/ ProbeRings \/ LocateInRing
  BY <1>2, <1>4 DEF ProbeChains, ProbeRings, LocateInRing
<1>5. ASSUME NEW f \in Files, StartFile(f)
      PROVE  AttesterBusy'
  BY <1>5, FileNames DEF StartFile
<1>6. ASSUME NEW f \in Files, JoinInflight(f) \/ ReuseCredentials(f) \/ BeginAttestation(f)
      PROVE  AttesterBusy'
  BY <1>6 DEF JoinInflight, ReuseCredentials, BeginAttestation, Asking
<1>7. CASE Tick \/ Attested \/ Searchable
  BY <1>7 DEF Tick, Attested, Searchable
<1>8. CASE Reject
  BY <1>2, <1>8 DEF Reject
<1>9. CASE NextRun
  BY <1>9 DEF NextRun
<1> QED
  BY <1>1, <1>3, <1>4, <1>5, <1>6, <1>7, <1>8, <1>9, NextCases

Typed == TypeOK /\ AttesterBusy

LEMMA TypeInit == Init => Typed
<1> SUFFICES ASSUME Init PROVE Typed
  OBVIOUS
<1>1. script \subseteq Files
  BY ScriptsOfFiles DEF Init
<1>2. AttesterBusy
  BY DEF Init, AttesterBusy
<1> QED
  BY <1>1, <1>2, TimingAssumption DEF Init, Typed, TypeOK, Outcomes, Account, NoAccount, NoOne

\* Any step that ends a file, or leaves the running file as it is, and touches
\* neither the attestation nor the credentials.
LEMMA ReportStepTyped ==
  ASSUME TypeOK, NEW f \in Files, NEW outcome \in Outcomes, Report(f, outcome),
         queue' \subseteq queue, unhealthy' \subseteq Chains, waits' \subseteq Files,
         location' \in {"null", "cached", "drift"}, UNCHANGED <<run, script, flight, disk>>
  PROVE  TypeOK'
<1>1. /\ file' \in Files \cup {NoOne}
      /\ stage' \in {"hook", "waiting", "attested"}
      /\ waited' \in Nat
      /\ report' \in [file : Files \cup {NoOne}, outcome : Outcomes]
      /\ attributed' \subseteq Files
  BY ReportTyped DEF TypeOK
<1> QED
  BY <1>1 DEF TypeOK, flight, disk

LEMMA TypeOKStep ==
  ASSUME Typed, [Next]_vars
  PROVE  TypeOK'
<1> USE DEF Typed
<1>o. {"passed", "failed", "chain-cascade", "ib-cascade", "attestation", "timeout", "drift"}
        = Outcomes
  BY DEF Outcomes
<1>1. CASE UNCHANGED vars
  BY <1>1 DEF vars, flight, place, disk, TypeOK
<1>2. ASSUME NEW f \in Files, ChainCascade(f)
      PROVE  TypeOK'
  BY <1>2, <1>o, ReportStepTyped DEF ChainCascade, TypeOK, place
<1>3. ASSUME NEW f \in Files, StartFile(f)
      PROVE  TypeOK'
  BY <1>3 DEF StartFile, TypeOK, flight, place, disk
<1>4. ASSUME NEW f \in Files, OwnOutcome(f)
      PROVE  TypeOK'
  BY <1>4, <1>o, ReportStepTyped DEF OwnOutcome, TypeOK, place
<1>5. ASSUME NEW f \in Files, FailFast(f)
      PROVE  TypeOK'
  BY <1>5, <1>o, ReportStepTyped DEF FailFast, TypeOK, place
<1>6. ASSUME NEW f \in Files, JoinInflight(f)
      PROVE  TypeOK'
  BY <1>6 DEF JoinInflight, TypeOK, flight, place
<1>7. ASSUME NEW f \in Files, ReuseCredentials(f)
      PROVE  TypeOK'
  BY <1>7 DEF ReuseCredentials, TypeOK, place
<1>8. ASSUME NEW f \in Files, BeginAttestation(f)
      PROVE  TypeOK'
  BY <1>8 DEF BeginAttestation, TypeOK, place, disk
<1>9. ASSUME NEW f \in Files, GiveUp(f)
      PROVE  TypeOK'
  BY <1>9, <1>o, ReportStepTyped DEF GiveUp, TypeOK, place
<1>10. ASSUME NEW f \in Files, UseLocation(f)
       PROVE  TypeOK'
  BY <1>10, <1>o, ReportStepTyped DEF UseLocation, TypeOK
<1>11. ASSUME NEW f \in Files, RestOfFile(f)
       PROVE  TypeOK'
  BY <1>11, <1>o, ReportStepTyped DEF RestOfFile, TypeOK, place
<1>12. CASE ProbeChains
  <2>1. file \in Files
    BY <1>12, FileNames DEF ProbeChains, TypeOK, NoOne
  <2> QED
    BY <1>12, <1>o, <2>1, ReportStepTyped DEF ProbeChains, TypeOK, place
<1>13. CASE ProbeRings
  <2>1. file \in Files
    BY <1>13, FileNames DEF ProbeRings, TypeOK, NoOne
  <2>2. unhealthy' \subseteq Chains
    BY <1>13 DEF ProbeRings, TypeOK, Chains
  <2> QED
    BY <1>13, <1>o, <2>1, <2>2, ReportStepTyped DEF ProbeRings, TypeOK, place
<1>14. CASE LocateInRing
  <2>1. file \in Files
    BY <1>14, FileNames DEF LocateInRing, TypeOK, NoOne
  <2> QED
    BY <1>14, <1>o, <2>1, ReportStepTyped DEF LocateInRing, TypeOK
<1>15. CASE Tick
  BY <1>15 DEF Tick, TypeOK, place, disk
<1>16. CASE Attested
  BY <1>16 DEF Attested, TypeOK, place, disk
<1>17. CASE Searchable
  <2>1. credentials' \in Account
    BY <1>17 DEF Searchable, TypeOK, Account
  <2> QED
    BY <1>17, <2>1 DEF Searchable, TypeOK, place
<1>18. CASE Reject
  <2>1. CASE stage = "waiting" /\ file \in Files
    <3>1. Report(file, "attestation")
      BY <1>18, <2>1 DEF Reject
    <3>2. /\ file' = NoOne /\ stage' = "hook" /\ waited' \in Nat
          /\ report' \in [file : Files \cup {NoOne}, outcome : Outcomes]
          /\ attributed' \subseteq Files
      BY <3>1, <2>1, <1>o, ReportTyped DEF TypeOK
    <3> QED
      BY <1>18, <3>2 DEF Reject, TypeOK, place, disk
  <2>2. CASE stage # "waiting"
    BY <1>18, <2>2 DEF Reject, TypeOK, place, disk
  <2>3. stage = "waiting" => file \in Files
    BY FileNames DEF AttesterBusy
  <2> QED
    BY <2>1, <2>2, <2>3
<1>19. CASE NextRun
  <2>1. script' \subseteq Files
    BY <1>19, ScriptsOfFiles DEF NextRun
  <2> QED
    BY <1>19, <2>1, TimingAssumption DEF NextRun, TypeOK, disk, Outcomes, Account, NoAccount
<1> QED
  BY <1>1, <1>2, <1>3, <1>4, <1>5, <1>6, <1>7, <1>8, <1>9, <1>10, <1>11, <1>12, <1>13,
     <1>14, <1>15, <1>16, <1>17, <1>18, <1>19, NextCases

LEMMA TypeStep ==
  ASSUME Typed, [Next]_vars
  PROVE  Typed'
BY TypeOKStep, AttesterBusyStep DEF Typed

\* The type invariant holds in every run of every script.
THEOREM TypeCorrect == Spec => []TypeOK
<1>1. Typed => TypeOK
  BY DEF Typed
<1> QED
  BY <1>1, TypeInit, TypeStep, PTL DEF Spec

(***************************************************************************)
(* One attestation per run: an attestation that was started is in flight,  *)
(* has resolved, or has left its failure behind, and each of the three     *)
(* keeps the next one from starting.                                       *)
(***************************************************************************)
AttestationKept ==
  /\ attempts \in {0, 1}
  /\ attempts = 1 => fixture # "null" \/ failure # "none"

LEMMA AttestationKeptInit == Init => AttestationKept
  BY DEF Init, AttestationKept

LEMMA AttestationKeptStep ==
  ASSUME AttestationKept, [Next]_vars
  PROVE  AttestationKept'
<1> USE DEF AttestationKept
<1>1. CASE UNCHANGED vars
  BY <1>1 DEF vars, flight
<1>2. ASSUME NEW f \in Files, BeginAttestation(f)
      PROVE  AttestationKept'
  BY <1>2 DEF BeginAttestation
<1>3. ASSUME NEW f \in Files, ReuseCredentials(f)
      PROVE  AttestationKept'
  BY <1>3 DEF ReuseCredentials
<1>4. CASE Searchable
  BY <1>4 DEF Searchable
<1>5. CASE Attested
  BY <1>5 DEF Attested
<1>6. CASE Reject
  BY <1>6 DEF Reject
<1>7. CASE Tick
  BY <1>7 DEF Tick
<1>8. CASE NextRun
  BY <1>8 DEF NextRun
<1>9. ASSUME UNCHANGED flight
      PROVE  AttestationKept'
  BY <1>9 DEF flight
<1>10. ASSUME NEW f \in Files,
              ChainCascade(f) \/ StartFile(f) \/ OwnOutcome(f) \/ FailFast(f)
                \/ JoinInflight(f) \/ GiveUp(f) \/ UseLocation(f) \/ RestOfFile(f)
       PROVE  AttestationKept'
  BY <1>9, <1>10, Zenon DEF ChainCascade, StartFile, OwnOutcome, FailFast, JoinInflight,
     GiveUp, UseLocation, RestOfFile
<1>11. CASE ProbeChains \/ ProbeRings \/ LocateInRing
  BY <1>9, <1>11, Zenon DEF ProbeChains, ProbeRings, LocateInRing
<1> QED
  BY <1>1, <1>2, <1>3, <1>4, <1>5, <1>6, <1>7, <1>8, <1>10, <1>11, NextCases

\* However the files of a run time out and overlap with the attestation they
\* share, the run starts at most one (inflight, cachedFailure).
THEOREM AtMostOneAttestation == Spec => []OneAttestation
<1>1. AttestationKept => OneAttestation
  BY DEF AttestationKept, OneAttestation
<1> QED
  BY <1>1, AttestationKeptInit, AttestationKeptStep, PTL DEF Spec

(***************************************************************************)
(* One account: whatever a file was handed is what the credentials file    *)
(* says, and an attestation is only in flight while the file says nothing. *)
(***************************************************************************)
FileDecides ==
  /\ run \in Nat \ {0}
  /\ handed \subseteq {credentials}
  /\ credentials = NoAccount => handed = {} /\ fixture # "resolved"
  /\ InFlight => credentials = NoAccount

LEMMA FileDecidesInit == Init => FileDecides
  BY DEF Init, FileDecides, InFlight

LEMMA FileDecidesStep ==
  ASSUME FileDecides, [Next]_vars
  PROVE  FileDecides'
<1> USE DEF FileDecides, InFlight
<1>1. CASE UNCHANGED vars
  BY <1>1 DEF vars, flight, disk
<1>2. ASSUME NEW f \in Files, BeginAttestation(f)
      PROVE  FileDecides'
  BY <1>2 DEF BeginAttestation, disk
<1>3. ASSUME NEW f \in Files, ReuseCredentials(f)
      PROVE  FileDecides'
  BY <1>3 DEF ReuseCredentials
<1>4. ASSUME NEW f \in Files, JoinInflight(f)
      PROVE  FileDecides'
  BY <1>4 DEF JoinInflight, flight
<1>5. CASE Searchable
  <2>1. credentials' # NoAccount
    BY <1>5 DEF Searchable, NoAccount
  <2> QED
    BY <1>5, <2>1 DEF Searchable
<1>6. CASE Attested
  BY <1>6 DEF Attested, disk
<1>7. CASE Reject
  BY <1>7 DEF Reject, disk
<1>8. CASE Tick
  BY <1>8 DEF Tick, disk
<1>9. CASE NextRun
  BY <1>9 DEF NextRun, disk
<1>10. ASSUME UNCHANGED <<run, flight, disk>>
       PROVE  FileDecides'
  BY <1>10 DEF flight, disk
<1>11. ASSUME NEW f \in Files,
              ChainCascade(f) \/ StartFile(f) \/ OwnOutcome(f) \/ FailFast(f)
                \/ GiveUp(f) \/ UseLocation(f) \/ RestOfFile(f)
       PROVE  FileDecides'
  BY <1>10, <1>11, Zenon DEF ChainCascade, StartFile, OwnOutcome, FailFast, GiveUp,
     UseLocation, RestOfFile
<1>12. CASE ProbeChains \/ ProbeRings \/ LocateInRing
  BY <1>10, <1>12, Zenon DEF ProbeChains, ProbeRings, LocateInRing
<1> QED
  BY <1>1, <1>2, <1>3, <1>4, <1>5, <1>6, <1>7, <1>8, <1>9, <1>11, <1>12, NextCases

\* All the files that share a credentials file, over any number of runs, act as
\* the same person.
THEOREM SamePersonThroughout == Spec => []OneAccount
<1>1. FileDecides => OneAccount
  <2> SUFFICES ASSUME FileDecides PROVE OneAccount
    OBVIOUS
  <2>1. handed = {} \/ handed = {credentials}
    BY DEF FileDecides
  <2>2. Cardinality({}) = 0 /\ Cardinality({credentials}) = 1
    BY FS_EmptySet, FS_Singleton
  <2> QED
    BY <2>1, <2>2 DEF OneAccount
<1> QED
  BY <1>1, FileDecidesInit, FileDecidesStep, PTL DEF Spec

(***************************************************************************)
(* The budget.  A file that waits has not waited longer than the           *)
(* attestation has been in flight, and each phase ends by its own timer; so *)
(* a file with the whole budget is released before its own timeout, and    *)
(* the file that pays is still there when the attestation fails.           *)
(***************************************************************************)
Timers ==
  /\ age \in Nat
  /\ waited \in Nat
  /\ stage = "hook" => waited = 0
  /\ stage = "waiting" => InFlight
  /\ stage = "waiting" /\ fixture = "attesting" => waited <= age
  /\ stage = "waiting" /\ fixture = "searching" => waited <= AttestLimit + age
  /\ InFlight => age <= PhaseLimit

Attribution ==
  /\ report.outcome = "timeout" => report.file \in InTest
  /\ report.outcome = "ib-cascade" => failure # "none"
  /\ InFlight /\ payer \notin InTest => stage = "waiting" /\ file = payer
  /\ failure # "none" => payer \in attributed \cup InTest

BudgetKept == Timers /\ Attribution

LEMMA BudgetKeptInit == Init => BudgetKept
  BY DEF Init, BudgetKept, Timers, Attribution, InFlight, NoOne

\* A file with the whole budget is not at its end while it waits.
LEMMA BudgetSuffices ==
  ASSUME Typed, BudgetKept, stage = "waiting", NEW f \in Files, f \notin InTest
  PROVE  waited < Budget(f)
<1>1. waited <= AttestLimit + SearchLimit + PollOvershoot
  BY TimingAssumption DEF BudgetKept, Timers, InFlight, PhaseLimit
<1>2. Budget(f) \in Nat /\ AttestLimit + SearchLimit + Spare <= Budget(f)
  BY TimingAssumption DEF Budget, AttestationTimeout
<1> QED
  BY <1>1, <1>2, TimingAssumption DEF BudgetKept, Timers

\* The end of a file that is not waiting, or of one that may not be the payer,
\* with the attestation as it was.
LEMMA ReportKeepsBudget ==
  ASSUME BudgetKept, NEW f, NEW outcome, Report(f, outcome), UNCHANGED flight,
         stage # "waiting" \/ file \in InTest,
         outcome = "timeout" => f \in InTest,
         outcome = "ib-cascade" => failure # "none"
  PROVE  BudgetKept'
  BY SMT DEF BudgetKept, Timers, Attribution, InFlight, PhaseLimit, Report, flight, NoOne

LEMMA BudgetKeptStep ==
  ASSUME Typed, BudgetKept, [Next]_vars
  PROVE  BudgetKept'
<1>0. /\ stage # "hook" => file \in Attesters
      /\ file = NoOne => stage = "hook"
      /\ fixture \in {"null", "attesting", "searching", "resolved"}
  BY FileNames DEF Typed, AttesterBusy, TypeOK
<1>1. CASE UNCHANGED vars
  BY <1>1 DEF vars, flight, BudgetKept, Timers, Attribution, InFlight, PhaseLimit
<1>2. ASSUME NEW f \in Files, ChainCascade(f)
      PROVE  BudgetKept'
  BY <1>0, <1>2, ReportKeepsBudget DEF ChainCascade
<1>3. ASSUME NEW f \in Files, StartFile(f)
      PROVE  BudgetKept'
  <2>1. stage = "hook" /\ file' = f
    BY <1>0, <1>3 DEF StartFile
  <2> QED
    BY <1>3, <2>1 DEF StartFile, BudgetKept, Timers, Attribution, InFlight, PhaseLimit,
       flight
<1>4. ASSUME NEW f \in Files, OwnOutcome(f)
      PROVE  BudgetKept'
  BY <1>4, ReportKeepsBudget DEF OwnOutcome
<1>5. ASSUME NEW f \in Files, FailFast(f)
      PROVE  BudgetKept'
  BY <1>5, ReportKeepsBudget DEF FailFast, Asking
<1>6. ASSUME NEW f \in Files, JoinInflight(f)
      PROVE  BudgetKept'
  <2>1. stage = "hook" /\ waited = 0 /\ file = f /\ fixture # "null" /\ f # NoOne
    BY <1>6 DEF JoinInflight, Asking, BudgetKept, Timers, Attesters, InTest, NoOne
  <2>2. CASE fixture = "resolved"
    BY <1>6, <2>1, <2>2 DEF JoinInflight, BudgetKept, Timers, Attribution, InFlight,
       PhaseLimit, flight
  <2>3. CASE fixture # "resolved"
    <3>1. stage' = "waiting"
      BY <1>6, <2>3 DEF JoinInflight
    <3>2. fixture \in {"attesting", "searching"}
      BY <1>0, <2>1, <2>3
    <3> QED
      BY <1>6, <2>1, <3>1, <3>2, TimingAssumption DEF JoinInflight, BudgetKept, Timers,
         Attribution, InFlight, PhaseLimit, flight
  <2> QED
    BY <2>2, <2>3
<1>7. ASSUME NEW f \in Files, ReuseCredentials(f)
      PROVE  BudgetKept'
  BY <1>7 DEF ReuseCredentials, Asking, BudgetKept, Timers, Attribution, InFlight,
     PhaseLimit, Attesters, InTest, NoOne
<1>8. ASSUME NEW f \in Files, BeginAttestation(f)
      PROVE  BudgetKept'
  BY <1>8, TimingAssumption DEF BeginAttestation, Asking, BudgetKept, Timers, Attribution,
     InFlight, PhaseLimit, Attesters, InTest, NoOne
<1>9. ASSUME NEW f \in Files, GiveUp(f)
      PROVE  BudgetKept'
  <2>1. f \in InTest
    BY <1>9, BudgetSuffices DEF GiveUp, BudgetKept, Timers
  <2> QED
    BY <1>9, <2>1, ReportKeepsBudget DEF GiveUp
<1>10. ASSUME NEW f \in Files, UseLocation(f)
       PROVE  BudgetKept'
  BY <1>10, ReportKeepsBudget DEF UseLocation
<1>11. ASSUME NEW f \in Files, RestOfFile(f)
       PROVE  BudgetKept'
  BY <1>11, ReportKeepsBudget DEF RestOfFile
<1>12. CASE ProbeChains \/ ProbeRings
  <2>1. stage = "hook"
    BY <1>0, <1>12 DEF ProbeChains, ProbeRings, Attesters, InTest
  <2> QED
    BY <1>12, <2>1, ReportKeepsBudget DEF ProbeChains, ProbeRings
<1>13. CASE LocateInRing
  BY <1>13, ReportKeepsBudget DEF LocateInRing
<1>14. CASE Tick
  BY <1>14, TimingAssumption DEF Tick, BudgetKept, Timers, Attribution, InFlight, PhaseLimit
<1>15. CASE Attested
  BY <1>15, TimingAssumption DEF Attested, BudgetKept, Timers, Attribution, InFlight,
     PhaseLimit
<1>16. CASE Searchable
  BY <1>16, TimingAssumption DEF Searchable, BudgetKept, Timers, Attribution, InFlight,
     PhaseLimit
<1>17. CASE Reject
  BY <1>17 DEF Reject, Report, BudgetKept, Timers, Attribution, InFlight, PhaseLimit, NoOne
<1>18. CASE NextRun
  BY <1>0, <1>18 DEF NextRun, BudgetKept, Timers, Attribution, InFlight, PhaseLimit, NoOne
<1> QED
  BY <1>1, <1>2, <1>3, <1>4, <1>5, <1>6, <1>7, <1>8, <1>9, <1>10, <1>11, <1>12, <1>13,
     <1>14, <1>15, <1>16, <1>17, <1>18, NextCases

\* Whatever the timers, as long as the spare minute outlasts the last search
\* poll: a file with the attestation budget is never ended by vitest's timeout
\* while it waits for the account (ATTESTATION_TIMEOUT_MS).
THEOREM BudgetOutlastsAttestation == Spec => []AttributedBeforeTimeout
<1>1. BudgetKept => AttributedBeforeTimeout
  BY DEF BudgetKept, Attribution, AttributedBeforeTimeout
<1> QED
  BY <1>1, TypeInit, TypeStep, BudgetKeptInit, BudgetKeptStep, PTL DEF Spec

\* A file that reports the cascade marker points at a file that has reported
\* the attestation's own error, or at one that ran it in too short a test.
THEOREM CascadeFollowsItsSignal == Spec => []CascadeHasASignal
<1>1. BudgetKept => CascadeHasASignal
  BY DEF BudgetKept, Attribution, CascadeHasASignal
<1> QED
  BY <1>1, TypeInit, TypeStep, BudgetKeptInit, BudgetKeptStep, PTL DEF Spec

(***************************************************************************)
(* The drift is final: the probe that finds it runs once, so only a file   *)
(* that reads the drift, and throws it, could wait after it.               *)
(***************************************************************************)
ProbedOnce ==
  /\ file \notin queue
  /\ location # "null" => "ring-inclusion" \notin queue /\ file # "ring-inclusion"

LEMMA ProbedOnceInit == Init => ProbedOnce
<1>1. NoOne \notin Files
  BY FileNames
<1> QED
  BY <1>1, ScriptsOfFiles DEF Init, ProbedOnce

LEMMA ProbedOnceStep ==
  ASSUME Typed, ProbedOnce, [Next]_vars
  PROVE  ProbedOnce'
<1> USE DEF ProbedOnce
<1>0. NoOne \notin queue /\ NoOne # "ring-inclusion"
  BY FileNames DEF Typed, TypeOK, NoOne
<1>1. CASE UNCHANGED vars
  BY <1>1 DEF vars, place
<1>2. ASSUME NEW f, NEW outcome, Report(f, outcome), queue' \subseteq queue,
             location' = location \/ "ring-inclusion" \notin queue
      PROVE  ProbedOnce'
  BY <1>0, <1>2 DEF Report
<1>3. ASSUME NEW f \in Files,
             \/ ChainCascade(f) \/ OwnOutcome(f) \/ FailFast(f) \/ GiveUp(f)
             \/ UseLocation(f) \/ RestOfFile(f)
      PROVE  ProbedOnce'
  BY <1>2, <1>3 DEF ChainCascade, OwnOutcome, FailFast, GiveUp, UseLocation, RestOfFile, place
<1>4. CASE ProbeChains \/ ProbeRings \/ LocateInRing
  BY <1>2, <1>4 DEF ProbeChains, ProbeRings, LocateInRing, place
<1>5. ASSUME NEW f \in Files, StartFile(f)
      PROVE  ProbedOnce'
  BY <1>5 DEF StartFile, IsNext, place
<1>6. ASSUME NEW f \in Files, JoinInflight(f) \/ ReuseCredentials(f) \/ BeginAttestation(f)
      PROVE  ProbedOnce'
  BY <1>6 DEF JoinInflight, ReuseCredentials, BeginAttestation, place
<1>7. CASE Tick \/ Attested \/ Searchable
  BY <1>7 DEF Tick, Attested, Searchable, place
<1>8. CASE Reject
  BY <1>2, <1>8 DEF Reject, place
<1>9. CASE NextRun
  BY <1>9, FileNames, ScriptsOfFiles DEF NextRun
<1> QED
  BY <1>1, <1>3, <1>4, <1>5, <1>6, <1>7, <1>8, <1>9, NextCases

\* After the probe's verdict of key drift, no file of the run waits for the
\* member People does not have (ringKeyDrift, getCachedRingLocation).
THEOREM DriftIsFinal == Spec => DriftEndsWaits
<1>1. Typed /\ ProbedOnce /\ [Next]_vars => [location = "drift" /\ run' = run => waits' = waits]_vars
  <2> SUFFICES ASSUME Typed, ProbedOnce, Next, location = "drift", run' = run
               PROVE  waits' = waits
    BY DEF vars, place
  <2>1. ASSUME UNCHANGED place
        PROVE  waits' = waits
    BY <2>1 DEF place
  <2>2. ASSUME NEW f \in Files, UseLocation(f)
        PROVE  waits' = waits
    BY <2>2 DEF UseLocation
  <2>3. ~ LocateInRing
    BY DEF LocateInRing, ProbedOnce
  <2>4. ~ NextRun
    BY TimingAssumption DEF NextRun, Typed, TypeOK
  <2>5. ASSUME NEW f \in Files,
               \/ ChainCascade(f) \/ StartFile(f) \/ OwnOutcome(f) \/ FailFast(f)
               \/ JoinInflight(f) \/ ReuseCredentials(f) \/ BeginAttestation(f)
               \/ GiveUp(f) \/ RestOfFile(f)
        PROVE  waits' = waits
    BY <2>1, <2>5, Zenon DEF ChainCascade, StartFile, OwnOutcome, FailFast, JoinInflight,
       ReuseCredentials, BeginAttestation, GiveUp, RestOfFile
  <2>6. CASE ProbeChains \/ ProbeRings \/ Tick \/ Attested \/ Searchable \/ Reject
    BY <2>1, <2>6, Zenon DEF ProbeChains, ProbeRings, Tick, Attested, Searchable, Reject
  <2> QED
    BY <2>2, <2>3, <2>4, <2>5, <2>6, NextCases
<1> QED
  BY <1>1, TypeInit, TypeStep, ProbedOnceInit, ProbedOnceStep, PTL DEF Spec, DriftEndsWaits

(***************************************************************************)
(* The order of the files: no file that attests is sorted before the       *)
(* Identity Backend probe, and none that uses the ring location before the *)
(* Ring Inclusion probe.                                                   *)
(***************************************************************************)
LEMMA OrderIs ==
  /\ Len(Order) = 13
  /\ Order[1] = "chain-health"        /\ Order[2] = "ring-health"
  /\ Order[3] = "ib-health"           /\ Order[4] = "ring-inclusion"
  /\ Order[5] = "core"                /\ Order[6] = "allowances"
  /\ Order[7] = "alias-claim"         /\ Order[8] = "pop-gate"
  /\ Order[9] = "pop-gate-by-proof"   /\ Order[10] = "lite-alias-bind"
  /\ Order[11] = "dotns"              /\ Order[12] = "statement"
  /\ Order[13] = "storage"
  BY DEF Order

\* The position found is one at which the file stands.
LEMMA PositionFound ==
  ASSUME NEW f, NEW j \in 1 .. 13, Order[j] = f
  PROVE  PositionIn(Order, f) \in 1 .. 13 /\ Order[PositionIn(Order, f)] = f
  BY OrderIs DEF PositionIn

LEMMA ProbePriorities == Priority("ib-health") = 3 /\ Priority("ring-inclusion") = 4
<1>1. ASSUME NEW i \in 1 .. 13
      PROVE  /\ Order[i] = "ib-health" => i = 3
             /\ Order[i] = "ring-inclusion" => i = 4
  BY OrderIs
<1>2. PositionIn(Order, "ib-health") = 3
  BY <1>1, OrderIs, PositionFound
<1>3. PositionIn(Order, "ring-inclusion") = 4
  BY <1>1, OrderIs, PositionFound
<1> QED
  BY <1>2, <1>3, OrderIs DEF Priority

\* A file that stands at none of the first n positions has a later priority.
LEMMA LaterPriority ==
  ASSUME NEW f, NEW n \in 0 .. 12, \A i \in 1 .. n : Order[i] # f
  PROVE  Priority(f) \in Nat /\ Priority(f) > n
<1>1. CASE \E i \in 1 .. 13 : Order[i] = f
  <2>1. PositionIn(Order, f) \in 1 .. 13 /\ Order[PositionIn(Order, f)] = f
    BY <1>1, PositionFound
  <2>2. Priority(f) = PositionIn(Order, f)
    BY <1>1, OrderIs DEF Priority
  <2> QED
    BY <2>1, <2>2
<1>2. CASE ~ \E i \in 1 .. 13 : Order[i] = f
  <2>1. Priority(f) = 14
    BY <1>2, OrderIs DEF Priority
  <2> QED
    BY <2>1
<1> QED
  BY <1>1, <1>2

LEMMA AttestersAfterProbe ==
  ASSUME NEW f \in Attesters, f # "ib-health"
  PROVE  ~ RunsBefore(f, "ib-health")
<1>1. \A i \in 1 .. 3 : Order[i] # f
  <2>1. f \notin {"chain-health", "ring-health", "ib-health"}
    BY DEF Attesters, InTest
  <2> QED
    BY <2>1, OrderIs
<1>2. Priority(f) \in Nat /\ Priority(f) > 3
  BY <1>1, LaterPriority
<1> QED
  BY <1>2, ProbePriorities DEF RunsBefore

LEMMA LocatorsAfterProbe ==
  ASSUME NEW f \in Locators
  PROVE  ~ RunsBefore(f, "ring-inclusion")
<1>1. \A i \in 1 .. 4 : Order[i] # f
  <2>1. f \notin {"chain-health", "ring-health", "ib-health", "ring-inclusion"}
    BY DEF Locators
  <2> QED
    BY <2>1, OrderIs
<1>2. Priority(f) \in Nat /\ Priority(f) > 4
  BY <1>1, LaterPriority
<1> QED
  BY <1>2, ProbePriorities DEF RunsBefore

(***************************************************************************)
(* Who pays: until the probe has started nobody asks for the account, and  *)
(* once it is past its hook the account is there, on its way, or refused   *)
(* for good.                                                               *)
(***************************************************************************)
Settled == fixture # "null" \/ failure # "none"

ProbeFirst ==
  /\ "ib-health" \in queue => payer = NoOne /\ file \notin Attesters
  /\ file = "ib-health" /\ stage # "hook" => Settled
  /\ "ib-health" \in script \ queue /\ file # "ib-health" => Settled \/ "people" \in unhealthy
  /\ ProbePays

LEMMA ProbeFirstInit == Init => ProbeFirst
<1>1. NoOne \notin Attesters
  BY FileNames
<1> QED
  BY <1>1 DEF Init, ProbeFirst, ProbePays

\* The end of a file: the probe ends past its hook or with a failure kept.
LEMMA ReportKeepsProbeFirst ==
  ASSUME ProbeFirst, NEW f \in Files, NEW outcome, Report(f, outcome),
         UNCHANGED <<script, flight>>, unhealthy \subseteq unhealthy',
         \/ file = f /\ queue' = queue /\ (f = "ib-health" => stage # "hook" \/ Settled)
         \/ /\ file = NoOne /\ queue' = queue \ {f}
            /\ f = "ib-health" => "people" \in unhealthy'
  PROVE  ProbeFirst'
<1>1. file' = NoOne /\ stage' = "hook" /\ NoOne \notin Attesters /\ NoOne # "ib-health"
  BY FileNames DEF Report, NoOne
<1> QED
  BY <1>1 DEF ProbeFirst, ProbePays, Settled, flight

LEMMA ProbeFirstStep ==
  ASSUME Typed, ProbeFirst, [Next]_vars
  PROVE  ProbeFirst'
<1>0. NoOne \notin Files /\ "ib-health" \in Attesters /\ NoOne # "ib-health"
  BY FileNames DEF Attesters, NoOne
<1>1. CASE UNCHANGED vars
  BY <1>1 DEF vars, flight, ProbeFirst, ProbePays, Settled
<1>2. ASSUME NEW f \in Files, ChainCascade(f)
      PROVE  ProbeFirst'
  <2>1. f = "ib-health" => "people" \in unhealthy
    BY <1>2 DEF ChainCascade, Asserts
  <2> QED
    BY <1>2, <2>1, ReportKeepsProbeFirst DEF ChainCascade
<1>3. ASSUME NEW f \in Files, StartFile(f)
      PROVE  ProbeFirst'
  <2>1. stage = "hook"
    BY <1>0, <1>3, FileNames DEF StartFile, Typed, AttesterBusy
  <2>2. "ib-health" \in queue \ {f} => f \notin Attesters
    BY <1>3, AttestersAfterProbe DEF StartFile, IsNext
  <2>3. /\ file = NoOne /\ file' = f /\ queue' = queue \ {f}
        /\ UNCHANGED <<script, stage, unhealthy, fixture, failure, payer>>
    BY <1>3 DEF StartFile, flight
  <2> QED
    BY <1>0, <2>1, <2>2, <2>3 DEF ProbeFirst, ProbePays, Settled
<1>4. ASSUME NEW f \in Files, OwnOutcome(f)
      PROVE  ProbeFirst'
  <2>1. f # "ib-health"
    BY <1>0, <1>4 DEF OwnOutcome, MayFailFirst
  <2> QED
    BY <1>4, <2>1, ReportKeepsProbeFirst DEF OwnOutcome
<1>5. ASSUME NEW f \in Files, FailFast(f)
      PROVE  ProbeFirst'
  BY <1>5, ReportKeepsProbeFirst DEF FailFast, Asking, Settled
<1>6. ASSUME NEW f \in Files, JoinInflight(f)
      PROVE  ProbeFirst'
  BY <1>6 DEF JoinInflight, flight, ProbeFirst, ProbePays, Settled
<1>7. ASSUME NEW f \in Files, ReuseCredentials(f)
      PROVE  ProbeFirst'
  BY <1>7 DEF ReuseCredentials, ProbeFirst, ProbePays, Settled
<1>8. ASSUME NEW f \in Files, BeginAttestation(f)
      PROVE  ProbeFirst'
  <2>1. "ib-health" \notin queue
    BY <1>8 DEF BeginAttestation, Asking, ProbeFirst
  <2>2. f = "ib-health" \/ "ib-health" \notin script \/ "people" \in unhealthy
    BY <1>8, <2>1 DEF BeginAttestation, Asking, ProbeFirst, Settled
  <2> QED
    BY <1>8, <2>1, <2>2 DEF BeginAttestation, ProbeFirst, ProbePays, Settled
<1>9. ASSUME NEW f \in Files, GiveUp(f) \/ UseLocation(f) \/ RestOfFile(f)
      PROVE  ProbeFirst'
  <2>1. file = f /\ stage # "hook"
    BY <1>9 DEF GiveUp, UseLocation, RestOfFile
  <2> QED
    BY <1>9, <2>1, ReportKeepsProbeFirst DEF GiveUp, UseLocation, RestOfFile
<1>10. CASE ProbeChains \/ ProbeRings \/ LocateInRing
  <2>1. file \in Files /\ file # "ib-health"
    BY <1>0, <1>10 DEF ProbeChains, ProbeRings, LocateInRing, Typed, TypeOK, NoOne
  <2> QED
    BY <1>10, <2>1, ReportKeepsProbeFirst DEF ProbeChains, ProbeRings, LocateInRing
<1>11. CASE Tick \/ Attested \/ Searchable
  BY <1>11 DEF Tick, Attested, Searchable, ProbeFirst, ProbePays, Settled
<1>12. CASE Reject
  <2>1. Settled' /\ UNCHANGED <<script, queue, unhealthy, payer>>
    BY <1>12 DEF Reject, Settled
  <2>2. file' = file \/ file' = NoOne
    BY <1>12 DEF Reject, Report
  <2> QED
    BY <1>0, <2>1, <2>2, FileNames DEF ProbeFirst, ProbePays
<1>13. CASE NextRun
  BY <1>0, <1>13, FileNames DEF NextRun, ProbeFirst, ProbePays
<1> QED
  BY <1>1, <1>2, <1>3, <1>4, <1>5, <1>6, <1>7, <1>8, <1>9, <1>10, <1>11, <1>12, <1>13,
     NextCases

\* With the Identity Backend probe in the run and People alive, no feature
\* suite pays for the attestation (ORDER, OrderedSequencer.sort).
THEOREM TheProbePays == Spec => []ProbePays
<1>1. ProbeFirst => ProbePays
  BY DEF ProbeFirst
<1> QED
  BY <1>1, TypeInit, TypeStep, ProbeFirstInit, ProbeFirstStep, PTL DEF Spec

(***************************************************************************)
(* The inclusion is waited for once: nobody waits before the probe, and    *)
(* nobody after it has cached a place.                                     *)
(***************************************************************************)
NoneBeforeProbe ==
  /\ "ring-inclusion" \in queue => waits = {} /\ file \notin Locators
  /\ file = "ring-inclusion" => waits = {}
  /\ InclusionWaitedOnce

LEMMA NoneBeforeProbeInit == Init => NoneBeforeProbe
<1>1. NoOne \notin Locators /\ NoOne # "ring-inclusion"
  BY FileNames DEF NoOne
<1> QED
  BY <1>1 DEF Init, NoneBeforeProbe, InclusionWaitedOnce

LEMMA NoneBeforeProbeStep ==
  ASSUME Typed, ProbedOnce, NoneBeforeProbe, [Next]_vars
  PROVE  NoneBeforeProbe'
<1> USE DEF NoneBeforeProbe, InclusionWaitedOnce
<1>0. NoOne \notin Locators /\ NoOne # "ring-inclusion"
  BY FileNames DEF NoOne
<1>1. CASE UNCHANGED vars
  BY <1>1 DEF vars, place
<1>2. ASSUME NEW f, NEW outcome, Report(f, outcome), queue' \subseteq queue, UNCHANGED place
      PROVE  NoneBeforeProbe'
  BY <1>0, <1>2 DEF Report, place
<1>3. ASSUME NEW f \in Files,
             ChainCascade(f) \/ OwnOutcome(f) \/ FailFast(f) \/ GiveUp(f) \/ RestOfFile(f)
      PROVE  NoneBeforeProbe'
  BY <1>2, <1>3 DEF ChainCascade, OwnOutcome, FailFast, GiveUp, RestOfFile
<1>4. CASE ProbeChains \/ ProbeRings
  BY <1>2, <1>4 DEF ProbeChains, ProbeRings
<1>5. ASSUME NEW f \in Files, UseLocation(f)
      PROVE  NoneBeforeProbe'
  <2>1. f \in Locators /\ file = f /\ "ring-inclusion" \notin queue /\ queue' = queue
    BY <1>5 DEF UseLocation
  <2>2. file' = NoOne
    BY <1>5 DEF UseLocation, Report
  <2>3. location' = location /\ (waits' = waits \/ location = "null")
    BY <1>5 DEF UseLocation
  <2> QED
    BY <1>0, <2>1, <2>2, <2>3
<1>6. CASE LocateInRing
  <2>1. waits' = {"ring-inclusion"} /\ queue' = queue
    BY <1>6 DEF LocateInRing
  <2>2. file' = NoOne
    BY <1>6 DEF LocateInRing, Report
  <2>3. "ring-inclusion" \notin queue
    BY <1>6 DEF LocateInRing, ProbedOnce
  <2> QED
    BY <1>0, <2>1, <2>2, <2>3
<1>7. ASSUME NEW f \in Files, StartFile(f)
      PROVE  NoneBeforeProbe'
  <2>1. "ring-inclusion" \in queue \ {f} => f \notin Locators
    BY <1>7, LocatorsAfterProbe DEF StartFile, IsNext
  <2> QED
    BY <1>7, <2>1 DEF StartFile, IsNext, place
<1>8. ASSUME NEW f \in Files, JoinInflight(f) \/ ReuseCredentials(f) \/ BeginAttestation(f)
      PROVE  NoneBeforeProbe'
  BY <1>8 DEF JoinInflight, ReuseCredentials, BeginAttestation, place
<1>9. CASE Tick \/ Attested \/ Searchable
  BY <1>9 DEF Tick, Attested, Searchable, place
<1>10. CASE Reject
  BY <1>0, <1>10 DEF Reject, Report, place
<1>11. CASE NextRun
  BY <1>0, <1>11 DEF NextRun
<1> QED
  BY <1>1, <1>3, <1>4, <1>5, <1>6, <1>7, <1>8, <1>9, <1>10, <1>11, NextCases

\* Once the probe has cached a place in the ring, the probe's was the only wait
\* of the run, and stays it (ring-cascade.ts, cacheRingLocation).
THEOREM OneWaitForInclusion == Spec => []InclusionWaitedOnce
<1>1. NoneBeforeProbe => InclusionWaitedOnce
  BY DEF NoneBeforeProbe
<1> QED
  BY <1>1, TypeInit, TypeStep, ProbedOnceInit, ProbedOnceStep, NoneBeforeProbeInit,
     NoneBeforeProbeStep, PTL DEF Spec
(***************************************************************************)
(* The fixture implements SharedPerson: the promise in flight, the failure *)
(* that is kept and the credentials file add up to one answer.             *)
(***************************************************************************)
\* Every step of a run gives the answer, uses it, ends the process, or is nothing
\* to the abstract fixture (attested-fixture.ts, ensureAttested).
THEOREM ImplementsPerson == Spec => PersonSpec
<1> DEFINE seen == <<run, Answer, credentials, handed>>
<1>1. Init => Fixture!Init
  BY DEF Init, Fixture!Init, Answer, InFlight
<1>2. ASSUME FileDecides, TypeOK, [Next]_vars PROVE [Fixture!Next]_seen
  <2>1. ASSUME UNCHANGED <<run, fixture, failure, disk>> PROVE UNCHANGED seen
    BY <2>1 DEF Answer, InFlight, disk
  <2>2. ASSUME NEW f \in Files, BeginAttestation(f) PROVE Fixture!Ask
    BY <2>2 DEF BeginAttestation, Fixture!Ask, Answer, InFlight, disk
  <2>3. ASSUME NEW f \in Files, ReuseCredentials(f) PROVE Fixture!Use
    BY <2>3 DEF ReuseCredentials, Fixture!Use, Answer, InFlight
  <2>4. ASSUME NEW f \in Files, JoinInflight(f) PROVE Fixture!Use \/ UNCHANGED seen
    <3>1. CASE fixture = "resolved"
      <4>1. credentials # NoAccount
        BY <1>2, <3>1 DEF FileDecides
      <4> QED
        BY <2>4, <3>1, <4>1 DEF JoinInflight, Fixture!Use, Answer, InFlight, flight
    <3>2. CASE fixture # "resolved"
      BY <2>1, <2>4, <3>2 DEF JoinInflight, flight, disk
    <3> QED
      BY <3>1, <3>2
  <2>5. CASE Searchable
    <3>1. credentials = NoAccount /\ run \in Nat \ {0}
      BY <1>2, <2>5 DEF Searchable, FileDecides, InFlight
    <3>2. credentials' = <<run, attempts>> /\ credentials' \in Account \ {NoAccount}
      BY <1>2, <2>5, <3>1 DEF Searchable, TypeOK, Account, NoAccount
    <3>3. Answer = "asked" /\ Answer' = "given"
      BY <2>5 DEF Searchable, Answer, InFlight
    <3>4. handed' \in {handed, handed \cup {credentials'}} /\ run' = run
      BY <2>5 DEF Searchable
    <3> QED
      BY <3>1, <3>2, <3>3, <3>4 DEF Fixture!Next, Fixture!Succeed
  <2>6. CASE Reject
    <3>1. InFlight /\ fixture' = "null" /\ failure' \in {"tagged", "untagged"}
      BY <2>6 DEF Reject
    <3>2. UNCHANGED <<run, disk>>
      BY <2>6 DEF Reject
    <3> QED
      BY <3>1, <3>2 DEF Fixture!Next, Fixture!Fail, Answer, InFlight, disk
  <2>7. CASE NextRun
    <3>1. Answer' = "open"
      BY <2>7 DEF NextRun, Answer, InFlight
    <3> QED
      BY <2>7, <3>1 DEF NextRun, Fixture!Next, Fixture!Exit, disk
  <2>8. CASE Tick \/ Attested
    BY <2>8 DEF Tick, Attested, Answer, InFlight, disk
  <2>9. ASSUME NEW f \in Files,
               \/ ChainCascade(f) \/ StartFile(f) \/ OwnOutcome(f) \/ FailFast(f)
               \/ GiveUp(f) \/ UseLocation(f) \/ RestOfFile(f)
        PROVE  UNCHANGED seen
    BY <2>1, <2>9 DEF ChainCascade, StartFile, OwnOutcome, FailFast, GiveUp, UseLocation,
       RestOfFile, flight
  <2>10. CASE ProbeChains \/ ProbeRings \/ LocateInRing
    BY <2>1, <2>10 DEF ProbeChains, ProbeRings, LocateInRing, flight
  <2>11. CASE UNCHANGED vars
    BY <2>1, <2>11 DEF vars, flight
  <2> QED
    BY <1>2, <2>2, <2>3, <2>4, <2>5, <2>6, <2>7, <2>8, <2>9, <2>10, <2>11, NextCases
    DEF Fixture!Next
<1>3. FileDecides /\ TypeOK /\ [Next]_vars => [Fixture!Next]_seen
  BY <1>2
<1> QED
  BY <1>1, <1>3, FileDecidesInit, FileDecidesStep, TypeCorrect, PTL
  DEF Spec, PersonSpec, Fixture!Spec
(***************************************************************************)
(* A People chain marked unhealthy: which files can attest on it.          *)
(***************************************************************************)
LEMMA ChainHealthPriority == Priority("chain-health") = 1
<1>1. ASSUME NEW i \in 1 .. 13, Order[i] = "chain-health" PROVE i = 1
  BY <1>1, OrderIs
<1>2. PositionIn(Order, "chain-health") = 1
  BY <1>1, OrderIs, PositionFound
<1> QED
  BY <1>2, OrderIs DEF Priority

LEMMA AttestersAfterChains ==
  ASSUME NEW f \in Attesters
  PROVE  ~ RunsBefore(f, "chain-health")
<1>1. \A i \in 1 .. 1 : Order[i] # f
  BY OrderIs DEF Attesters, InTest
<1>2. Priority(f) \in Nat /\ Priority(f) > 1
  BY <1>1, LaterPriority
<1> QED
  BY <1>2, ChainHealthPriority DEF RunsBefore

Careless == {"pop-gate", "hop"}

\* The attesters that do not assert People.
LEMMA CarelessFiles ==
  ASSUME NEW f \in Attesters, "people" \notin Asserts(f) PROVE f \in Careless
  BY DEF Attesters, InTest, Asserts, Careless

OnlyCareless == attempts > 0 /\ "people" \in unhealthy => payer \in Careless

\* The marks are made before any file attests, and hold back who asserts People.
MarkedFirst ==
  /\ "chain-health" \in queue => attempts = 0 /\ file \notin Attesters
  /\ file = "chain-health" => attempts = 0
  /\ file \in Attesters /\ "people" \in unhealthy => "people" \notin Asserts(file)
  /\ OnlyCareless

LEMMA MarkedFirstInit == Init => MarkedFirst
  BY FileNames DEF Init, MarkedFirst, OnlyCareless, NoOne

LEMMA MarkedFirstStep ==
  ASSUME Typed, MarkedFirst, [Next]_vars
  PROVE  MarkedFirst'
<1> USE DEF MarkedFirst, OnlyCareless
<1>0. NoOne \notin Attesters /\ NoOne # "chain-health" /\ "chain-health" \notin Attesters
      /\ attempts \in Nat
  BY FileNames DEF NoOne, Attesters, InTest, Typed, TypeOK
<1>1. CASE UNCHANGED vars
  BY <1>1 DEF vars, flight
<1>2. ASSUME NEW f, NEW outcome, Report(f, outcome), queue' \subseteq queue,
             UNCHANGED <<attempts, payer>>,
             "people" \in unhealthy' => "people" \in unhealthy \/ attempts = 0
      PROVE  MarkedFirst'
  BY <1>0, <1>2 DEF Report
<1>3. ASSUME NEW f \in Files,
             \/ ChainCascade(f) \/ OwnOutcome(f) \/ FailFast(f) \/ GiveUp(f)
             \/ UseLocation(f) \/ RestOfFile(f)
      PROVE  MarkedFirst'
  BY <1>2, <1>3 DEF ChainCascade, OwnOutcome, FailFast, GiveUp, UseLocation, RestOfFile, flight
<1>4. CASE ProbeChains
  BY <1>2, <1>4 DEF ProbeChains, flight
<1>5. CASE ProbeRings \/ LocateInRing
  BY <1>2, <1>5 DEF ProbeRings, LocateInRing, flight
<1>6. ASSUME NEW f \in Files, StartFile(f)
      PROVE  MarkedFirst'
  <2>1. "chain-health" \in queue \ {f} => f \notin Attesters
    BY <1>6, AttestersAfterChains DEF StartFile, IsNext
  <2>2. /\ file' = f /\ queue' = queue \ {f} /\ f \in queue
        /\ Asserts(f) \cap unhealthy = {} /\ UNCHANGED <<attempts, payer, unhealthy>>
    BY <1>6 DEF StartFile, IsNext, flight
  <2> QED
    BY <2>1, <2>2
<1>7. ASSUME NEW f \in Files, JoinInflight(f) \/ ReuseCredentials(f)
      PROVE  MarkedFirst'
  BY <1>7 DEF JoinInflight, ReuseCredentials, flight
<1>8. ASSUME NEW f \in Files, BeginAttestation(f)
      PROVE  MarkedFirst'
  <2>1. /\ file = f /\ f \in Attesters /\ payer' = f
        /\ UNCHANGED <<queue, file, unhealthy>>
    BY <1>8 DEF BeginAttestation, Asking
  <2>2. "people" \in unhealthy => f \in Careless
    BY <2>1, CarelessFiles
  <2> QED
    BY <1>0, <2>1, <2>2
<1>9. CASE Tick \/ Attested \/ Searchable
  BY <1>9 DEF Tick, Attested, Searchable
<1>10. CASE Reject
  <2>1. file' = file \/ file' = NoOne
    BY <1>10 DEF Reject, Report
  <2>2. UNCHANGED <<queue, unhealthy, attempts, payer>>
    BY <1>10 DEF Reject
  <2> QED
    BY <1>0, <2>1, <2>2
<1>11. CASE NextRun
  BY <1>0, <1>11 DEF NextRun
<1> QED
  BY <1>1, <1>3, <1>4, <1>5, <1>6, <1>7, <1>8, <1>9, <1>10, <1>11, NextCases

\* How far NoAttestationOnDeadPeople is from true: once People is marked, the
\* attestation of the run is paid by one of the two files that do not assert it
\* (pop-gate.test.ts, hop-submit-and-claim.test.ts) or there is none.
THEOREM DeadPeopleByTwoFiles == Spec => []OnlyCareless
<1>1. MarkedFirst => OnlyCareless
  BY DEF MarkedFirst
<1> QED
  BY <1>1, TypeInit, TypeStep, MarkedFirstInit, MarkedFirstStep, PTL DEF Spec
=============================================================================
