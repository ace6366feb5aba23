-------------------------- MODULE ProofClaim_proofs --------------------------
(***************************************************************************)
(* Theorems about ProofClaim, for every grace of People, every window of   *)
(* Asset Hub, every deadline and any number of rebuilds.                   *)
(***************************************************************************)
EXTENDS ProofClaim, TLAPS

\* The ring's revision counts the rebuilds since the claim began, and Asset Hub
\* has no revision that People has not.
Counted == moved = revision - 1 /\ \A k \in roots : k <= revision

\* While the ring is not rebuilt, the alias proves the revision it waited for
\* and Asset Hub keeps it.
AliasCurrent ==
  kind = "alias" /\ moved = 0 =>
    /\ bad = 0
    /\ pc \in {"mirror", "submit", "watch"} => snap = revision
    /\ pc \in {"snapshot", "submit", "watch"} => revision \in roots

\* Each proof of the storage claim that was rejected had seen Grace + 1 rebuilds
\* of its own: they were over before the next snapshot was taken.
LtsCounted ==
  kind = "lts" =>
    /\ moved >= bad * (Grace + 1)
    /\ pc \in {"submit", "watch"} => snap - 1 >= bad * (Grace + 1)

IInv == TypeOK /\ Counted /\ AliasCurrent /\ LtsCounted

-----------------------------------------------------------------------------
LEMMA InitInv == ASSUME ConstantsAssumption, Init PROVE IInv /\ PgasWithinDeadline
<1> USE ConstantsAssumption DEF ConstantsAssumption
<1>1. TypeOK
  BY DEF Init, TypeOK
<1>2. Counted /\ AliasCurrent
  BY DEF Init, Counted, AliasCurrent
<1>3. 0 * (Grace + 1) = 0
  OBVIOUS
<1>4. LtsCounted /\ PgasWithinDeadline
  BY <1>3 DEF Init, LtsCounted, PgasWithinDeadline
<1> QED
  BY <1>1, <1>2, <1>4 DEF IInv

\* The attempt at hand as a transaction.
LEMMA MineTyped == ASSUME TypeOK PROVE Mine \in Tx
  BY DEF TypeOK, Mine, Tx, MAX_PROOF_ATTEMPTS

\* A failed attempt leaves the claim between attempts or at its end, and
\* counts a rejected proof.
LEMMA CaughtEffect ==
  ASSUME TypeOK, NEW e, Caught(e)
  PROVE  /\ pc' \in {"snapshot", "failed"} /\ attempt' \in 1 .. 3
         /\ bad' \in Nat /\ (e # "BadProof" => bad' = bad)
         /\ (e = "BadProof" => bad' = bad + 1)
  BY DEF TypeOK, Caught, Goto, MAX_PROOF_ATTEMPTS

-----------------------------------------------------------------------------
LEMMA TypeStep ==
  ASSUME ConstantsAssumption, TypeOK, [Next]_vars PROVE TypeOK'
<1> USE ConstantsAssumption DEF ConstantsAssumption, TypeOK, Goto
<1>1. CASE Rebuild
  BY <1>1 DEF Rebuild, effects, claim
<1>2. CASE Import
  <2>1. PICK r \in 1 .. revision : roots' \subseteq roots \cup {r}
    BY <1>2 DEF Import
  <2>2. UNCHANGED <<revision, period, effects, claim, history>>
    BY <1>2 DEF Import
  <2> QED
    BY <2>1, <2>2 DEF effects, claim, history
<1>3. CASE NextPeriod
  BY <1>3 DEF NextPeriod, effects, claim, history
<1>4. CASE AwaitMirror
  BY <1>4 DEF AwaitMirror, chains, effects, history
<1>5. CASE Mirrored
  BY <1>5 DEF Mirrored, chains, effects, history
<1>6. CASE ReadPeriod
  BY <1>6 DEF ReadPeriod, chains, effects, history
<1>7. CASE takeSnapshot
  BY <1>7 DEF takeSnapshot, chains, effects, history
<1>8. CASE createAndSubmit
  <2>1. PICK e : (UNCHANGED <<attempt, err, bad>> /\ Goto("watch")) \/ Caught(e)
    BY <1>8 DEF createAndSubmit
  <2>2. pc' \in {"watch", "snapshot", "failed"} /\ attempt' \in 1 .. 3 /\ bad' \in Nat
    BY <2>1, CaughtEffect
  <2>3. pool' = pool \/ pool' = pool \cup {Mine}
    BY <1>8 DEF createAndSubmit
  <2> QED
    BY <1>8, <2>2, <2>3, MineTyped DEF createAndSubmit, chains
<1>9. CASE Included
  <2>1. PICK tx \in pool : Finalized(tx) \/ DispatchFails(tx) \/ Invalidated(tx)
    BY <1>9 DEF Included
  <2>2. CASE Finalized(tx)
    BY <2>2 DEF Finalized, chains, history
  <2>3. CASE DispatchFails(tx)
    <3>1. PICK e : (UNCHANGED <<attempt, bad>> /\ pc' \in {pc, "notOk"}) \/ Caught(e)
      BY <2>3 DEF DispatchFails
    <3>2. pc' \in {pc, "notOk", "snapshot", "failed"} /\ attempt' \in 1 .. 3 /\ bad' \in Nat
      BY <3>1, CaughtEffect
    <3> QED
      BY <2>3, <3>2 DEF DispatchFails, chains
  <2>4. CASE Invalidated(tx)
    <3>1. PICK e : UNCHANGED <<pc, attempt, bad>> \/ Caught(e)
      BY <2>4 DEF Invalidated
    <3>2. pc' \in {pc, "snapshot", "failed"} /\ attempt' \in 1 .. 3 /\ bad' \in Nat
      BY <3>1, CaughtEffect
    <3> QED
      BY <2>4, <3>2 DEF Invalidated, chains
  <2> QED
    BY <2>1, <2>2, <2>3, <2>4
<1>10. CASE StreamFails
  <2>1. PICK e : Caught(e)
    BY <1>10 DEF StreamFails
  <2> QED
    BY <1>10, <2>1, CaughtEffect DEF StreamFails, chains, effects
<1>11. CASE StreamEnds
  BY <1>11 DEF StreamEnds, chains, effects, history
<1>12. CASE claimPgas
  BY <1>12 DEF claimPgas, RunCli, chains, effects, history
<1>13. CASE CliWorks
  BY <1>13 DEF CliWorks, chains, effects, history
<1>14. CASE CliSucceeds
  BY <1>14 DEF CliSucceeds, chains, effects, history
<1>15. CASE CliFails
  BY <1>15 DEF CliFails, RunCli, PGAS_ATTEMPTS, chains, effects, history
<1>16. CASE UNCHANGED vars
  BY <1>16 DEF vars, chains, effects, claim, history
<1> QED
  BY <1>1, <1>2, <1>3, <1>4, <1>5, <1>6, <1>7, <1>8, <1>9, <1>10, <1>11, <1>12,
     <1>13, <1>14, <1>15, <1>16 DEF Next, ClaimStep

-----------------------------------------------------------------------------
\* Between the snapshot and the outcome, only the rebuilds move the ring on:
\* what each step of a claim leaves alone.
LEMMA ClaimKeepsChains == ASSUME ClaimStep PROVE UNCHANGED <<chains, kind, moved>>
  BY DEF ClaimStep, AwaitMirror, Mirrored, ReadPeriod, takeSnapshot, createAndSubmit,
         Included, Finalized, DispatchFails, Invalidated, StreamFails, StreamEnds,
         claimPgas, CliWorks, CliSucceeds, CliFails, history

LEMMA CountedStep == ASSUME TypeOK, Counted, [Next]_vars PROVE Counted'
<1> USE DEF TypeOK, Counted
<1>1. CASE Rebuild
  BY <1>1 DEF Rebuild
<1>2. CASE Import
  <2>1. PICK r \in 1 .. revision : roots' \subseteq roots \cup {r}
    BY <1>2 DEF Import
  <2> QED
    BY <1>2, <2>1 DEF Import, history
<1>3. CASE NextPeriod
  BY <1>3 DEF NextPeriod, history
<1>4. CASE ClaimStep
  BY <1>4, ClaimKeepsChains DEF chains
<1>5. CASE UNCHANGED vars
  BY <1>5 DEF vars, chains, history
<1> QED
  BY <1>1, <1>2, <1>3, <1>4, <1>5 DEF Next

\* A step that can count a rejected proof is that of an attempt on the way,
\* whose proof the chain objects to.
LEMMA BadCounted ==
  ASSUME TypeOK, ClaimStep, bad' # bad
  PROVE  /\ pc \in {"submit", "watch"} /\ snap' = snap
         /\ "BadProof" \in Objections(Mine)
         /\ bad' = bad + 1 /\ pc' \in {"snapshot", "failed"}
<1>1. createAndSubmit \/ Included \/ StreamFails
  BY DEF ClaimStep, AwaitMirror, Mirrored, ReadPeriod, takeSnapshot, StreamEnds,
         claimPgas, CliWorks, CliSucceeds, CliFails, history
<1>2. CASE createAndSubmit
  <2>1. PICK e \in Objections(Mine) : Caught(e)
    BY <1>2 DEF createAndSubmit
  <2> QED
    BY <1>2, <2>1, CaughtEffect DEF createAndSubmit
<1>3. CASE StreamFails
  <2>1. PICK e \in Lost : Caught(e)
    BY <1>3 DEF StreamFails
  <2> QED
    BY <2>1, CaughtEffect DEF Lost
<1>4. CASE Included
  <2>1. PICK tx \in pool : DispatchFails(tx) \/ Invalidated(tx)
    BY <1>4 DEF Included, Finalized, history
  <2>2. CASE DispatchFails(tx)
    <3>1. PICK e \in {"Stale", "Custom"} : Caught(e)
      BY <2>2 DEF DispatchFails
    <3> QED
      BY <3>1, CaughtEffect
  <2>3. CASE Invalidated(tx)
    <3>1. pc = "watch" /\ tx = Mine
      BY <2>3 DEF Invalidated, Watched
    <3>2. PICK e \in Objections(Mine) : Caught(e)
      BY <2>3, <3>1 DEF Invalidated, Watched
    <3> QED
      BY <2>3, <3>1, <3>2, CaughtEffect DEF Invalidated
  <2> QED
    BY <2>1, <2>2, <2>3
<1> QED
  BY <1>1, <1>2, <1>3, <1>4

\* Where a claim's step that counts nothing may lead, and from where.
LEMMA QuietStep ==
  ASSUME TypeOK, ClaimStep, bad' = bad
  PROVE  \/ pc = "start" /\ pc' = "mirror" /\ snap' = revision
         \/ pc = "start" /\ pc' = "snapshot" /\ snap' = snap /\ kind = "lts"
         \/ pc = "mirror" /\ pc' = "snapshot" /\ snap' = snap /\ snap \in roots
         \/ pc = "snapshot" /\ pc' = "submit" /\ snap' = revision
         \/ pc = "submit" /\ pc' = "watch" /\ snap' = snap
         \/ pc \in {"submit", "watch"} /\ pc' = "snapshot" /\ snap' = snap
         \/ pc' = pc /\ snap' = snap
         \/ pc' \in {"cli", "ok", "notOk", "failed", "hung"} /\ snap' = snap
<1> USE DEF Goto
<1>1. CASE AwaitMirror
  BY <1>1 DEF AwaitMirror
<1>2. CASE Mirrored
  BY <1>2 DEF Mirrored
<1>3. CASE ReadPeriod
  BY <1>3 DEF ReadPeriod
<1>4. CASE takeSnapshot
  BY <1>4 DEF takeSnapshot
<1>5. CASE createAndSubmit
  <2>1. PICK e : pc' = "watch" \/ Caught(e)
    BY <1>5 DEF createAndSubmit
  <2> QED
    BY <1>5, <2>1, CaughtEffect DEF createAndSubmit
<1>6. CASE Included
  <2>1. PICK tx \in pool : Finalized(tx) \/ DispatchFails(tx) \/ Invalidated(tx)
    BY <1>6 DEF Included
  <2>2. CASE Finalized(tx)
    BY <2>2 DEF Finalized
  <2>3. CASE DispatchFails(tx)
    <3>1. PICK e : pc' = pc \/ pc' = "notOk" \/ (pc = "watch" /\ Caught(e))
      BY <2>3 DEF DispatchFails, Watched
    <3> QED
      BY <2>3, <3>1, CaughtEffect DEF DispatchFails
  <2>4. CASE Invalidated(tx)
    <3>1. PICK e : pc' = pc \/ (pc = "watch" /\ Caught(e))
      BY <2>4 DEF Invalidated, Watched
    <3> QED
      BY <2>4, <3>1, CaughtEffect DEF Invalidated
  <2> QED
    BY <2>1, <2>2, <2>3, <2>4
<1>7. CASE StreamFails
  <2>1. PICK e : Caught(e)
    BY <1>7 DEF StreamFails
  <2> QED
    BY <1>7, <2>1, CaughtEffect DEF StreamFails
<1>8. CASE StreamEnds \/ CliWorks \/ CliSucceeds
  BY <1>8 DEF StreamEnds, CliWorks, CliSucceeds
<1>9. CASE claimPgas \/ CliFails
  BY <1>9 DEF claimPgas, CliFails, RunCli
<1> QED
  BY <1>1, <1>2, <1>3, <1>4, <1>5, <1>6, <1>7, <1>8, <1>9 DEF ClaimStep

-----------------------------------------------------------------------------
LEMMA AliasStep ==
  ASSUME TypeOK, Counted, AliasCurrent, [Next]_vars PROVE AliasCurrent'
<1> USE DEF TypeOK, AliasCurrent
<1>1. CASE Rebuild
  BY <1>1 DEF Rebuild
\* With the newest revision in the window there is nothing to import.
<1>2. CASE Import
  <2>1. UNCHANGED <<revision, kind, pc, snap, moved, bad>>
    BY <1>2 DEF Import, claim, history
  <2>2. revision \notin roots
    BY <1>2 DEF Import
  <2> QED
    BY <2>1, <2>2
<1>3. CASE NextPeriod
  BY <1>3 DEF NextPeriod, claim, history
<1>4. CASE ClaimStep
  <2>1. UNCHANGED <<revision, roots, kind, moved>>
    BY <1>4, ClaimKeepsChains DEF chains
  <2>2. CASE bad' # bad
    <3>1. pc \in {"submit", "watch"} /\ "BadProof" \in Objections(Mine)
      BY <1>4, <2>2, BadCounted
    <3>2. ~(kind = "alias" /\ moved = 0)
      BY <3>1 DEF Objections, Mine
    <3> QED
      BY <2>1, <3>2
  <2>3. CASE bad' = bad
    BY <1>4, <2>1, <2>3, QuietStep
  <2> QED
    BY <2>2, <2>3
<1>5. CASE UNCHANGED vars
  BY <1>5 DEF vars, chains, claim, history
<1> QED
  BY <1>1, <1>2, <1>3, <1>4, <1>5 DEF Next

LEMMA LtsStep ==
  ASSUME ConstantsAssumption, TypeOK, Counted, LtsCounted, [Next]_vars
  PROVE  LtsCounted'
<1> DEFINE spent == bad * (Grace + 1)
<1>0. Grace \in Nat /\ bad \in Nat /\ spent \in Nat /\ moved \in Nat /\ snap \in Nat
  BY DEF ConstantsAssumption, TypeOK
<1>1. CASE UNCHANGED <<bad, kind, pc, snap>> /\ moved' \in {moved, moved + 1}
  <2>1. moved' >= moved /\ spent' = spent
    BY <1>0, <1>1
  <2> HIDE DEF spent
  <2>2. kind = "lts" => moved >= spent /\ (pc \in {"submit", "watch"} => snap - 1 >= spent)
    BY DEF LtsCounted, spent
  <2>3. kind' = "lts" => moved' >= spent' /\ (pc' \in {"submit", "watch"} => snap' - 1 >= spent')
    BY <1>0, <1>1, <2>1, <2>2
  <2> QED
    BY <2>3 DEF LtsCounted, spent
<1>2. CASE ClaimStep
  <2>1. UNCHANGED <<revision, roots, kind, moved>>
    BY <1>2, ClaimKeepsChains DEF chains
  <2>2. CASE bad' # bad
    <3>1. /\ pc \in {"submit", "watch"} /\ "BadProof" \in Objections(Mine)
          /\ bad' = bad + 1 /\ pc' \in {"snapshot", "failed"}
      BY <1>2, <2>2, BadCounted
    <3>2. (bad + 1) * (Grace + 1) = spent + Grace + 1
      BY <1>0
    <3>3. kind = "lts" => snap + Grace < revision /\ snap - 1 >= spent
      BY <3>1 DEF Objections, Mine, LtsCounted
    <3> HIDE DEF spent
    <3>4. kind = "lts" => moved >= spent + Grace + 1
      BY <1>0, <3>3 DEF Counted, TypeOK
    <3>5. kind' = "lts" => moved' >= bad' * (Grace + 1)
      BY <2>1, <3>1, <3>2, <3>4
    <3> QED
      BY <3>1, <3>5 DEF LtsCounted
  <2>3. CASE bad' = bad
    <3>1. kind = "lts" => moved >= spent /\ (pc \in {"submit", "watch"} => snap - 1 >= spent)
      BY DEF LtsCounted
    <3>2. spent' = spent
      BY <2>3
    <3> HIDE DEF spent
    <3>3. pc' \in {"submit", "watch"} =>
            \/ pc \in {"submit", "watch"} /\ snap' = snap
            \/ snap' = revision
      BY <1>2, <2>3, QuietStep
    <3>4. kind' = "lts" => moved' >= spent' /\ (pc' \in {"submit", "watch"} => snap' - 1 >= spent')
      BY <1>0, <2>1, <3>1, <3>2, <3>3 DEF Counted
    <3> QED
      BY <3>4 DEF LtsCounted, spent
  <2> QED
    BY <2>2, <2>3
<1>3. CASE Rebuild \/ Import \/ NextPeriod \/ UNCHANGED vars
  BY <1>1, <1>3 DEF Rebuild, Import, NextPeriod, vars, claim, history
<1> QED
  BY <1>2, <1>3 DEF Next

LEMMA StepInv == ASSUME ConstantsAssumption, IInv, [Next]_vars PROVE IInv'
  BY TypeStep, CountedStep, AliasStep, LtsStep DEF IInv

LEMMA Invariance == Spec => []IInv
<1> USE ConstantsAssumption
<1>1. Init => IInv
  BY InitInv
<1>2. IInv /\ [Next]_vars => IInv'
  BY StepInv
<1> QED
  BY <1>1, <1>2, PTL DEF Spec

-----------------------------------------------------------------------------
\* Type correctness of the claim loops of alias-claim.ts, lts-claim.ts and
\* truapi-host.ts: no loop goes beyond its three attempts.
THEOREM TypeCorrect == Spec => []TypeOK
  BY Invariance, PTL DEF IInv

\* A claim's proof is rejected only after the ring was rebuilt: at least once
\* since the alias began, and Grace + 1 times for every rejection of the
\* storage claim, so that three rejections mean a ring that never stands still.
THEOREM RejectionsAreRebuilds == Spec => []BadProofIsARebuild
<1>1. IInv => BadProofIsARebuild
  BY DEF IInv, TypeOK, AliasCurrent, LtsCounted, BadProofIsARebuild
<1> QED
  BY <1>1, Invariance, PTL

\* After a rejection there is no proof of an older root than the only rebuild's.
FreshAfterBad ==
  kind = "alias" /\ bad > 0 /\ moved = 1 /\ pc \in {"submit", "watch"} => snap = revision

LEMMA FreshStep ==
  ASSUME IInv, FreshAfterBad, [Next]_vars PROVE FreshAfterBad'
<1> USE DEF FreshAfterBad
<1>0. TypeOK /\ Counted /\ (kind = "alias" /\ moved = 0 => bad = 0)
  BY DEF IInv, AliasCurrent
<1>1. CASE Rebuild
  BY <1>0, <1>1 DEF Rebuild, claim, TypeOK
<1>2. CASE ClaimStep
  <2>1. UNCHANGED <<revision, kind, moved>>
    BY <1>2, ClaimKeepsChains DEF chains
  <2>2. CASE bad' # bad
    BY <1>0, <1>2, <2>2, BadCounted
  <2>3. CASE bad' = bad
    BY <1>0, <1>2, <2>1, <2>3, QuietStep
  <2> QED
    BY <2>2, <2>3
<1>3. CASE Import \/ NextPeriod \/ UNCHANGED vars
  BY <1>3 DEF Import, NextPeriod, vars, chains, claim, history
<1> QED
  BY <1>1, <1>2, <1>3 DEF Next

\* What keeps OneRebuildSurvived from holding, and all that does: when the ring
\* was rebuilt once, an alias proof that is rejected after another one was is
\* rejected because Asset Hub has not imported the rebuilt root (alias-claim.ts).
RejectedAgain ==
  kind = "alias" /\ moved = 1 /\ bad > 0 /\ bad' # bad => revision \notin roots

THEOREM OneRebuildNeedsTheMirror == Spec => [][RejectedAgain]_vars
<1>1. Init => FreshAfterBad
  BY DEF Init, FreshAfterBad
<1>2. IInv /\ FreshAfterBad /\ [Next]_vars => FreshAfterBad'
  BY FreshStep
<1>3. ASSUME IInv, FreshAfterBad, [Next]_vars PROVE RejectedAgain
  <2>1. CASE ClaimStep
    <3>1. bad' # bad => pc \in {"submit", "watch"} /\ "BadProof" \in Objections(Mine)
      BY <1>3, <2>1, BadCounted DEF IInv
    <3> QED
      BY <1>3, <3>1 DEF RejectedAgain, FreshAfterBad, Objections, Mine
  <2>2. CASE Rebuild \/ Import \/ NextPeriod \/ UNCHANGED vars
    BY <2>2 DEF Rebuild, Import, NextPeriod, vars, history, RejectedAgain
  <2> QED
    BY <1>3, <2>1, <2>2 DEF Next
<1>4. IInv /\ FreshAfterBad /\ [Next]_vars => [RejectedAgain]_vars
  BY <1>3
<1> QED
  BY <1>1, <1>2, <1>4, Invariance, PTL DEF Spec

\* The runs of the CLI share one deadline: none is given more than is left.
THEOREM PgasKeepsItsDeadline == Spec => []PgasWithinDeadline
<1> USE ConstantsAssumption DEF ConstantsAssumption
<1>1. Init => PgasWithinDeadline
  BY InitInv
<1>2. IInv /\ PgasWithinDeadline /\ [Next]_vars => PgasWithinDeadline'
  <2> SUFFICES ASSUME IInv, PgasWithinDeadline, [Next]_vars
               PROVE  PgasWithinDeadline'
    OBVIOUS
  <2> USE DEF PgasWithinDeadline, Goto
  <2>1. left \in Int /\ limit \in Nat
    BY DEF IInv, TypeOK
  <2>2. CASE claimPgas \/ CliFails
    BY <2>1, <2>2 DEF claimPgas, CliFails, RunCli
  <2>3. CASE CliWorks
    BY <2>1, <2>3 DEF CliWorks
  <2>4. CASE CliSucceeds \/ AwaitMirror \/ Mirrored \/ ReadPeriod \/ takeSnapshot \/ StreamEnds
    BY <2>4 DEF CliSucceeds, AwaitMirror, Mirrored, ReadPeriod, takeSnapshot, StreamEnds
  <2>5. CASE createAndSubmit \/ Included \/ StreamFails
    <3>1. UNCHANGED <<left, limit>>
      BY <2>5 DEF createAndSubmit, Included, Finalized, DispatchFails, Invalidated, StreamFails
    <3>2. pc' = "cli" => pc = "cli"
      <4>1. TypeOK
        BY DEF IInv
      <4>2. PICK e : pc' = pc \/ pc' \in {"watch", "ok", "notOk"} \/ Caught(e)
        BY <2>5 DEF createAndSubmit, Included, Finalized, DispatchFails, Invalidated, StreamFails
      <4> QED
        BY <4>1, <4>2, CaughtEffect
    <3> QED
      BY <3>1, <3>2
  <2>6. CASE Rebuild \/ Import \/ NextPeriod \/ UNCHANGED vars
    BY <2>6 DEF Rebuild, Import, NextPeriod, vars, claim
  <2> QED
    BY <2>2, <2>3, <2>4, <2>5, <2>6 DEF Next, ClaimStep
<1> QED
  BY <1>1, <1>2, Invariance, PTL DEF Spec
-----------------------------------------------------------------------------
(***************************************************************************)
(* How much work a claim can be, and what it leaves on the chain.          *)
(***************************************************************************)
\* The work done: five steps to an attempt, and the time the CLI has used.
StepNo ==
  [start |-> 0, mirror |-> 1, cli |-> 1, snapshot |-> 2, submit |-> 3, watch |-> 4,
   ok |-> 5, notOk |-> 5, failed |-> 5, hung |-> 5]
Work == 5 * attempt + StepNo[pc] + (Deadline - left)

WorkGrows == claim' # claim => Work' > Work /\ ~Ended

Timed == left \in 0 .. Deadline /\ (pc = "start" => attempt = 1)

LEMMA TimedStep ==
  ASSUME IInv, PgasWithinDeadline, Timed, [Next]_vars PROVE Timed'
<1> USE ConstantsAssumption DEF ConstantsAssumption, Timed, Goto
<1>1. CASE CliWorks
  BY <1>1 DEF CliWorks, PgasWithinDeadline, IInv, TypeOK
<1>2. CASE createAndSubmit \/ Included \/ StreamFails
  <2>1. PICK e : UNCHANGED <<pc, attempt>> \/ pc' \in {"watch", "ok", "notOk"} \/ Caught(e)
    BY <1>2 DEF createAndSubmit, Included, Finalized, DispatchFails, Invalidated, StreamFails
  <2>2. (pc' = pc /\ attempt' = attempt) \/ pc' # "start"
    BY <2>1, CaughtEffect DEF IInv
  <2>3. left' = left
    BY <1>2 DEF createAndSubmit, Included, Finalized, DispatchFails, Invalidated, StreamFails
  <2> QED
    BY <2>2, <2>3
<1>3. CASE claimPgas \/ CliFails
  BY <1>3 DEF claimPgas, CliFails, RunCli
<1>4. CASE CliSucceeds \/ AwaitMirror \/ Mirrored \/ ReadPeriod \/ takeSnapshot \/ StreamEnds
  BY <1>4 DEF CliSucceeds, AwaitMirror, Mirrored, ReadPeriod, takeSnapshot, StreamEnds
<1>5. CASE Rebuild \/ Import \/ NextPeriod \/ UNCHANGED vars
  BY <1>5 DEF Rebuild, Import, NextPeriod, vars, claim
<1> QED
  BY <1>1, <1>2, <1>3, <1>4, <1>5 DEF Next, ClaimStep

\* A failed attempt moves the claim on.
LEMMA CaughtWorks ==
  ASSUME TypeOK, pc \in {"submit", "watch"}, NEW e, Caught(e), UNCHANGED left PROVE Work' > Work
<1>1. attempt \in Int /\ StepNo[pc] \in {3, 4}
  BY DEF TypeOK, StepNo
<1>2. \/ attempt' = attempt + 1 /\ StepNo[pc'] = 2
      \/ attempt' = attempt /\ StepNo[pc'] = 5
  BY DEF Caught, Goto, StepNo
<1>3. Deadline - left' = Deadline - left /\ Deadline - left \in Int
  BY ConstantsAssumption DEF ConstantsAssumption, TypeOK
<1> HIDE DEF StepNo
<1> QED
  BY <1>1, <1>2, <1>3 DEF Work

LEMMA WorkStep == ASSUME IInv, Timed, [Next]_vars PROVE WorkGrows
<1> USE ConstantsAssumption DEF ConstantsAssumption
<1>0. TypeOK /\ attempt \in Int /\ left \in Int /\ Deadline \in Int
  BY DEF IInv, TypeOK
<1>1. CASE AwaitMirror \/ Mirrored \/ ReadPeriod \/ takeSnapshot
  BY <1>0, <1>1 DEF AwaitMirror, Mirrored, ReadPeriod, takeSnapshot, Goto, Work, StepNo,
     WorkGrows, Ended
<1>2. CASE createAndSubmit
  <2>1. CASE attempt' = attempt /\ Goto("watch")
    BY <1>0, <1>2, <2>1 DEF createAndSubmit, Goto, Work, StepNo, WorkGrows, Ended
  <2>2. CASE \E e : Caught(e)
    BY <1>0, <1>2, <2>2, CaughtWorks DEF createAndSubmit, WorkGrows, Ended
  <2> QED
    BY <1>2, <2>1, <2>2 DEF createAndSubmit
<1>3. CASE Included
  <2>1. PICK tx \in pool : Finalized(tx) \/ DispatchFails(tx) \/ Invalidated(tx)
    BY <1>3 DEF Included
  <2>2. CASE Finalized(tx)
    <3>1. UNCHANGED <<attempt, left>> /\ pc' = (IF Watched(tx) THEN "ok" ELSE pc)
          /\ UNCHANGED <<kind, snap, asked, err, limit>>
      BY <2>2 DEF Finalized, Goto
    <3> QED
      BY <1>0, <3>1 DEF Watched, Work, StepNo, WorkGrows, Ended, claim
  <2>3. UNCHANGED <<kind, snap, asked, left, limit>>
    BY <2>1 DEF Finalized, DispatchFails, Invalidated
  <2>4. CASE DispatchFails(tx) \/ Invalidated(tx)
    <3>1. \/ UNCHANGED <<pc, attempt, err>>
          \/ pc = "watch" /\ attempt' = attempt /\ pc' = "notOk"
          \/ pc = "watch" /\ \E e : Caught(e)
      BY <2>4 DEF DispatchFails, Invalidated, Watched, Goto
    <3>2. CASE UNCHANGED <<pc, attempt, err>>
      BY <2>3, <3>2 DEF WorkGrows, claim
    <3>3. CASE pc = "watch" /\ attempt' = attempt /\ pc' = "notOk"
      BY <1>0, <2>3, <3>3 DEF Work, StepNo, WorkGrows, Ended
    <3>4. CASE pc = "watch" /\ \E e : Caught(e)
      BY <1>0, <2>3, <3>4, CaughtWorks DEF WorkGrows, Ended
    <3> QED
      BY <3>1, <3>2, <3>3, <3>4
  <2> QED
    BY <2>1, <2>2, <2>4
<1>4. CASE StreamFails
  BY <1>0, <1>4, CaughtWorks DEF StreamFails, WorkGrows, Ended
<1>5. CASE StreamEnds \/ CliWorks \/ CliSucceeds
  BY <1>0, <1>5 DEF StreamEnds, CliWorks, CliSucceeds, Goto, Work, StepNo, WorkGrows, Ended
<1>6. CASE claimPgas
  <2>1. pc = "start" /\ attempt = 1 /\ left' = left
    BY <1>6 DEF claimPgas, Timed
  <2>2. attempt' = 1 /\ pc' \in {"cli", "failed"}
    BY <1>6, <2>1 DEF claimPgas, RunCli, Goto
  <2> QED
    BY <1>0, <2>1, <2>2 DEF Work, StepNo, WorkGrows, Ended
<1>7. CASE CliFails
  <2>1. pc = "cli" /\ left' = left
    BY <1>7 DEF CliFails
  <2>2. \/ attempt' = attempt + 1 /\ pc' = "cli"
        \/ attempt' = attempt /\ pc' = "failed"
    BY <1>7 DEF CliFails, RunCli, Goto
  <2> QED
    BY <1>0, <2>1, <2>2 DEF Work, StepNo, WorkGrows, Ended
<1>8. CASE Rebuild \/ Import \/ NextPeriod \/ UNCHANGED vars
  BY <1>8 DEF Rebuild, Import, NextPeriod, vars, WorkGrows
<1> QED
  BY <1>1, <1>2, <1>3, <1>4, <1>5, <1>6, <1>7, <1>8 DEF Next, ClaimStep

\* A claim ends in bounded work, however its attempts fail, the ring is rebuilt
\* and the pool settles what was sent: every step of it brings it nearer to an
\* end after which nothing touches it, so it takes at most Deadline + 15 steps.
THEOREM ClaimsAreBounded ==
  Spec => [](Work \in 5 .. Deadline + 20) /\ [][WorkGrows]_vars
<1> USE ConstantsAssumption DEF ConstantsAssumption
<1>1. Init => Timed
  BY DEF Init, Timed
<1>2. IInv /\ PgasWithinDeadline /\ Timed /\ [Next]_vars => Timed'
  BY TimedStep
<1>3. IInv /\ Timed /\ [Next]_vars => [WorkGrows]_vars
  BY WorkStep
<1>4. IInv /\ Timed => Work \in 5 .. Deadline + 20
  BY DEF IInv, TypeOK, Timed, Work, StepNo
<1> QED
  BY <1>1, <1>2, <1>3, <1>4, Invariance, PgasKeepsItsDeadline, PTL DEF Spec

\* What a claim has sent, settled or not: one transaction of each attempt so far.
SentOnce ==
  /\ pool \cap granted = {}
  /\ \A t, u \in pool \cup granted : t.attempt = u.attempt => t = u

Unsent == {"start", "mirror", "snapshot", "submit"}
NoneAhead ==
  \A t \in pool \cup granted :
    t.attempt <= attempt /\ (pc \in Unsent => t.attempt < attempt)

\* Nothing new is sent: what was is settled, dropped or left, and the claim is not
\* ready to send again within the same attempt.
Settles ==
  /\ pool' \cup granted' \subseteq pool \cup granted
  /\ pool \cap granted = {} => pool' \cap granted' = {}
  /\ \/ attempt' = attempt /\ (pc' \in Unsent => pc \in Unsent)
     \/ attempt' = attempt + 1

LEMMA SettlesOrSends ==
  ASSUME IInv, Timed, [Next]_vars
  PROVE  (createAndSubmit /\ attempt' = attempt) \/ Settles
<1> USE DEF Settles, Unsent, Goto
<1>1. CASE createAndSubmit
  BY <1>1 DEF createAndSubmit, Caught
<1>2. CASE Included
  <2>1. PICK tx \in pool : Finalized(tx) \/ DispatchFails(tx) \/ Invalidated(tx)
    BY <1>2 DEF Included
  <2>2. CASE Finalized(tx)
    BY <2>1, <2>2 DEF Finalized
  <2>3. CASE DispatchFails(tx) \/ Invalidated(tx)
    <3>1. pool' = pool \ {tx} /\ granted' = granted
      BY <2>3 DEF DispatchFails, Invalidated
    <3>2. PICK e : \/ UNCHANGED <<pc, attempt>>
                   \/ attempt' = attempt /\ pc' = "notOk"
                   \/ Caught(e)
      BY <2>3 DEF DispatchFails, Invalidated
    <3>3. \/ attempt' = attempt /\ pc' \in {pc, "notOk", "failed"}
          \/ attempt' = attempt + 1
      BY <3>2 DEF Caught
    <3> QED
      BY <3>1, <3>3
  <2> QED
    BY <2>1, <2>2, <2>3
<1>3. CASE StreamFails
  <2>1. PICK e : Caught(e)
    BY <1>3 DEF StreamFails
  <2> QED
    BY <1>3, <2>1 DEF StreamFails, Caught, effects
<1>4. CASE claimPgas \/ CliFails
  BY <1>4 DEF claimPgas, CliFails, RunCli, Timed, effects
<1>5. CASE CliWorks \/ CliSucceeds \/ StreamEnds
  BY <1>5 DEF CliWorks, CliSucceeds, StreamEnds, effects
<1>6. CASE AwaitMirror \/ Mirrored \/ ReadPeriod \/ takeSnapshot
  BY <1>6 DEF AwaitMirror, Mirrored, ReadPeriod, takeSnapshot, effects
<1>7. CASE Rebuild \/ Import \/ NextPeriod \/ UNCHANGED vars
  BY <1>7 DEF Rebuild, Import, NextPeriod, vars, effects, claim
<1> QED
  BY <1>1, <1>2, <1>3, <1>4, <1>5, <1>6, <1>7 DEF Next, ClaimStep

\* An attempt hands the chain one transaction at most, and one that was settled
\* does not come back: a watcher that gave up leaves its own transaction behind
\* and never a second one of the same attempt, so there are at most three.
THEOREM OneSubmissionPerAttempt == Spec => []SentOnce
<1> DEFINE Sent == SentOnce /\ NoneAhead
<1>1. Init => Sent
  BY DEF Init, SentOnce, NoneAhead
<1>2. ASSUME IInv, Timed, Sent, [Next]_vars PROVE Sent'
  <2>0. attempt \in Nat /\ \A t \in pool \cup granted : t.attempt \in Nat
    BY <1>2 DEF IInv, TypeOK, Tx
  <2>1. CASE createAndSubmit /\ attempt' = attempt
    <3>1. pc = "submit" /\ pool' \in {pool, pool \cup {Mine}} /\ granted' = granted
          /\ pc' \in {"watch", "failed", "snapshot"}
      BY <2>1 DEF createAndSubmit, Caught, Goto
    <3>2. Mine.attempt = attempt
      BY DEF Mine
    <3>3. \A t \in pool \cup granted : t.attempt < attempt
      BY <1>2, <3>1 DEF NoneAhead, Unsent
    <3>4. Mine \notin pool \cup granted
      BY <2>0, <3>2, <3>3
    <3>5. pc' # "snapshot"
      BY <2>0, <2>1 DEF createAndSubmit, Caught, Goto
    <3> QED
      BY <1>2, <2>0, <2>1, <3>1, <3>2, <3>3, <3>4, <3>5 DEF SentOnce, NoneAhead, Unsent
  <2>2. CASE Settles
    BY <1>2, <2>0, <2>2 DEF Settles, SentOnce, NoneAhead
  <2>3. (createAndSubmit /\ attempt' = attempt) \/ Settles
    BY <1>2, SettlesOrSends
  <2> QED
    BY <2>1, <2>2, <2>3
<1>3. IInv /\ Timed /\ PgasWithinDeadline /\ [Next]_vars => Timed'
  BY TimedStep
<1>4. IInv /\ Timed /\ Sent /\ [Next]_vars => Sent'
  BY <1>2
<1>5. Init => Timed
  BY ConstantsAssumption DEF ConstantsAssumption, Init, Timed
<1>6. Sent => SentOnce
  OBVIOUS
<1> HIDE DEF Sent
<1> QED
  BY <1>1, <1>3, <1>4, <1>5, <1>6, Invariance, PgasKeepsItsDeadline, PTL DEF Spec
=============================================================================
