------------------------------ MODULE PopByProof ------------------------------
(***************************************************************************)
(* packages/chain-tests/src/tests/pop-gate-by-proof.test.ts: one run per   *)
(* account of buildBumpByProofArgs, the bump and the replay, against the   *)
(* contract of PopCounter.  Ring rebuilds, mirroring and the bumps of     *)
(* other accounts come between any two steps of a run, and a bump whose     *)
(* watcher gave up stays in Asset Hub's pool and may land in a later run.  *)
(***************************************************************************)
EXTENDS PopCounter

CONSTANT MaxLeft     \* bound of the model: bumps nobody watches any more

ASSUME LeftAssumption == MaxLeft \in Nat

MaxProofAttempts == 3

VARIABLES
  pc,         \* where each account's run is
  attempt,    \* attempt of the proof loop
  message,    \* expectedMessage(), read once before the loop
  revision,   \* revision of the snapshot of this attempt
  before,     \* byAliasByProof of the own alias, read before the bump
  left,       \* bumps in the pool whose watcher gave up (external)
  late,       \* history: the own ones of them when the message was read
  noted       \* history: everybody's nonces when `before` was read

run  == <<pc, attempt, message, revision, before, left, late, noted>>
vars == <<contract, run>>

PC == {"idle", "snapshot", "mirror", "dryrun", "before", "submit", "watch",
       "landed", "after", "replay", "miscounted", "passed", "replayed", "failed"}

TypeOK ==
  /\ ContractTypeOK
  /\ pc \in [Accounts -> PC]
  /\ attempt \in [Accounts -> 1 .. MaxProofAttempts]
  /\ message \in [Accounts -> Message]
  /\ revision \in [Accounts -> Nat]
  /\ before \in [Accounts -> Nat]
  /\ left \in SUBSET ByProof
  /\ late \in [Accounts -> SUBSET ByProof]
  /\ noted \in [Accounts -> [Accounts -> Nat]]

Init ==
  /\ ContractInit
  /\ pc = [a \in Accounts |-> "idle"]
  /\ attempt = [a \in Accounts |-> 1]
  /\ message = [a \in Accounts |-> [origin |-> a, nonce |-> 0]]
  /\ revision = [a \in Accounts |-> 0]
  /\ before = [a \in Accounts |-> 0]
  /\ left = {}
  /\ late = [a \in Accounts |-> {}]
  /\ noted = [a \in Accounts |-> [b \in Accounts |-> 0]]

\* The proof of the current attempt: over the snapshot, binding the message.
OneShot(a) ==
  [alias |-> PersonOf[a], message |-> message[a], revision |-> revision[a]]

\* The count of the stored-alias path, where that of the by-proof path is meant.
StoredBumpCount(a) == byAlias[PersonOf[a]]

BumpCount(a) == byAliasByProof[PersonOf[a]]

Goto(a, l) == pc' = [pc EXCEPT ![a] = l]

-----------------------------------------------------------------------------
\* The message is read once, before the attempts.
ReadMessage(a) ==
  /\ pc[a] = "idle"
  /\ message' = [message EXCEPT ![a] = ExpectedMessage(a)]
  /\ late' = [late EXCEPT ![a] = {t \in left : t.caller = a}]
  /\ Goto(a, "snapshot")
  /\ UNCHANGED <<contract, attempt, revision, before, left, noted>>

\* Root and members are read at one finalized block of People.
Snapshot(a) ==
  /\ pc[a] = "snapshot"
  /\ revision' = [revision EXCEPT ![a] = people]
  /\ Goto(a, "mirror")
  /\ UNCHANGED <<contract, attempt, message, before, left, late, noted>>

\* A poll of the window has exactly the snapshot's revision.
SeeMirrored(a) ==
  /\ pc[a] = "mirror"
  /\ revision[a] \in roots
  /\ Goto(a, "dryrun")
  /\ UNCHANGED <<contract, attempt, message, revision, before, left, late, noted>>

\* The last poll before the timeout does not have it.
MirrorTimesOut(a) ==
  /\ pc[a] = "mirror"
  /\ revision[a] \notin roots
  /\ Goto(a, "failed")
  /\ UNCHANGED <<contract, attempt, message, revision, before, left, late, noted>>

\* The dry-run accepts: these are the arguments of the bump.
DryRunAccepts(a) ==
  /\ pc[a] = "dryrun"
  /\ Accepts(a, OneShot(a))
  /\ Goto(a, "before")
  /\ UNCHANGED <<contract, attempt, message, revision, before, left, late, noted>>

\* The retry with its bound off by one.
DryRunRevertsOnceMore(a) ==
  /\ pc[a] = "dryrun"
  /\ ~ Accepts(a, OneShot(a))
  /\ attempt[a] <= MaxProofAttempts
  /\ attempt' = [attempt EXCEPT ![a] = @ + 1]
  /\ Goto(a, "snapshot")
  /\ UNCHANGED <<contract, message, revision, before, left, late, noted>>

\* The dry-run reverts: a fresh snapshot, the same message.
DryRunReverts(a) ==
  /\ pc[a] = "dryrun"
  /\ ~ Accepts(a, OneShot(a))
  /\ attempt[a] < MaxProofAttempts
  /\ attempt' = [attempt EXCEPT ![a] = @ + 1]
  /\ Goto(a, "snapshot")
  /\ UNCHANGED <<contract, message, revision, before, left, late, noted>>

\* The last dry-run reverts: its error is thrown.
GiveUp(a) ==
  /\ pc[a] = "dryrun"
  /\ ~ Accepts(a, OneShot(a))
  /\ attempt[a] = MaxProofAttempts
  /\ Goto(a, "failed")
  /\ UNCHANGED <<contract, attempt, message, revision, before, left, late, noted>>

ReadBefore(a) ==
  /\ pc[a] = "before"
  /\ before' = [before EXCEPT ![a] = BumpCount(a)]
  /\ noted' = [noted EXCEPT ![a] = proofNonce]
  /\ Goto(a, "submit")
  /\ UNCHANGED <<contract, attempt, message, revision, left, late>>

\* The transaction is in the pool, and watched.
Submit(a) ==
  /\ pc[a] = "submit"
  /\ Goto(a, "watch")
  /\ UNCHANGED <<contract, attempt, message, revision, before, left, late, noted>>

\* It lands.
Land(a) ==
  /\ pc[a] = "watch"
  /\ BumpByProof(a, OneShot(a))
  /\ Goto(a, "landed")
  /\ UNCHANGED <<attempt, message, revision, before, left, late, noted>>

\* It reverts, although its dry-run was accepted.
LandReverts(a) ==
  /\ pc[a] = "watch"
  /\ ~ Accepts(a, OneShot(a))
  /\ Goto(a, "failed")
  /\ UNCHANGED <<contract, attempt, message, revision, before, left, late, noted>>

\* The client hears that it landed.
Hear(a) ==
  /\ pc[a] = "landed"
  /\ Goto(a, "after")
  /\ UNCHANGED <<contract, attempt, message, revision, before, left, late, noted>>

\* The watcher fails or runs into the test's timeout; the transaction stays.
StopWatching(a) ==
  /\ pc[a] = "watch"
  /\ Cardinality(left) < MaxLeft
  /\ left' = left \cup {[caller |-> a, proof |-> OneShot(a)]}
  /\ Goto(a, "failed")
  /\ UNCHANGED <<contract, attempt, message, revision, before, late, noted>>

\* expect(after).toBe(before + 1)
ReadAfter(a) ==
  /\ pc[a] = "after"
  /\ Goto(a, IF BumpCount(a) = before[a] + 1
             THEN "replay" ELSE "miscounted")
  /\ UNCHANGED <<contract, attempt, message, revision, before, left, late, noted>>

\* The consumed arguments are queried once more, in a test of its own that
\* runs whether or not the count was as expected.
Replay(a) ==
  /\ pc[a] \in {"replay", "miscounted"}
  /\ Goto(a, IF Accepts(a, OneShot(a)) THEN "replayed" ELSE "passed")
  /\ UNCHANGED <<contract, attempt, message, revision, before, left, late, noted>>

\* The account calls again, in a later run of the suite with fresh locals.
RunAgain(a) ==
  /\ pc[a] \in {"passed", "replayed", "failed"}
  /\ Goto(a, "idle")
  /\ attempt' = [attempt EXCEPT ![a] = 1]
  /\ message' = [message EXCEPT ![a] = [origin |-> a, nonce |-> 0]]
  /\ revision' = [revision EXCEPT ![a] = 0]
  /\ before' = [before EXCEPT ![a] = 0]
  /\ late' = [late EXCEPT ![a] = {}]
  /\ noted' = [noted EXCEPT ![a] = [b \in Accounts |-> 0]]
  /\ UNCHANGED <<contract, left>>

\* A call fails and its error is thrown (the transaction is lost, or lands
\* unheard of); only a consumed proof is still replayed.
Throw(a) ==
  /\ pc[a] \notin {"passed", "replayed", "failed"}
  /\ Goto(a, IF pc[a] = "after" THEN "replay" ELSE "failed")
  /\ UNCHANGED <<contract, attempt, message, revision, before, left, late, noted>>

RunStep(a) ==
  \/ ReadMessage(a) \/ Snapshot(a)
  \/ SeeMirrored(a) \/ MirrorTimesOut(a)
  \/ DryRunAccepts(a) \/ DryRunReverts(a) \/ GiveUp(a)
  \/ ReadBefore(a) \/ Submit(a) \/ Land(a) \/ LandReverts(a)
  \/ Hear(a) \/ StopWatching(a)
  \/ ReadAfter(a) \/ Replay(a) \/ Throw(a) \/ RunAgain(a)

\* A bump nobody watches any more lands after all.
LandLeft(t) ==
  /\ BumpByProof(t.caller, t.proof)
  /\ left' = left \ {t}
  /\ UNCHANGED <<pc, attempt, message, revision, before, late, noted>>

\* Or it reverts, or its mortality ends in the pool.
Lapse(t) ==
  /\ left' = left \ {t}
  /\ UNCHANGED <<contract, pc, attempt, message, revision, before, late, noted>>

WorldStep == World /\ UNCHANGED run

Next ==
  \/ WorldStep
  \/ \E a \in Accounts : RunStep(a)
  \/ \E t \in left : LandLeft(t) \/ Lapse(t)

Spec == Init /\ [][Next]_vars

-----------------------------------------------------------------------------
\* A consumed proof is spent: no caller can ever have it accepted again,
\* whatever the ring and the window have done since.
SpentForGood ==
  \A b \in accepted : \A a \in Accounts : ~ Accepts(a, b.proof)

\* A proof counts for the caller it was made for, and the three by-proof
\* tallies are the numbers of accepted bumps in all, per person and per caller.
OfPerson(p) == {b \in accepted : b.proof.alias = p}
OfCaller(a) == {b \in accepted : b.caller = a}

TalliesExact ==
  /\ totalBumpsByProof = Cardinality(accepted)
  /\ \A p \in Persons : byAliasByProof[p] = Cardinality(OfPerson(p))
  /\ \A a \in Accounts : proofNonce[a] = Cardinality(OfCaller(a))

\* An earlier run's bump, still in the pool when the message was read, spent it.
SpentByEarlierRun(a) ==
  \E t \in late[a] \cap accepted : t.proof.message = message[a]

\* Re-snapshotting is the cure: a proof the contract turns down in the attempts
\* or in its block is over a root that left the window.  The message, read once
\* before the attempts, is still the expected one, unless a bump of an earlier
\* run that was in the pool at that read has landed since.
OnlyDriftReverts ==
  [][\A a \in Accounts :
       DryRunReverts(a) \/ GiveUp(a) \/ LandReverts(a) =>
         revision[a] \notin roots \/ SpentByEarlierRun(a)]_vars

\* The count the test expects can be off only if another account of the same
\* person bumped by proof after `before` was read.  A bump of an earlier run of
\* the same account cannot: where one lands in between, the own bump reverts.
MiscountNeedsTwin ==
  \A a \in Accounts :
    pc[a] = "miscounted" =>
      \E b \in Accounts \ {a} :
        PersonOf[b] = PersonOf[a] /\ proofNonce[b] > noted[a][b]

\* The by-proof path as PersonTally promises it.
Tally == INSTANCE PersonTally
           WITH redeemed <- {[caller |-> b.caller, serial |-> b.proof.message.nonce] : b \in accepted},
                tally    <- byAliasByProof,
                Serials  <- 0 .. MaxBumps - 1

TallySpec == Tally!Spec
=============================================================================
