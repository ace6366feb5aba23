----------------------------- MODULE ProofClaim -----------------------------
(***************************************************************************)
(* The claims a test makes with a ring proof, each with its retries: the   *)
(* alias on Asset Hub (alias-claim.ts and its test), the long-term storage *)
(* on People (lts-claim.ts, people-claim.ts) and the PGAS claim that the   *)
(* truapi-host CLI makes under a deadline (truapi-host.ts).                *)
(*                                                                         *)
(* Meanwhile People rebuilds the ring, Asset Hub imports revisions of it   *)
(* and the storage period ends.  A transaction whose watcher has gone may  *)
(* still land.                                                             *)
(***************************************************************************)
EXTENDS Integers, FiniteSets

CONSTANTS
  Grace,      \* rebuilds for which People still accepts an older revision
  Window,     \* revisions that Asset Hub keeps
  Deadline,   \* time units of the PGAS claim
  MaxRevision \* bound: revisions of the ring

ASSUME ConstantsAssumption ==
  Grace \in Nat /\ Window \in Nat \ {0} /\ Deadline \in Nat /\ MaxRevision \in Nat

VARIABLES
  revision,   \* of the ring at People's finalized block
  roots,      \* the revisions in Asset Hub's window
  period,     \* the current storage period
  granted,    \* transactions that took effect
  pool,       \* transactions that may still be included
  kind,       \* which claim this is
  pc,         \* where it is
  attempt,    \* its attempt
  snap,       \* revision of the caller's read, then of the attempt's snapshot
  asked,      \* storage period of the claim
  err,        \* what the last attempt failed with
  left, limit,\* time to the deadline, and to the kill of the CLI at work
  moved, bad  \* history: rebuilds since the claim began, proofs rejected

chains == <<revision, roots, period>>
effects == <<granted, pool>>
claim == <<kind, pc, attempt, snap, asked, err, left, limit>>
history == <<moved, bad>>
vars == <<chains, effects, claim, history>>

MAX_PROOF_ATTEMPTS == 3
PGAS_ATTEMPTS == 3

\* Classes of error messages; "Stale" is also what a dispatch error says.
Retryable == [alias |-> {"BadProof", "AncientBirthBlock", "Future", "Stale"},
              lts   |-> {"BadProof", "Future", "Stale"},
              pgas  |-> {"RingRevisionLag"}]
Lost == {"AncientBirthBlock", "Future", "Stale", "disconnected"}
isRetryableInvalidTx(e) == e \in Retryable[kind]

-----------------------------------------------------------------------------
(***************************************************************************)
(* The chains.                                                             *)
(***************************************************************************)
Rebuild ==
  /\ revision < MaxRevision
  /\ revision' = revision + 1 /\ moved' = moved + 1
  /\ UNCHANGED <<roots, period, effects, claim, bad>>

\* Asset Hub learns a revision, perhaps not the next one, and keeps the newest.
Import ==
  /\ \E r \in 1 .. revision :
       /\ \A k \in roots : r > k
       /\ roots' = {k \in roots \cup {r} :
                      Cardinality({n \in roots \cup {r} : n > k}) < Window}
  /\ UNCHANGED <<revision, period, effects, claim, history>>

NextPeriod ==
  /\ period = 0 /\ period' = 1
  /\ UNCHANGED <<revision, roots, effects, claim, history>>

\* What the chain that takes the claim objects to.
Objections(tx) ==
  {e \in {"BadProof"} : IF kind = "alias" THEN tx.revision \notin roots
                                          ELSE tx.revision + Grace < revision}
  \cup {e \in {"Stale", "Custom"} : kind = "lts" /\ tx.period # period}
  \cup {e \in {"Custom"} : granted # {}}

-----------------------------------------------------------------------------
(***************************************************************************)
(* The two claims by transaction.                                          *)
(***************************************************************************)
Goto(l) == pc' = l

\* A retry that is not counted.
CaughtUncounted(e) ==
  /\ err' = e
  /\ bad' = IF e = "BadProof" THEN bad + 1 ELSE bad
  /\ attempt' = attempt
  /\ IF isRetryableInvalidTx(e) THEN Goto("snapshot") ELSE Goto("failed")

\* One attempt too many.
CaughtOffByOne(e) ==
  /\ err' = e
  /\ bad' = IF e = "BadProof" THEN bad + 1 ELSE bad
  /\ IF isRetryableInvalidTx(e) /\ attempt <= MAX_PROOF_ATTEMPTS
     THEN Goto("snapshot") /\ attempt' = attempt + 1
     ELSE Goto("failed") /\ attempt' = attempt

\* An attempt failed: the next one, or the end.
Caught(e) ==
  /\ err' = e
  /\ bad' = IF e = "BadProof" THEN bad + 1 ELSE bad
  /\ IF isRetryableInvalidTx(e) /\ attempt < MAX_PROOF_ATTEMPTS
     THEN Goto("snapshot") /\ attempt' = attempt + 1
     ELSE Goto("failed") /\ attempt' = attempt

\* The test of the alias reads the ring's revision and waits for just that one.
AwaitMirror ==
  /\ kind = "alias" /\ pc = "start"
  /\ snap' = revision /\ Goto("mirror")
  /\ UNCHANGED <<chains, effects, kind, attempt, asked, err, left, limit, history>>

Mirrored ==
  /\ pc = "mirror"
  /\ IF snap \in roots THEN Goto("snapshot") /\ err' = err
                       ELSE Goto("failed") /\ err' = "NotMirrored"
  /\ UNCHANGED <<chains, effects, kind, attempt, snap, asked, left, limit, history>>

\* The period is that of the clock, once for all attempts.
ReadPeriod ==
  /\ kind = "lts" /\ pc = "start"
  /\ asked' = period /\ Goto("snapshot")
  /\ UNCHANGED <<chains, effects, kind, attempt, snap, err, left, limit, history>>

\* The snapshot of the first attempt serves the later ones.
takeSnapshotOnce ==
  /\ pc = "snapshot"
  /\ snap' = (IF attempt = 1 THEN revision ELSE snap) /\ Goto("submit")
  /\ UNCHANGED <<chains, effects, kind, attempt, asked, err, left, limit, history>>

\* Every attempt proves against the ring as People has it then.
takeSnapshot ==
  /\ pc = "snapshot"
  /\ snap' = revision /\ Goto("submit")
  /\ UNCHANGED <<chains, effects, kind, attempt, asked, err, left, limit, history>>

Mine == [attempt |-> attempt, revision |-> snap, period |-> asked]

createAndSubmit ==
  /\ pc = "submit"
  /\ \/ /\ Objections(Mine) = {}
        /\ pool' = pool \cup {Mine} /\ Goto("watch")
        /\ UNCHANGED <<attempt, err, bad>>
     \/ \E e \in Objections(Mine) : Caught(e) /\ UNCHANGED pool
  /\ UNCHANGED <<chains, granted, kind, snap, asked, left, limit, moved>>

Watched(tx) == pc = "watch" /\ tx = Mine

\* A transaction is finalized, by the claim that still watches it or not.
Finalized(tx) ==
  /\ Objections(tx) = {}
  /\ granted' = granted \cup {tx} /\ pool' = pool \ {tx}
  /\ IF Watched(tx) THEN Goto("ok") ELSE Goto(pc)
  /\ UNCHANGED <<chains, kind, attempt, snap, asked, err, left, limit, history>>

\* It is included and the call fails: an error of the alias, a result of lts.
DispatchFails(tx) ==
  /\ pool' = pool \ {tx}
  /\ IF ~Watched(tx) THEN UNCHANGED <<pc, attempt, err, bad>>
     ELSE IF kind = "lts" THEN Goto("notOk") /\ UNCHANGED <<attempt, err, bad>>
     ELSE \E e \in {"Stale", "Custom"} : Caught(e)
  /\ UNCHANGED <<chains, granted, kind, snap, asked, left, limit, moved>>

\* The pool drops what has become invalid.
Invalidated(tx) ==
  /\ pool' = pool \ {tx}
  /\ \E e \in Objections(tx) :
       IF Watched(tx) THEN Caught(e) ELSE UNCHANGED <<pc, attempt, err, bad>>
  /\ UNCHANGED <<chains, granted, kind, snap, asked, left, limit, moved>>

Included == \E tx \in pool : Finalized(tx) \/ DispatchFails(tx) \/ Invalidated(tx)

\* The watcher fails and the transaction stays in the pool.
StreamFails ==
  /\ pc = "watch"
  /\ \E e \in Lost : Caught(e)
  /\ UNCHANGED <<chains, effects, kind, snap, asked, left, limit, moved>>

\* The promise of the storage claim heeds finalized events and errors only.
StreamEnds ==
  /\ kind = "lts" /\ pc = "watch" /\ Goto("hung")
  /\ UNCHANGED <<chains, effects, kind, attempt, snap, asked, err, left, limit, history>>

-----------------------------------------------------------------------------
(***************************************************************************)
(* The PGAS claim.                                                         *)
(***************************************************************************)
\* Every run of the CLI gets the whole budget.
RunCliInFull(n) ==
  IF left <= 0 THEN Goto("failed") /\ err' = "NoTimeLeft" /\ UNCHANGED <<attempt, limit>>
  ELSE Goto("cli") /\ attempt' = n /\ limit' = Deadline /\ UNCHANGED err

\* The CLI is run with the time that is left, if there is any.
RunCli(n) ==
  IF left <= 0 THEN Goto("failed") /\ err' = "NoTimeLeft" /\ UNCHANGED <<attempt, limit>>
  ELSE Goto("cli") /\ attempt' = n /\ limit' = left /\ UNCHANGED err

claimPgas ==
  /\ kind = "pgas" /\ pc = "start"
  /\ RunCli(1)
  /\ UNCHANGED <<chains, effects, kind, snap, asked, left, history>>

\* Time passes until the CLI is killed.
CliWorks ==
  /\ pc = "cli" /\ limit > 0
  /\ limit' = limit - 1 /\ left' = left - 1
  /\ UNCHANGED <<chains, effects, kind, pc, attempt, snap, asked, err, history>>

CliSucceeds ==
  /\ pc = "cli" /\ Goto("ok")
  /\ UNCHANGED <<chains, effects, kind, attempt, snap, asked, err, left, limit, history>>

\* It exits or is killed; its output tells of the lag or of something else.
CliFails ==
  /\ pc = "cli"
  /\ \/ /\ attempt < PGAS_ATTEMPTS /\ RunCli(attempt + 1)
     \/ /\ Goto("failed") /\ err' = "cli" /\ UNCHANGED <<attempt, limit>>
  /\ UNCHANGED <<chains, effects, kind, snap, asked, left, history>>

-----------------------------------------------------------------------------
Init ==
  /\ revision = 1 /\ roots = {} /\ period = 0
  /\ granted = {} /\ pool = {}
  /\ kind \in {"alias", "lts", "pgas"} /\ pc = "start" /\ attempt = 1
  /\ snap = 0 /\ asked = 0 /\ err = "none" /\ left = Deadline /\ limit = 0
  /\ moved = 0 /\ bad = 0

ClaimStep ==
  \/ AwaitMirror \/ Mirrored \/ ReadPeriod \/ takeSnapshot \/ createAndSubmit
  \/ Included \/ StreamFails \/ StreamEnds
  \/ claimPgas \/ CliWorks \/ CliSucceeds \/ CliFails

Next == Rebuild \/ Import \/ NextPeriod \/ ClaimStep

\* A claim is carried on and a transaction in the pool is settled; the ring, the
\* mirror and the period need not move.
Spec == Init /\ [][Next]_vars /\ WF_vars(ClaimStep)

-----------------------------------------------------------------------------
Tx == [attempt : 1 .. MAX_PROOF_ATTEMPTS, revision : Nat, period : {0, 1}]

TypeOK ==
  /\ revision \in 1 .. MaxRevision \cup {1} /\ roots \subseteq Nat /\ period \in {0, 1}
  /\ granted \subseteq Tx /\ pool \subseteq Tx
  /\ kind \in {"alias", "lts", "pgas"}
  /\ pc \in {"start", "mirror", "snapshot", "submit", "watch", "cli",
             "ok", "notOk", "failed", "hung"}
  /\ attempt \in 1 .. 3 /\ snap \in Nat /\ asked \in {0, 1}
  /\ left \in Int /\ limit \in Nat /\ moved \in Nat /\ bad \in Nat

\* A proof is rejected only because the ring was rebuilt while its attempt was
\* on the way, more often than People's grace allows on each such attempt of the
\* storage claim, and after the caller's own look at the ring for the alias.
BadProofIsARebuild ==
  /\ kind = "lts" => moved >= bad * (Grace + 1)
  /\ kind = "alias" /\ bad > 0 => moved > 0

\* However often the CLI is run again and whenever each run ends, the PGAS
\* claim is not at work past its deadline.
PgasWithinDeadline == pc = "cli" => left >= limit /\ limit >= 0

\* Every claim comes to an end, or its stream went quiet.
Ended == pc \in {"ok", "notOk", "failed", "hung"}
ClaimEnds == <>Ended

\* "Re-snapshotting picks up the new revision and the next attempt lands"
\* (alias-claim.ts:167-168): one rebuild does not exhaust the attempts.
OneRebuildSurvived ==
  kind = "alias" /\ pc = "failed" /\ err = "BadProof" => moved > 1
=============================================================================
