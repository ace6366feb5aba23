--------------------------- MODULE RingHealthAlert ---------------------------
(***************************************************************************)
(* packages/chain-tests/scripts/diff-ring-health.py: the debounce between  *)
(* the ring-health probe and the room that is notified.  Each run of the   *)
(* probe diffs its verdict with the state the run before saved, and the    *)
(* saved state can be lost between two runs (the CI cache is evicted, or   *)
(* what it holds is not JSON).                                             *)
(***************************************************************************)
EXTENDS Integers

CONSTANTS
  MaxFails     \* bound of the model: fails in a row

ASSUME AlertAssumption == MaxFails \in Nat

FlipToFailThreshold == 2

\* What the probe's tests can throw.
Reasons == {"cannot connect", "mirror empty", "mirror behind",
            "rings stuck stale", "build latency"}

\* categorise: what the patterns make of them.
Categorise(reason) ==
  CASE reason = "cannot connect" -> "rpc-unreachable"
    [] reason = "mirror empty"   -> "ah-no-root"
    [] reason \in {"mirror behind", "rings stuck stale", "build latency"} -> "other"

Categories == {"rpc-unreachable", "ah-no-root", "other"}

CategoriesOf(reasons) == {Categorise(r) : r \in reasons}

Verdict == {"pass", "fail"}

\* A run's observation.  A run that passes reports no reason; one that dies
\* without an error line fails without a reason.
Observation == [verdict : {"pass"}, reasons : {{}}]
               \cup [verdict : {"fail"}, reasons : SUBSET Reasons]

\* The state one run saves for the next; NoState where there is none.
State == [verdict : Verdict \cup {"none"}, cats : SUBSET Categories,
          fails : Nat, notified : Verdict \cup {"none"}]

NoState == [verdict |-> "none", cats |-> {}, fails |-> 0, notified |-> "none"]

Header == {"none", "first", "failing", "recovered", "changed", "plain"}

VARIABLES
  saved,     \* curr-state.json of the last run
  header,    \* the kind of message the last run sent, if any
  observed,  \* history: what the last run observed
  room,      \* history: the verdict and categories the room was last told
  streak,    \* history: fails in a row
  carried,   \* history: fails in a row since the state was last lost
  lost       \* history: whether the state was lost since the last message

vars == <<saved, header, observed, room, streak, carried, lost>>

Told == [verdict : Verdict \cup {"none"}, cats : SUBSET Categories]

TypeOK ==
  /\ saved \in State
  /\ header \in Header
  /\ observed \in Observation
  /\ room \in Told
  /\ streak \in Nat
  /\ carried \in Nat
  /\ lost \in BOOLEAN

\* Nothing has failed yet, and the room has heard nothing.
Init ==
  /\ saved = NoState
  /\ header = "none"
  /\ observed = [verdict |-> "pass", reasons |-> {}]
  /\ room = [verdict |-> "none", cats |-> {}]
  /\ streak = 0
  /\ carried = 0
  /\ lost = FALSE

-----------------------------------------------------------------------------
\* A count that survives a pass in between.
NeverResetFails(prev, verdict) ==
  IF verdict = "fail" THEN prev.fails + 1 ELSE prev.fails

ConsecutiveFails(prev, verdict) ==
  CASE verdict = "fail" /\ prev.verdict = "fail" -> prev.fails + 1
    [] verdict = "fail" /\ prev.verdict # "fail" -> 1
    [] verdict # "fail" -> 0

\* Recoveries debounced like failures.
SlowRecovery(prev, verdict) ==
  CASE verdict = "pass" /\ prev.verdict = "pass" -> "pass"
    [] verdict = "fail" /\ ConsecutiveFails(prev, verdict) >= FlipToFailThreshold -> "fail"
    [] OTHER -> prev.notified

\* Passes promote at once, fails at the threshold.
NotifiedVerdict(prev, verdict) ==
  CASE verdict = "pass" -> "pass"
    [] verdict = "fail" /\ ConsecutiveFails(prev, verdict) >= FlipToFailThreshold -> "fail"
    [] OTHER -> prev.notified

\* The raw error strings in place of their categories.
RawDiffed(prev, o) ==
  [verdict  |-> o.verdict,
   cats     |-> o.reasons,
   fails    |-> ConsecutiveFails(prev, o.verdict),
   notified |-> NotifiedVerdict(prev, o.verdict)]

\* The state saved for the next run.
Diffed(prev, o) ==
  [verdict  |-> o.verdict,
   cats     |-> CategoriesOf(o.reasons),
   fails    |-> ConsecutiveFails(prev, o.verdict),
   notified |-> NotifiedVerdict(prev, o.verdict)]

\* Only the verdict is compared.
VerdictChanged(prev, curr) == prev.notified # curr.notified

\* A persistent failure is told on every run.
ChangedOrFailing(prev, curr) ==
  prev.notified # curr.notified \/ curr.notified = "fail"

StateChanged(prev, curr) ==
  \/ prev.notified # curr.notified
  \/ /\ curr.notified = "fail"
     /\ prev.notified = "fail"
     /\ prev.cats # curr.cats

\* The header taken from the observed verdicts.
HeaderOfObserved(prev, curr) ==
  CASE prev.verdict = "none" -> "first"
    [] curr.verdict = "fail" /\ prev.verdict = "pass" -> "failing"
    [] curr.verdict = "pass" /\ prev.verdict = "fail" -> "recovered"
    [] curr.verdict = "fail" /\ prev.verdict = "fail" /\ prev.cats # curr.cats -> "changed"
    [] OTHER -> "plain"

\* build_message: the header is about the notified verdicts.
HeaderOf(prev, curr) ==
  CASE prev.notified = "none" -> "first"
    [] curr.notified = "fail" /\ prev.notified = "pass" -> "failing"
    [] curr.notified = "pass" /\ prev.notified = "fail" -> "recovered"
    [] curr.notified = "fail" /\ prev.notified = "fail" /\ prev.cats # curr.cats -> "changed"
    [] OTHER -> "plain"

Count(n, o) == IF o.verdict = "fail" THEN n + 1 ELSE 0

\* One run: diff against prev, save, and tell the room of a change.
Diff(prev, o) ==
  LET curr == Diffed(prev, o)
  IN  /\ o.verdict = "fail" => streak < MaxFails
      /\ saved' = curr
      /\ observed' = o
      /\ streak' = Count(streak, o)
      /\ \/ /\ StateChanged(prev, curr)
            /\ header' = HeaderOf(prev, curr)
            /\ room' = [verdict |-> curr.notified, cats |-> curr.cats]
         \/ /\ ~ StateChanged(prev, curr)
            /\ header' = "none"
            /\ UNCHANGED room

\* A run that finds the state of the run before.
CarriedRun(o) ==
  /\ Diff(saved, o)
  /\ carried' = Count(carried, o)
  /\ lost' = (lost /\ header' = "none")

\* A run that finds none.
LostRun(o) ==
  /\ Diff(NoState, o)
  /\ carried' = Count(0, o)
  /\ lost' = (header' = "none")

Next == \E o \in Observation : CarriedRun(o) \/ LostRun(o)

Spec == Init /\ [][Next]_vars

-----------------------------------------------------------------------------
\* One bad run never pages: the room is told FAIL only by a run that failed
\* right after a run that failed.
NoPageForOne ==
  [][room'.verdict = "fail" /\ room.verdict # "fail" => streak >= 1 /\ streak' >= 2]_vars

\* Recoveries are told at once, even if the state was lost meanwhile: after a
\* run that passed, PASS is the last the room heard.
RecoveryTold ==
  saved # NoState /\ observed.verdict = "pass" => room.verdict = "pass"

\* Two fails in a row with the state carried between them reach the room, and
\* it knows their categories, however these change from run to run.
RoomUpToDate ==
  carried >= FlipToFailThreshold =>
    room = [verdict |-> "fail", cats |-> CategoriesOf(observed.reasons)]

\* No message without news: unless the state was lost since the last message,
\* a run that tells the room something tells it something new.
NoNoise ==
  [][(\E o \in Observation : CarriedRun(o)) /\ ~ lost /\ header' # "none"
       => room' # room]_vars

\* What a message says of the past is what the room had been told.
HeaderTrue ==
  [][/\ header' = "failing" => room.verdict = "pass"
     /\ header' = "recovered" => room.verdict = "fail"
     /\ header' = "changed" => room.verdict = "fail" /\ room.cats # room'.cats]_vars
=============================================================================
