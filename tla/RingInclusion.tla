---------------------------- MODULE RingInclusion ----------------------------
(***************************************************************************)
(* waitForInclusion of packages/chain-tests/src/lib/ring.ts: the poll loop *)
(* that waits until the attested account's ring key is Included and in the *)
(* ring root, re-checks after a settling time, and otherwise times out     *)
(* with a diagnosis.  The chain moves between any two of its steps.        *)
(*                                                                         *)
(* Every caller passes peopleClient, so all reads are pinned to a          *)
(* finalized block.  The clock counts polls; one tick is pollMs.           *)
(***************************************************************************)
EXTENDS RingReads

CONSTANTS
  Own,             \* the ring key of the account under test
  TimeoutTicks,    \* timeoutMs, in polls
  SettleTicks,     \* stabilityWaitMs, in polls
  ExpectedBlocks   \* blocks the chain should produce within the timeout

ASSUME WaitAssumption ==
  /\ Own \in Keys
  /\ TimeoutTicks \in Nat
  /\ SettleTicks \in Nat
  /\ ExpectedBlocks \in Nat

VARIABLES
  pc,        \* where the waiter is
  clock,     \* ticks since the wait started
  fin,       \* finalized block of the current poll
  fin2,      \* finalized block of the re-check
  loc,       \* slot read from the Members entry in the current poll
  lastTag,   \* last status or condition logged
  start,     \* diagnostic taken before the loop
  verdict    \* verdict of the timeout message

waiter == <<pc, clock, fin, fin2, loc, lastTag, start, verdict>>
vars   == <<chain, waiter>>

PC  == {"idle", "poll", "read", "settle", "recheck", "sleep",
        "located", "timedout", "failed"}
Tag == Status \cup {"undefined", "ring-pending", "ring-unstable"}

Verdict == {"none", "chain-slow", "builder-stuck", "not-picked-up",
            "backend", "ambiguous"}

Diagnostic == [block : Nat, ringZeroRevision : Int]

TypeOK ==
  /\ chain \in Block
  /\ pc \in PC
  /\ clock \in Nat
  /\ fin \in Block
  /\ fin2 \in Block
  /\ loc \in Slot
  /\ lastTag \in Tag
  /\ start \in Diagnostic
  /\ verdict \in Verdict

Init ==
  /\ ChainInit
  /\ pc = "idle"
  /\ clock = 0
  /\ fin = Genesis
  /\ fin2 = Genesis
  /\ loc = NoSlot
  /\ lastTag = "undefined"
  /\ start = CaptureRingDiagnostic(Genesis)
  /\ verdict = "none"

-----------------------------------------------------------------------------
\* A read without a pin answers for whatever block is latest by then.
UnpinnedAt(b) == chain

\* The block a read pinned to b sees.
At(b) == b

\* The key is on the page its slot names, and its index is in the root.
InRing(b, s) ==
  /\ Own \in PageKeys(At(b), s.ring, s.page)
  /\ IsInRoot(At(b), s)

\* The re-check without the page read: only the index is compared.
RecheckByIndex(b, s) ==
  /\ IsInRoot(At(b), s)
  /\ At(b).revision[s.ring] # NoRoot

\* The re-check, with the slot read before the settling time.
StillInRing(b, s) ==
  /\ InRing(b, s)
  /\ At(b).revision[s.ring] # NoRoot

\* The verdict of the timeout message.
BlockDelta(end)    == end.block - start.block
RevisionKnown(end) == end.ringZeroRevision # NoRoot /\ start.ringZeroRevision # NoRoot
RevisionDelta(end) == end.ringZeroRevision - start.ringZeroRevision

FormatInclusionTimeout(end, tag) ==
  CASE 2 * BlockDelta(end) < ExpectedBlocks -> "chain-slow"
    [] /\ 2 * BlockDelta(end) >= ExpectedBlocks
       /\ RevisionKnown(end) /\ RevisionDelta(end) = 0 -> "builder-stuck"
    [] /\ 2 * BlockDelta(end) >= ExpectedBlocks
       /\ RevisionKnown(end) /\ RevisionDelta(end) > 0
       /\ tag = "Onboarding" -> "not-picked-up"
    [] /\ 2 * BlockDelta(end) >= ExpectedBlocks
       /\ ~ (RevisionKnown(end) /\ RevisionDelta(end) = 0)
       /\ tag \in {"missing", "undefined"} -> "backend"
    [] OTHER -> "ambiguous"

-----------------------------------------------------------------------------
\* The baseline diagnostic before the loop.
Begin ==
  /\ pc = "idle"
  /\ start' = CaptureRingDiagnostic(chain)
  /\ pc' = "poll"
  /\ UNCHANGED <<chain, clock, fin, fin2, loc, lastTag, verdict>>

\* The loop condition holds: take the finalized block to pin this poll to.
Poll ==
  /\ pc = "poll"
  /\ clock < TimeoutTicks
  /\ fin' = chain
  /\ pc' = "read"
  /\ UNCHANGED <<chain, clock, fin2, loc, lastTag, start, verdict>>

\* Included and in the root: wait for the ring to settle.
ReadInRing ==
  /\ pc = "read"
  /\ At(fin).status[Own] = "Included"
  /\ InRing(fin, At(fin).slot[Own])
  /\ loc' = At(fin).slot[Own]
  /\ pc' = "settle"
  /\ UNCHANGED <<chain, clock, fin, fin2, lastTag, start, verdict>>

\* Included but not in the root, and the condition goes unrecorded.
ReadPendingQuiet ==
  /\ pc = "read"
  /\ At(fin).status[Own] = "Included"
  /\ ~ InRing(fin, At(fin).slot[Own])
  /\ pc' = "sleep"
  /\ UNCHANGED <<chain, clock, fin, fin2, loc, lastTag, start, verdict>>

\* Included, but the ring rebuild has not reached this block.
ReadPending ==
  /\ pc = "read"
  /\ At(fin).status[Own] = "Included"
  /\ ~ InRing(fin, At(fin).slot[Own])
  /\ lastTag' = "ring-pending"
  /\ pc' = "sleep"
  /\ UNCHANGED <<chain, clock, fin, fin2, loc, start, verdict>>

\* Not Included: missing, Onboarding or Suspended.
ReadWaiting ==
  /\ pc = "read"
  /\ At(fin).status[Own] # "Included"
  /\ lastTag' = At(fin).status[Own]
  /\ pc' = "sleep"
  /\ UNCHANGED <<chain, clock, fin, fin2, loc, start, verdict>>

\* The settling time is over: take the finalized block of the re-check.
Settle ==
  /\ pc = "settle"
  /\ clock' = clock + SettleTicks
  /\ fin2' = chain
  /\ pc' = "recheck"
  /\ UNCHANGED <<chain, fin, loc, lastTag, start, verdict>>

\* Still in the root: the location is returned, pinned to fin2.
Locate ==
  /\ pc = "recheck"
  /\ StillInRing(fin2, loc)
  /\ pc' = "located"
  /\ UNCHANGED <<chain, clock, fin, fin2, loc, lastTag, start, verdict>>

\* The root was reset meanwhile: back to polling.
Unstable ==
  /\ pc = "recheck"
  /\ ~ StillInRing(fin2, loc)
  /\ lastTag' = "ring-unstable"
  /\ pc' = "sleep"
  /\ UNCHANGED <<chain, clock, fin, fin2, loc, start, verdict>>

\* A busy loop: polls again at once, without sleeping.
SleepNot ==
  /\ pc = "sleep"
  /\ pc' = "poll"
  /\ UNCHANGED <<chain, clock, fin, fin2, loc, lastTag, start, verdict>>

\* The poll interval.
Sleep ==
  /\ pc = "sleep"
  /\ clock' = clock + 1
  /\ pc' = "poll"
  /\ UNCHANGED <<chain, fin, fin2, loc, lastTag, start, verdict>>

\* The loop condition fails: RingInclusionTimeout with its verdict.
TimeOut ==
  /\ pc = "poll"
  /\ clock >= TimeoutTicks
  /\ verdict' = FormatInclusionTimeout(CaptureRingDiagnostic(chain), lastTag)
  /\ pc' = "timedout"
  /\ UNCHANGED <<chain, clock, fin, fin2, loc, lastTag, start>>

\* Any read can fail; the error leaves the wait as it is.
RpcError ==
  /\ pc \in {"idle", "poll", "read", "settle", "recheck"}
  /\ pc' = "failed"
  /\ UNCHANGED <<chain, clock, fin, fin2, loc, lastTag, start, verdict>>

WaitStep ==
  \/ Begin \/ Poll
  \/ ReadInRing \/ ReadPending \/ ReadWaiting
  \/ Settle \/ Locate \/ Unstable
  \/ Sleep \/ TimeOut

ChainStep == ChainNext /\ UNCHANGED waiter

Next == ChainStep \/ WaitStep \/ RpcError

\* The suite's event loop runs the waiter; nothing is assumed of the chain.
Spec == Init /\ [][Next]_vars /\ WF_vars(WaitStep)

-----------------------------------------------------------------------------
\* The returned location is provable: at the block it is pinned to, a
\* snapshot of its ring contains the own key, although the slot used in the
\* re-check was read one settling time earlier.
LocationProvable ==
  pc = "located" => Own \in FetchRingMembers(fin2, loc.ring)

\* The two computations of "in the root" agree on every finalized block:
\* isInRoot on a key's slot, and membership in the sliced page walk that
\* proofs are built over.
RootViewsAgree ==
  \A k \in chain.placed :
    LET s == chain.slot[k]
    IN  IsInRoot(chain, s) <=> k \in FetchRingMembers(chain, s.ring)

\* A timeout is honest: unless the root moved under the re-check, the last
\* block polled did not have the member Included with its key in the root.
TimeoutHonest ==
  pc = "timedout" /\ lastTag # "ring-unstable" /\ fin.status[Own] = "Included"
    => Own \notin FetchRingMembers(fin, fin.slot[Own].ring)

\* "missing" is what marks the run as ring-key drift, and the backend verdict
\* pages the backend team: both only when the last block polled had no entry.
MissingIsReal ==
  pc = "timedout" /\ (lastTag = "missing" \/ verdict = "backend")
    => fin.status[Own] = "missing"

\* The wait always ends: located, timed out, or failed by an RPC error.
WaitEnds == pc = "poll" ~> pc \in {"located", "timedout", "failed"}

\* What the timeout verdict is for: a key People never saw is not blamed on
\* the ring builder.
MissingNotBlamedOnBuilder ==
  pc = "timedout" /\ lastTag = "missing" => verdict # "builder-stuck"
=============================================================================
