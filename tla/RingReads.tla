------------------------------ MODULE RingReads ------------------------------
(***************************************************************************)
(* The reads of packages/chain-tests/src/lib/ring.ts, each as a function   *)
(* of the finalized block it is pinned to.                                 *)
(***************************************************************************)
EXTENDS RingChain

\* Order of insertion: page by page, then by position on the page.
Before(s, t) ==
  \/ s.page < t.page
  \/ s.page = t.page /\ s.position < t.position

\* A key's index in the concatenation of the pages of its ring.
Rank(b, k) ==
  Cardinality({j \in RingSet(b, b.slot[k].ring) : Before(b.slot[j], b.slot[k])})

\* The page walk stops at the first empty page.
Reached(b, r, p) == \A q \in 0 .. p : PageKeys(b, r, q) # {}

\* The page walk without the slice: keys appended but not yet built count.
AllRingKeys(b, r) == {k \in RingSet(b, r) : Reached(b, r, b.slot[k].page)}

\* The members a proof is built over: the keys walked, sliced to `included`.
FetchRingMembers(b, r) ==
  {k \in AllRingKeys(b, r) : Rank(b, k) < b.included[r]}

\* Keys on the pages before p.
KeysBefore(b, r, p) == {k \in RingSet(b, r) : b.slot[k].page < p}

\* The comparison with included off by one.
OffByOneIsInRoot(b, s) ==
  s.position + Cardinality(KeysBefore(b, s.ring, s.page)) <= b.included[s.ring]

\* Whether the slot's absolute index is below RingKeysStatus.included.
IsInRoot(b, s) ==
  s.position + Cardinality(KeysBefore(b, s.ring, s.page)) < b.included[s.ring]

\* The parent's number where the finalized block's belongs.
ParentDiagnostic(b) == [block |-> b.height - 1, ringZeroRevision |-> b.revision[0]]

\* The numbers of the timeout diagnostic: the block and ring 0's revision.
CaptureRingDiagnostic(b) == [block |-> b.height, ringZeroRevision |-> b.revision[0]]
=============================================================================
