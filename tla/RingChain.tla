------------------------------ MODULE RingChain ------------------------------
(***************************************************************************)
(* One collection of the Members pallet on the People chain, as the suite  *)
(* sees it: the sequence of finalized blocks, each with the member         *)
(* statuses, the paginated RingKeys, the number of keys baked into each    *)
(* ring root (RingKeysStatus.included) and the root revisions.             *)
(*                                                                         *)
(* The pallet is not part of the repository.  It is modelled from how      *)
(* ring.ts reads it, from the comments there, and from the call and        *)
(* storage documentation in the chain metadata the suite is built against. *)
(* A block is immutable once finalized, so a read pinned to a block hash   *)
(* is a function of the captured block.                                    *)
(***************************************************************************)
EXTENDS Integers, FiniteSets

CONSTANTS
  Keys,        \* member keys that may ever appear in the collection
  MaxRing,     \* rings are numbered 0 .. MaxRing
  RingSize,    \* keys a ring holds before onboarding opens the next one
  PageSize,    \* keys on one page of RingKeys
  BuildLimit,  \* RingBuildingMemberLimit: keys one build adds to a root
  Flexible,    \* the collection's mode: Flexible, or AppendOnly when FALSE
  MaxHeight    \* bound of the model: the number of finalized blocks

\* In a Flexible collection all keys of a ring live on page 0.
ASSUME ChainAssumption ==
  /\ IsFiniteSet(Keys)
  /\ MaxRing \in Nat
  /\ RingSize \in Nat \ {0}
  /\ PageSize \in Nat \ {0}
  /\ BuildLimit \in Nat \ {0}
  /\ Flexible \in BOOLEAN
  /\ Flexible => RingSize <= PageSize
  /\ MaxHeight \in Nat

VARIABLE chain   \* the latest finalized block of the People chain

Rings  == 0 .. MaxRing
Pages  == 0 .. RingSize
Status == {"missing", "Onboarding", "Included", "Suspended"}
NoRoot == -1     \* Members.Root has no value for the ring

\* A key's place in RingKeys; also the value of an Included Members entry.
Slot == [ring : Rings, page : Pages, position : Nat]

\* `placed` are the keys on some RingKeys page, `slot` says where, and
\* `top` is the ring onboarding currently fills.
Block ==
  [ height   : Nat,
    status   : [Keys -> Status],
    placed   : SUBSET Keys,
    slot     : [Keys -> Slot],
    top      : Rings,
    included : [Rings -> Nat],
    revision : [Rings -> Int] ]

NoSlot == [ring |-> 0, page |-> 0, position |-> 0]

RingSet(b, r)     == {k \in b.placed : b.slot[k].ring = r}
PageKeys(b, r, p) == {k \in RingSet(b, r) : b.slot[k].page = p}

Genesis ==
  [ height   |-> 0,
    status   |-> [k \in Keys |-> "missing"],
    placed   |-> {},
    slot     |-> [k \in Keys |-> NoSlot],
    top      |-> 0,
    included |-> [r \in Rings |-> 0],
    revision |-> [r \in Rings |-> NoRoot] ]

ChainInit == chain = Genesis

-----------------------------------------------------------------------------
(* Each action is the next finalized block, with the one call that matters. *)

\* A block that changes nothing in the collection.
EmptyBlock ==
  /\ chain.height < MaxHeight
  /\ chain' = [chain EXCEPT !.height = @ + 1]

\* Attestations land: their keys wait in the onboarding queue.
Register(K) ==
  /\ chain.height < MaxHeight
  /\ K # {}
  /\ \A k \in K : chain.status[k] = "missing"
  /\ chain' = [chain EXCEPT !.height = @ + 1,
                            !.status = [k \in Keys |-> IF k \in K THEN "Onboarding"
                                                       ELSE @[k]]]

\* onboard_members: the key is appended to RingKeys and its Members entry
\* turns Included, before any build bakes it into the root.
Onboard(k, r, p) ==
  /\ chain.height < MaxHeight
  /\ chain.status[k] = "Onboarding"
  /\ r = IF Cardinality(RingSet(chain, chain.top)) < RingSize
         THEN chain.top ELSE chain.top + 1
  /\ Cardinality(RingSet(chain, r)) < RingSize
  /\ Cardinality(PageKeys(chain, r, p)) < PageSize
  /\ \A q \in 0 .. p - 1 : Cardinality(PageKeys(chain, r, q)) = PageSize
  /\ LET place == [ring |-> r, page |-> p,
                   position |-> Cardinality(PageKeys(chain, r, p))]
     IN  chain' = [chain EXCEPT !.height = @ + 1,
                                !.status[k] = "Included",
                                !.placed = @ \cup {k},
                                !.slot[k] = place,
                                !.top = r]

\* build_ring: up to BuildLimit further keys enter the root of ring r.
BuildRing(r) ==
  LET total == Cardinality(RingSet(chain, r))
      grown == chain.included[r] + BuildLimit
  IN  /\ chain.height < MaxHeight
      /\ chain.included[r] < total
      /\ chain' = [chain EXCEPT !.height = @ + 1,
                                !.included[r] = IF grown < total THEN grown ELSE total,
                                !.revision[r] = @ + 1]

\* Only a Flexible collection suspends members; the key stays in RingKeys.
Suspend(k) ==
  /\ Flexible
  /\ chain.height < MaxHeight
  /\ chain.status[k] = "Included"
  /\ chain' = [chain EXCEPT !.height = @ + 1,
                            !.status[k] = "Suspended"]

Gone(b, r) == {k \in RingSet(b, r) : b.status[k] = "Suspended"}

\* How many keys that stay are ahead of k on its page.
Ahead(b, k) ==
  Cardinality({j \in PageKeys(b, b.slot[k].ring, b.slot[k].page) :
                 /\ b.status[j] # "Suspended"
                 /\ b.slot[j].position < b.slot[k].position})

\* remove_suspended_keys: the keys leave the ring, the rest close ranks and
\* the root starts over.  A suspended member does not come back.
RemoveSuspended(r) ==
  /\ Flexible
  /\ chain.height < MaxHeight
  /\ Gone(chain, r) # {}
  /\ chain' =
       [chain EXCEPT
          !.height = @ + 1,
          !.placed = @ \ Gone(chain, r),
          !.slot = [k \in Keys |->
                      IF k \in Gone(chain, r) THEN NoSlot
                      ELSE IF k \in RingSet(chain, r)
                           THEN [@[k] EXCEPT !.position = Ahead(chain, k)]
                           ELSE @[k]],
          !.included[r] = 0]

ChainNext ==
  \/ EmptyBlock
  \/ \E K \in SUBSET Keys : Register(K)
  \/ \E k \in Keys : Suspend(k)
  \/ \E k \in Keys, r \in Rings, p \in Pages : Onboard(k, r, p)
  \/ \E r \in Rings : BuildRing(r) \/ RemoveSuspended(r)
=============================================================================
