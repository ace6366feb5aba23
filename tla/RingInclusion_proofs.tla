------------------------- MODULE RingInclusion_proofs -------------------------
(***************************************************************************)
(* Proofs about RingInclusion, for every set of keys, ring and page size,  *)
(* build limit, timeout and settling time.                                 *)
(***************************************************************************)
EXTENDS RingInclusion, FiniteSetTheorems, TLAPS

Placed == {"Included", "Suspended"}

-----------------------------------------------------------------------------
(* What holds of every finalized block. *)

\* The keys on one page have distinct positions 0 .. n - 1.
PagesDense(b) ==
  /\ \A j, k \in b.placed : b.slot[j] = b.slot[k] => j = k
  /\ \A k \in b.placed :
       b.slot[k].position < Cardinality(PageKeys(b, b.slot[k].ring, b.slot[k].page))

\* No empty page lies before a key.
NoGaps(b) ==
  \A k \in b.placed : \A q \in 0 .. b.slot[k].page - 1 :
    PageKeys(b, b.slot[k].ring, q) # {}

ChainOK(b) ==
  /\ b \in Block
  /\ \A k \in b.placed : b.status[k] \in Placed
  /\ \A k \in Keys : b.status[k] = "Included" => k \in b.placed
  /\ PagesDense(b)
  /\ NoGaps(b)
  /\ Flexible => \A k \in b.placed : b.slot[k].page = 0

\* From an earlier block b to a later block c, a key that was ever placed
\* keeps its ring and page, only moves forward, and never comes back.
Evolved(b, c) ==
  \A k \in Keys : b.status[k] \in Placed =>
    /\ c.status[k] \in Placed
    /\ k \in c.placed =>
         /\ k \in b.placed
         /\ c.slot[k].ring = b.slot[k].ring
         /\ c.slot[k].page = b.slot[k].page
         /\ c.slot[k].position <= b.slot[k].position

-----------------------------------------------------------------------------
(* Counting. *)

\* Every set of placed keys is finite.
LEMMA PlacedFinite ==
  ASSUME NEW b \in Block, NEW S \in SUBSET b.placed
  PROVE  IsFiniteSet(S) /\ Cardinality(S) \in Nat
<1>1. S \in SUBSET Keys
  BY DEF Block
<1>2. IsFiniteSet(S)
  BY <1>1, FS_Subset, ChainAssumption
<1>3. QED
  BY <1>2, FS_CardinalityType

\* The keys of a page ahead of position n: at most n of them, and exactly n
\* when n is the position of one of the keys.
PageAhead(b, r, p, n) == {j \in PageKeys(b, r, p) : b.slot[j].position < n}

LEMMA AheadExact ==
  ASSUME NEW b, ChainOK(b), NEW k \in b.placed
  PROVE  Cardinality(PageAhead(b, b.slot[k].ring, b.slot[k].page, b.slot[k].position))
           = b.slot[k].position
<1> DEFINE r == b.slot[k].ring
           p == b.slot[k].page
           n == b.slot[k].position
           P == PageKeys(b, r, p)
           c == Cardinality(P)
           f == [j \in P |-> b.slot[j].position]
           A == PageAhead(b, r, p, n)
           g == [j \in A |-> b.slot[j].position]
<1>1. /\ b \in Block
      /\ b.placed \subseteq Keys
      /\ b.slot \in [Keys -> Slot]
      /\ n \in Nat
  BY DEF ChainOK, Block, Slot
<1>2. P \in SUBSET b.placed /\ A \in SUBSET P
  BY DEF PageKeys, RingSet, PageAhead
<1>3. IsFiniteSet(P) /\ c \in Nat
  BY <1>1, <1>2, PlacedFinite
<1>4. \A j \in P : b.slot[j].position \in Nat /\ b.slot[j].position < c
  BY <1>1 DEF ChainOK, PagesDense, PageKeys, RingSet, Block, Slot
<1>5. \A i, j \in P : b.slot[i].position = b.slot[j].position => i = j
  <2> TAKE i, j \in P
  <2> HAVE b.slot[i].position = b.slot[j].position
  <2>1. i \in b.placed /\ j \in b.placed /\ b.slot[i] \in Slot /\ b.slot[j] \in Slot
    BY <1>1, <1>2
  <2>2. b.slot[i].ring = b.slot[j].ring /\ b.slot[i].page = b.slot[j].page
    BY DEF PageKeys, RingSet
  <2>3. b.slot[i] = b.slot[j]
    BY <2>1, <2>2 DEF Slot
  <2>4. QED
    BY <2>1, <2>3 DEF ChainOK, PagesDense
<1>6. f \in Injection(P, 0 .. c - 1)
  BY <1>3, <1>4, <1>5 DEF Injection, IsInjective
<1>7. IsFiniteSet(0 .. c - 1) /\ Cardinality(0 .. c - 1) = c
  BY <1>3, FS_Interval
<1>8. f \in Surjection(P, 0 .. c - 1)
  BY <1>3, <1>6, <1>7, FS_Injection
<1>9. n < c
  BY DEF ChainOK, PagesDense
<1>10. g \in Bijection(A, 0 .. n - 1)
  <2>1. g \in [A -> 0 .. n - 1]
    BY <1>1, <1>2, <1>4 DEF PageAhead
  <2>2. \A i, j \in A : g[i] = g[j] => i = j
    BY <1>2, <1>5
  <2>3. \A m \in 0 .. n - 1 : \E j \in A : g[j] = m
    <3> TAKE m \in 0 .. n - 1
    <3>1. m \in 0 .. c - 1
      BY <1>1, <1>3, <1>9
    <3>2. PICK j \in P : f[j] = m
      BY <1>8, <3>1 DEF Surjection
    <3>3. j \in A
      BY <1>1, <3>2 DEF PageAhead
    <3>4. QED
      BY <3>2, <3>3
  <2>4. QED
    BY <2>1, <2>2, <2>3 DEF Bijection, Injection, Surjection, IsInjective
<1>11. IsFiniteSet(A)
  BY <1>2, <1>3, FS_Subset
<1>12. Cardinality(0 .. n - 1) = Cardinality(A)
  BY <1>10, <1>11, FS_Bijection DEF ExistsBijection
<1>13. Cardinality(0 .. n - 1) = n
  BY <1>1, FS_Interval
<1>14. QED
  BY <1>12, <1>13

\* A key's index in the page walk is its position plus the lengths of the
\* pages before its own: what isInRoot adds up.
LEMMA RankIsIndex ==
  ASSUME NEW b, ChainOK(b), NEW k \in b.placed
  PROVE  /\ Rank(b, k) = b.slot[k].position
                           + Cardinality(KeysBefore(b, b.slot[k].ring, b.slot[k].page))
         /\ b.slot[k].position \in Nat
         /\ Cardinality(KeysBefore(b, b.slot[k].ring, b.slot[k].page)) \in Nat
<1> DEFINE r == b.slot[k].ring
           p == b.slot[k].page
           n == b.slot[k].position
           A == PageAhead(b, r, p, n)
           E == KeysBefore(b, r, p)
           R == {j \in RingSet(b, r) : Before(b.slot[j], b.slot[k])}
<1>1. b \in Block /\ b.placed \subseteq Keys /\ b.slot \in [Keys -> Slot]
  BY DEF ChainOK, Block
<1>2. n \in Nat /\ p \in Int
  BY <1>1 DEF Slot, Pages
<1>3. \A j \in b.placed : b.slot[j].page \in Int /\ b.slot[j].position \in Nat
  BY <1>1 DEF Slot, Pages
<1>4. R = E \cup A /\ E \cap A = {}
  BY <1>2, <1>3 DEF Before, KeysBefore, PageAhead, PageKeys, RingSet
<1>5. E \in SUBSET b.placed /\ A \in SUBSET b.placed
  BY DEF KeysBefore, PageAhead, PageKeys, RingSet
<1>6. IsFiniteSet(E) /\ IsFiniteSet(A) /\ Cardinality(E) \in Nat
  BY <1>1, <1>5, PlacedFinite
<1>7. Cardinality(R) = Cardinality(E) + Cardinality(A)
  <2>1. Cardinality(E \cup A)
          = Cardinality(E) + Cardinality(A) - Cardinality(E \cap A)
    BY <1>6, FS_Union
  <2>2. Cardinality(E \cap A) = 0
    BY <1>4, FS_EmptySet
  <2>3. Cardinality(A) \in Nat
    BY <1>6, FS_CardinalityType
  <2> HIDE DEF A, E, R
  <2>4. QED
    BY <1>4, <1>6, <2>1, <2>2, <2>3
<1>8. Cardinality(A) = n
  BY AheadExact
<1>9. Rank(b, k) = Cardinality(R)
  BY DEF Rank
<1>10. QED
  BY <1>2, <1>6, <1>7, <1>8, <1>9

\* isInRoot on a key's slot says what the sliced page walk says.
LEMMA ViewsAgree ==
  ASSUME NEW b, ChainOK(b), NEW k \in b.placed
  PROVE  IsInRoot(b, b.slot[k]) <=> k \in FetchRingMembers(b, b.slot[k].ring)
<1>1. b \in Block /\ b.slot[k] \in Slot
  BY DEF ChainOK, Block
<1>2. k \in PageKeys(b, b.slot[k].ring, b.slot[k].page)
  BY DEF PageKeys, RingSet
<1>3. \A q \in 0 .. b.slot[k].page : PageKeys(b, b.slot[k].ring, q) # {}
  <2> TAKE q \in 0 .. b.slot[k].page
  <2>1. CASE q = b.slot[k].page
    BY <1>2, <2>1
  <2>2. CASE q # b.slot[k].page
    <3>1. q \in 0 .. b.slot[k].page - 1
      BY <1>1, <2>2 DEF Slot, Pages
    <3>2. QED
      BY <3>1 DEF ChainOK, NoGaps
  <2>3. QED
    BY <2>1, <2>2
<1>4. k \in AllRingKeys(b, b.slot[k].ring)
  BY <1>3 DEF AllRingKeys, Reached, RingSet
<1>5. QED
  BY <1>4, RankIsIndex DEF IsInRoot, FetchRingMembers

-----------------------------------------------------------------------------
(* Every block the chain finalizes. *)

\* A block that keeps the keys, their places and the sizes of the pages, and
\* whose status changes keep placed keys placed, is as good as the last.
LEMMA SamePlaces ==
  ASSUME NEW b, ChainOK(b), NEW c \in Block,
         c.placed = b.placed, c.slot = b.slot,
         \A k \in Keys : b.status[k] \in Placed <=> c.status[k] \in Placed,
         \A k \in Keys : c.status[k] = "Included" => b.status[k] = "Included"
  PROVE  ChainOK(c) /\ Evolved(b, c)
<1>1. b \in Block
  BY DEF ChainOK
<1>2. \A r, q : PageKeys(c, r, q) = PageKeys(b, r, q)
  BY DEF PageKeys, RingSet
<1>3. b.placed \subseteq Keys
  BY <1>1 DEF Block
<1>4. /\ \A k \in c.placed : c.status[k] \in Placed
      /\ \A k \in Keys : c.status[k] = "Included" => k \in c.placed
  BY <1>3 DEF ChainOK
<1>5. PagesDense(c) /\ NoGaps(c)
  BY <1>2 DEF ChainOK, PagesDense, NoGaps
<1>6. ChainOK(c)
  BY <1>4, <1>5 DEF ChainOK
<1>7. \A k \in Keys : b.slot[k].position \in Int
  BY <1>1 DEF Block, Slot
<1>8. Evolved(b, c)
  BY <1>7 DEF Evolved
<1>9. QED
  BY <1>6, <1>8

LEMMA GenesisOK == ChainOK(Genesis)
<1>1. Genesis \in Block
  BY ChainAssumption DEF Genesis, Block, Rings, Pages, Slot, Status, NoSlot, NoRoot
<1>2. /\ Genesis.placed = {}
      /\ \A k \in Keys : Genesis.status[k] = "missing"
  BY DEF Genesis
<1>3. QED
  BY <1>1, <1>2 DEF ChainOK, PagesDense, NoGaps

LEMMA OnboardOK ==
  ASSUME NEW b, ChainOK(b), chain = b,
         NEW k \in Keys, NEW r \in Rings, NEW p \in Pages, Onboard(k, r, p)
  PROVE  ChainOK(chain') /\ Evolved(b, chain')
<1> DEFINE n == Cardinality(PageKeys(b, r, p))
           s == [ring |-> r, page |-> p, position |-> n]
           c == chain'
<1>1. b \in Block /\ b.placed \subseteq Keys /\ b.slot \in [Keys -> Slot]
  BY DEF ChainOK, Block
<1>2. \A R, P : PageKeys(b, R, P) \in SUBSET b.placed
  BY DEF PageKeys, RingSet
<1>3. \A R, P : IsFiniteSet(PageKeys(b, R, P)) /\ Cardinality(PageKeys(b, R, P)) \in Nat
  BY <1>1, <1>2, PlacedFinite
<1>4. s \in Slot
  BY <1>3 DEF Slot
<1>5. c = [b EXCEPT !.height = @ + 1, !.status[k] = "Included",
                    !.placed = @ \cup {k}, !.slot[k] = s, !.top = r]
  BY DEF Onboard
<1>6. /\ c.placed = b.placed \cup {k}
      /\ c.slot = [b.slot EXCEPT ![k] = s]
      /\ c.status = [b.status EXCEPT ![k] = "Included"]
      /\ c.height = b.height + 1
      /\ c.top = r
      /\ c.included = b.included
      /\ c.revision = b.revision
  BY <1>1, <1>5 DEF Block
<1>7. c \in Block
  <2>1. b.height + 1 \in Nat
    BY <1>1 DEF Block
  <2>2. [b.slot EXCEPT ![k] = s] \in [Keys -> Slot]
    BY <1>1, <1>4
  <2>3. [b.status EXCEPT ![k] = "Included"] \in [Keys -> Status]
    BY <1>1 DEF Block, Status
  <2>4. QED
    BY <1>1, <1>5, <2>1, <2>2, <2>3 DEF Block
<1>8. b.status[k] = "Onboarding" /\ k \notin b.placed
  BY DEF Onboard, ChainOK, Placed
<1>9. \A j \in b.placed : j # k /\ c.slot[j] = b.slot[j] /\ c.status[j] = b.status[j]
  BY <1>1, <1>6, <1>8 DEF Block
<1>10. c.slot[k] = s /\ c.status[k] = "Included" /\ k \in c.placed
  BY <1>1, <1>6 DEF Block
<1>11. PageKeys(c, r, p) = PageKeys(b, r, p) \cup {k}
  BY <1>6, <1>9, <1>10 DEF PageKeys, RingSet
<1>12. \A R, P : R # r \/ P # p => PageKeys(c, R, P) = PageKeys(b, R, P)
  BY <1>6, <1>9, <1>10 DEF PageKeys, RingSet
<1>13. Cardinality(PageKeys(c, r, p)) = n + 1
  <2>1. k \notin PageKeys(b, r, p)
    BY <1>2, <1>8
  <2>2. QED
    BY <1>3, <1>11, <2>1, FS_AddElement
<1>14. \A j \in b.placed : b.slot[j] # s
  <2> SUFFICES ASSUME NEW j \in b.placed, b.slot[j] = s
               PROVE  FALSE
    OBVIOUS
  <2>1. b.slot[j].position < Cardinality(PageKeys(b, b.slot[j].ring, b.slot[j].page))
    BY DEF ChainOK, PagesDense
  <2>2. n < n
    BY <2>1
  <2>3. QED
    BY <1>3, <2>2
<1>15. PagesDense(c)
  <2>1. ASSUME NEW i \in c.placed, NEW j \in c.placed, c.slot[i] = c.slot[j]
        PROVE  i = j
    BY <1>6, <1>9, <1>10, <1>14, <2>1 DEF ChainOK, PagesDense
  <2>2. ASSUME NEW j \in c.placed
        PROVE  c.slot[j].position < Cardinality(PageKeys(c, c.slot[j].ring, c.slot[j].page))
    <3>1. CASE j = k
      <4>1. c.slot[j].position = n /\ c.slot[j].ring = r /\ c.slot[j].page = p
        BY <1>10, <3>1
      <4>2. QED
        BY <1>3, <1>13, <4>1
    <3>2. CASE j # k
      <4> DEFINE R == b.slot[j].ring
                 P == b.slot[j].page
      <4>1. j \in b.placed /\ c.slot[j] = b.slot[j]
        BY <1>6, <1>9, <3>2
      <4>2. b.slot[j].position < Cardinality(PageKeys(b, R, P))
        BY <4>1 DEF ChainOK, PagesDense
      <4>3. b.slot[j].position \in Nat
        BY <1>1, <4>1 DEF Slot
      <4>4. Cardinality(PageKeys(b, R, P)) <= Cardinality(PageKeys(c, R, P))
        <5>1. CASE R = r /\ P = p
          BY <1>3, <1>13, <5>1
        <5>2. CASE R # r \/ P # p
          BY <1>3, <1>12, <5>2
        <5>3. QED
          BY <5>1, <5>2
      <4>5. Cardinality(PageKeys(c, R, P)) \in Nat
        <5>1. CASE R = r /\ P = p
          BY <1>3, <1>13, <5>1
        <5>2. CASE R # r \/ P # p
          BY <1>3, <1>12, <5>2
        <5>3. QED
          BY <5>1, <5>2
      <4>6. QED
        BY <1>3, <4>1, <4>2, <4>3, <4>4, <4>5
    <3>3. QED
      BY <3>1, <3>2
  <2>3. QED
    BY <2>1, <2>2 DEF PagesDense
<1>16. NoGaps(c)
  <2> SUFFICES ASSUME NEW j \in c.placed, NEW q \in 0 .. c.slot[j].page - 1
               PROVE  PageKeys(c, c.slot[j].ring, q) # {}
    BY DEF NoGaps
  <2>1. \A R, P : PageKeys(b, R, P) \subseteq PageKeys(c, R, P)
    <3> TAKE R, P
    <3>1. CASE R = r /\ P = p
      BY <1>11, <3>1
    <3>2. CASE R # r \/ P # p
      BY <1>12, <3>2
    <3>3. QED
      BY <3>1, <3>2
  <2>2. CASE j = k
    <3>1. q \in 0 .. p - 1 /\ c.slot[j].ring = r
      BY <1>10, <2>2
    <3>2. Cardinality(PageKeys(b, r, q)) = PageSize
      BY <3>1 DEF Onboard
    <3>3. PageKeys(b, r, q) # {}
      BY <3>2, FS_EmptySet, ChainAssumption
    <3>4. QED
      BY <2>1, <3>1, <3>3
  <2>3. CASE j # k
    <3>1. j \in b.placed /\ c.slot[j] = b.slot[j]
      BY <1>6, <1>9, <2>3
    <3>2. PageKeys(b, b.slot[j].ring, q) # {}
      BY <3>1 DEF ChainOK, NoGaps
    <3>3. QED
      BY <2>1, <3>1, <3>2
  <2>4. QED
    BY <2>2, <2>3
<1>17. ASSUME Flexible
       PROVE  \A j \in c.placed : c.slot[j].page = 0
  <2>1. p = 0
    <3> SUFFICES ASSUME p # 0 PROVE FALSE
      OBVIOUS
    <3>1. 0 \in 0 .. p - 1
      BY DEF Pages
    <3>2. Cardinality(PageKeys(b, r, 0)) = PageSize
      BY <3>1 DEF Onboard
    <3>3. RingSet(b, r) \in SUBSET b.placed /\ PageKeys(b, r, 0) \in SUBSET RingSet(b, r)
      BY DEF PageKeys, RingSet
    <3>4. IsFiniteSet(RingSet(b, r)) /\ Cardinality(RingSet(b, r)) \in Nat
      BY <1>1, <3>3, PlacedFinite
    <3>5. Cardinality(PageKeys(b, r, 0)) <= Cardinality(RingSet(b, r))
      BY <3>3, <3>4, FS_Subset
    <3>6. Cardinality(RingSet(b, r)) < RingSize
      BY DEF Onboard
    <3>7. QED
      BY <1>17, <3>2, <3>4, <3>5, <3>6, ChainAssumption
  <2>2. QED
    BY <1>6, <1>9, <1>10, <1>17, <2>1 DEF ChainOK
<1>18. /\ \A j \in c.placed : c.status[j] \in Placed
       /\ \A j \in Keys : c.status[j] = "Included" => j \in c.placed
  BY <1>1, <1>6, <1>9, <1>10 DEF ChainOK, Placed, Block
<1>19. ChainOK(c)
  BY <1>7, <1>15, <1>16, <1>17, <1>18 DEF ChainOK
<1>20. Evolved(b, c)
  <2> SUFFICES ASSUME NEW j \in Keys, b.status[j] \in Placed
               PROVE  /\ c.status[j] \in Placed
                      /\ j \in c.placed =>
                           /\ j \in b.placed
                           /\ c.slot[j].ring = b.slot[j].ring
                           /\ c.slot[j].page = b.slot[j].page
                           /\ c.slot[j].position <= b.slot[j].position
    BY DEF Evolved
  <2>1. j # k
    BY <1>8 DEF Placed
  <2>2. c.status[j] = b.status[j] /\ c.slot[j] = b.slot[j]
    BY <1>1, <1>6, <2>1 DEF Block
  <2>3. b.slot[j].position \in Int
    BY <1>1 DEF Slot
  <2>4. QED
    BY <1>6, <2>1, <2>2, <2>3
<1>21. QED
  BY <1>19, <1>20

LEMMA RemoveSuspendedOK ==
  ASSUME NEW b, ChainOK(b), chain = b,
         NEW r \in Rings, RemoveSuspended(r)
  PROVE  ChainOK(chain') /\ Evolved(b, chain')
<1> DEFINE c == chain'
           G == Gone(b, r)
           moved == [k \in Keys |->
                       IF k \in Gone(b, r) THEN NoSlot
                       ELSE IF k \in RingSet(b, r)
                            THEN [b.slot[k] EXCEPT !.position = Ahead(b, k)]
                            ELSE b.slot[k]]
           Stay(k) == {j \in PageKeys(b, b.slot[k].ring, b.slot[k].page) :
                         /\ b.status[j] # "Suspended"
                         /\ b.slot[j].position < b.slot[k].position}
<1>1. b \in Block /\ b.placed \subseteq Keys /\ b.slot \in [Keys -> Slot]
  BY DEF ChainOK, Block
<1>2. c = [b EXCEPT !.height = @ + 1, !.placed = @ \ G, !.slot = moved, !.included[r] = 0]
  BY <1>1 DEF RemoveSuspended
<1>3. /\ c.placed = b.placed \ G
      /\ c.slot = moved
      /\ c.status = b.status
  BY <1>1, <1>2 DEF Block
<1>4. ASSUME NEW k \in b.placed
      PROVE  /\ IsFiniteSet(Stay(k))
             /\ Ahead(b, k) = Cardinality(Stay(k))
             /\ Ahead(b, k) \in Nat
             /\ Ahead(b, k) <= b.slot[k].position
  <2> DEFINE A == PageAhead(b, b.slot[k].ring, b.slot[k].page, b.slot[k].position)
  <2>1. Ahead(b, k) = Cardinality(Stay(k))
    BY DEF Ahead
  <2>2. A \in SUBSET b.placed /\ Stay(k) \in SUBSET A
    BY DEF PageAhead, PageKeys, RingSet
  <2>3. IsFiniteSet(A) /\ Cardinality(A) = b.slot[k].position
    BY <1>1, <2>2, PlacedFinite, AheadExact
  <2>4. IsFiniteSet(Stay(k)) /\ Cardinality(Stay(k)) <= Cardinality(A)
    BY <2>2, <2>3, FS_Subset
  <2>5. Cardinality(Stay(k)) \in Nat
    BY <2>4, FS_CardinalityType
  <2>6. QED
    BY <2>1, <2>3, <2>4, <2>5
<1>5. moved \in [Keys -> Slot]
  <2>1. NoSlot \in Slot
    BY ChainAssumption DEF NoSlot, Slot, Rings, Pages
  <2>2. ASSUME NEW k \in Keys, k \in RingSet(b, r)
        PROVE  [b.slot[k] EXCEPT !.position = Ahead(b, k)] \in Slot
    <3>1. k \in b.placed
      BY <2>2 DEF RingSet
    <3>2. QED
      BY <1>1, <1>4, <3>1 DEF Slot
  <2>3. QED
    BY <1>1, <2>1, <2>2
<1>6. c \in Block
  <2>1. b.height + 1 \in Nat
    BY <1>1 DEF Block
  <2>2. [b.included EXCEPT ![r] = 0] \in [Rings -> Nat]
    BY <1>1 DEF Block
  <2>3. b.placed \ G \in SUBSET Keys
    BY <1>1
  <2> HIDE DEF G, moved
  <2>4. QED
    BY <1>1, <1>2, <1>5, <2>1, <2>2, <2>3 DEF Block
<1>7. ASSUME NEW k \in c.placed
      PROVE  /\ k \in b.placed /\ k \in Keys
             /\ c.slot[k].ring = b.slot[k].ring
             /\ c.slot[k].page = b.slot[k].page
             /\ b.slot[k].ring = r => /\ c.slot[k].position = Ahead(b, k)
                                      /\ b.status[k] # "Suspended"
             /\ b.slot[k].ring # r => c.slot[k] = b.slot[k]
  <2>1. k \in b.placed /\ k \notin G /\ k \in Keys
    BY <1>1, <1>3
  <2>2. b.slot[k] \in Slot
    BY <1>1, <2>1
  <2>3. CASE b.slot[k].ring = r
    <3>1. k \in RingSet(b, r)
      BY <2>1, <2>3 DEF RingSet
    <3>2. c.slot[k] = [b.slot[k] EXCEPT !.position = Ahead(b, k)]
      BY <1>3, <2>1, <3>1
    <3>3. b.status[k] # "Suspended"
      BY <2>1, <3>1 DEF Gone
    <3>4. QED
      BY <2>1, <2>2, <2>3, <3>2, <3>3 DEF Slot
  <2>4. CASE b.slot[k].ring # r
    <3>1. k \notin RingSet(b, r)
      BY <2>4 DEF RingSet
    <3>2. c.slot[k] = b.slot[k]
      BY <1>3, <2>1, <3>1
    <3>3. QED
      BY <2>1, <2>4, <3>2
  <2>5. QED
    BY <2>3, <2>4
<1>8. \A R, P : R # r => PageKeys(c, R, P) = PageKeys(b, R, P)
  <2> TAKE R, P
  <2> HAVE R # r
  <2>1. PageKeys(c, R, P) \subseteq PageKeys(b, R, P)
    BY <1>7 DEF PageKeys, RingSet
  <2>2. ASSUME NEW k \in PageKeys(b, R, P)
        PROVE  k \in PageKeys(c, R, P)
    <3>1. k \in b.placed /\ b.slot[k].ring = R /\ b.slot[k].page = P
      BY DEF PageKeys, RingSet
    <3>2. k \in c.placed
      BY <1>3, <3>1 DEF Gone, RingSet
    <3>3. QED
      BY <1>7, <3>1, <3>2 DEF PageKeys, RingSet
  <2>3. QED
    BY <2>1, <2>2
<1>9. \A P : PageKeys(c, r, P) = {k \in PageKeys(b, r, P) : b.status[k] # "Suspended"}
  <2> TAKE P
  <2>1. ASSUME NEW k \in PageKeys(c, r, P)
        PROVE  k \in PageKeys(b, r, P) /\ b.status[k] # "Suspended"
    BY <1>7 DEF PageKeys, RingSet
  <2>2. ASSUME NEW k \in PageKeys(b, r, P), b.status[k] # "Suspended"
        PROVE  k \in PageKeys(c, r, P)
    <3>1. k \in b.placed /\ b.slot[k].ring = r /\ b.slot[k].page = P
      BY DEF PageKeys, RingSet
    <3>2. k \in c.placed
      BY <1>3, <2>2, <3>1 DEF Gone
    <3>3. QED
      BY <1>7, <3>1, <3>2 DEF PageKeys, RingSet
  <2>3. QED
    BY <2>1, <2>2
<1>10. ASSUME NEW k \in c.placed, b.slot[k].ring = r
       PROVE  c.slot[k].position < Cardinality(PageKeys(c, r, c.slot[k].page))
  <2> DEFINE Q == PageKeys(c, r, c.slot[k].page)
  <2>1. k \in Q
    BY <1>7, <1>10 DEF PageKeys, RingSet
  <2>2. Q \in SUBSET c.placed
    BY DEF PageKeys, RingSet
  <2>3. IsFiniteSet(Q)
    BY <1>6, <2>2, PlacedFinite
  <2>4. Stay(k) \in SUBSET (Q \ {k})
    <3>1. b.slot[k].position \in Int
      BY <1>1, <1>7 DEF Slot
    <3>2. QED
      BY <1>7, <1>9, <1>10, <3>1
  <2>5. IsFiniteSet(Q \ {k}) /\ Cardinality(Q \ {k}) = Cardinality(Q) - 1
    BY <2>1, <2>3, FS_RemoveElement
  <2>6. Cardinality(Stay(k)) <= Cardinality(Q \ {k})
    BY <2>4, <2>5, FS_Subset
  <2>7. Cardinality(Q) \in Nat
    BY <2>3, FS_CardinalityType
  <2>8. c.slot[k].position = Cardinality(Stay(k)) /\ Cardinality(Stay(k)) \in Nat
    BY <1>4, <1>7, <1>10
  <2> HIDE DEF Q, Stay
  <2>9. c.slot[k].position < Cardinality(Q)
    BY <2>5, <2>6, <2>7, <2>8
  <2>10. QED
    BY <2>9 DEF Q
<1>11. ASSUME NEW i \in c.placed, NEW j \in c.placed,
              b.slot[i].ring = r, b.slot[j].ring = r,
              b.slot[i].page = b.slot[j].page,
              b.slot[i].position < b.slot[j].position
       PROVE  Ahead(b, i) < Ahead(b, j)
  <2>1. /\ i \in b.placed /\ j \in b.placed
        /\ b.status[i] # "Suspended"
        /\ b.slot[i].position \in Int /\ b.slot[j].position \in Int
    BY <1>1, <1>7, <1>11 DEF Slot
  <2>2. i \in Stay(j) /\ i \notin Stay(i)
    BY <1>11, <2>1 DEF PageKeys, RingSet
  <2>3. Stay(i) \in SUBSET Stay(j)
    <3>1. ASSUME NEW m \in Stay(i)
          PROVE  m \in Stay(j)
      <4>1. m \in b.placed
        BY DEF PageKeys, RingSet
      <4>2. b.slot[m].position \in Int
        BY <1>1, <4>1 DEF Slot
      <4>3. QED
        BY <1>11, <2>1, <4>2
    <3>2. QED
      BY <3>1
  <2>4. IsFiniteSet(Stay(j)) /\ Ahead(b, j) = Cardinality(Stay(j)) /\ Ahead(b, j) \in Nat
    BY <1>4, <2>1
  <2>5. Ahead(b, i) = Cardinality(Stay(i)) /\ Ahead(b, i) \in Nat
    BY <1>4, <2>1
  <2>6. /\ Cardinality(Stay(i)) <= Cardinality(Stay(j))
        /\ Cardinality(Stay(i)) = Cardinality(Stay(j)) => Stay(j) = Stay(i)
    BY <2>3, <2>4, FS_Subset
  <2> HIDE DEF Stay
  <2>7. Cardinality(Stay(i)) # Cardinality(Stay(j))
    BY <2>2, <2>6
  <2>8. QED
    BY <2>4, <2>5, <2>6, <2>7
<1>12. PagesDense(c)
  <2>1. ASSUME NEW i \in c.placed, NEW j \in c.placed, c.slot[i] = c.slot[j]
        PROVE  i = j
    <3>1. /\ i \in b.placed /\ j \in b.placed
          /\ b.slot[i] \in Slot /\ b.slot[j] \in Slot
          /\ b.slot[i].ring = b.slot[j].ring
          /\ b.slot[i].page = b.slot[j].page
      BY <1>1, <1>7, <2>1
    <3>2. b.slot[i].position = b.slot[j].position
      <4>1. CASE b.slot[i].ring = r
        <5>1. Ahead(b, i) = Ahead(b, j) /\ Ahead(b, i) \in Nat
          BY <1>4, <1>7, <2>1, <3>1, <4>1
        <5>2. ASSUME b.slot[i].position < b.slot[j].position
              PROVE  FALSE
          <6>1. Ahead(b, i) < Ahead(b, j)
            BY <1>11, <3>1, <4>1, <5>2
          <6>2. QED
            BY <5>1, <6>1
        <5>3. ASSUME b.slot[j].position < b.slot[i].position
              PROVE  FALSE
          <6>1. Ahead(b, j) < Ahead(b, i)
            BY <1>11, <3>1, <4>1, <5>3
          <6>2. QED
            BY <5>1, <6>1
        <5>4. QED
          BY <3>1, <5>2, <5>3 DEF Slot
      <4>2. CASE b.slot[i].ring # r
        BY <1>7, <2>1, <3>1, <4>2
      <4>3. QED
        BY <4>1, <4>2
    <3>3. b.slot[i] = b.slot[j]
      BY <3>1, <3>2 DEF Slot
    <3>4. QED
      BY <3>1, <3>3 DEF ChainOK, PagesDense
  <2>2. ASSUME NEW k \in c.placed
        PROVE  c.slot[k].position < Cardinality(PageKeys(c, c.slot[k].ring, c.slot[k].page))
    <3>1. CASE b.slot[k].ring = r
      BY <1>7, <1>10, <3>1
    <3>2. CASE b.slot[k].ring # r
      BY <1>7, <1>8, <3>2 DEF ChainOK, PagesDense
    <3>3. QED
      BY <3>1, <3>2
  <2>3. QED
    BY <2>1, <2>2 DEF PagesDense
<1>13. \A k \in c.placed : c.slot[k].page = 0
  BY <1>7 DEF RemoveSuspended, ChainOK
<1>14. NoGaps(c)
  <2> SUFFICES ASSUME NEW k \in c.placed, NEW q \in 0 .. c.slot[k].page - 1
               PROVE  FALSE
    BY DEF NoGaps
  <2>1. q \in 0 .. -1
    BY <1>13
  <2>2. QED
    BY <2>1
<1>15. /\ \A k \in c.placed : c.status[k] \in Placed
       /\ \A k \in Keys : c.status[k] = "Included" => k \in c.placed
  BY <1>3 DEF ChainOK, Gone
<1>16. ChainOK(c)
  BY <1>6, <1>12, <1>13, <1>14, <1>15 DEF ChainOK
<1>17. Evolved(b, c)
  <2> SUFFICES ASSUME NEW k \in Keys, b.status[k] \in Placed
               PROVE  /\ c.status[k] \in Placed
                      /\ k \in c.placed =>
                           /\ k \in b.placed
                           /\ c.slot[k].ring = b.slot[k].ring
                           /\ c.slot[k].page = b.slot[k].page
                           /\ c.slot[k].position <= b.slot[k].position
    BY DEF Evolved
  <2>1. c.status[k] \in Placed
    BY <1>3
  <2>2. ASSUME k \in c.placed
        PROVE  c.slot[k].position <= b.slot[k].position
    <3>1. k \in b.placed /\ b.slot[k].position \in Int
      BY <1>1, <1>7, <2>2 DEF Slot
    <3>2. CASE b.slot[k].ring = r
      BY <1>4, <1>7, <2>2, <3>1, <3>2
    <3>3. CASE b.slot[k].ring # r
      BY <1>7, <2>2, <3>1, <3>3
    <3>4. QED
      BY <3>2, <3>3
  <2>3. QED
    BY <1>7, <2>1, <2>2
<1>18. QED
  BY <1>16, <1>17

\* Every block the chain may finalize next is well formed, and keys keep
\* their places or move forward.
LEMMA ChainStepOK ==
  ASSUME ChainOK(chain), ChainNext
  PROVE  ChainOK(chain') /\ Evolved(chain, chain')
<1>1. chain \in Block
  BY DEF ChainOK
<1>2. chain.height + 1 \in Nat
  BY <1>1 DEF Block
<1>3. CASE EmptyBlock
  <2>1. /\ chain' = [chain EXCEPT !.height = @ + 1]
        /\ chain' \in Block
    BY <1>1, <1>2, <1>3 DEF EmptyBlock, Block
  <2>2. /\ chain'.placed = chain.placed
        /\ chain'.slot = chain.slot
        /\ chain'.status = chain.status
    BY <1>1, <2>1 DEF Block
  <2>3. QED
    BY <2>1, <2>2, SamePlaces
<1>4. ASSUME NEW K \in SUBSET Keys, Register(K)
      PROVE  ChainOK(chain') /\ Evolved(chain, chain')
  <2> DEFINE st == [k \in Keys |-> IF k \in K THEN "Onboarding" ELSE chain.status[k]]
  <2>1. st \in [Keys -> Status]
    BY <1>1 DEF Block, Status
  <2>2. chain' = [chain EXCEPT !.height = @ + 1, !.status = st]
    BY <1>1, <1>4 DEF Register
  <2>3. /\ chain'.placed = chain.placed
        /\ chain'.slot = chain.slot
        /\ chain'.status = st
    BY <1>1, <2>2 DEF Block
  <2>4. chain' \in Block
    <3> HIDE DEF st
    <3>1. QED
      BY <1>1, <1>2, <2>1, <2>2 DEF Block
  <2>5. \A k \in Keys : chain.status[k] \in Placed <=> st[k] \in Placed
    BY <1>4 DEF Register, Placed
  <2>6. \A k \in Keys : st[k] = "Included" => chain.status[k] = "Included"
    OBVIOUS
  <2>7. QED
    BY <2>3, <2>4, <2>5, <2>6, SamePlaces
<1>5. ASSUME NEW k \in Keys, Suspend(k)
      PROVE  ChainOK(chain') /\ Evolved(chain, chain')
  <2> DEFINE st == [chain.status EXCEPT ![k] = "Suspended"]
  <2>1. st \in [Keys -> Status]
    BY <1>1 DEF Block, Status
  <2>2. chain' = [chain EXCEPT !.height = @ + 1, !.status = st]
    BY <1>1, <1>5 DEF Suspend, Block
  <2>3. /\ chain'.placed = chain.placed
        /\ chain'.slot = chain.slot
        /\ chain'.status = st
    BY <1>1, <2>2 DEF Block
  <2>4. chain' \in Block
    <3> HIDE DEF st
    <3>1. QED
      BY <1>1, <1>2, <2>1, <2>2 DEF Block
  <2>5. \A j \in Keys : chain.status[j] \in Placed <=> st[j] \in Placed
    BY <1>1, <1>5 DEF Suspend, Placed, Block
  <2>6. \A j \in Keys : st[j] = "Included" => chain.status[j] = "Included"
    BY <1>1 DEF Block
  <2>7. QED
    BY <2>3, <2>4, <2>5, <2>6, SamePlaces
<1>6. ASSUME NEW k \in Keys, NEW r \in Rings, NEW p \in Pages, Onboard(k, r, p)
      PROVE  ChainOK(chain') /\ Evolved(chain, chain')
  BY <1>6, OnboardOK
<1>7. ASSUME NEW r \in Rings, BuildRing(r)
      PROVE  ChainOK(chain') /\ Evolved(chain, chain')
  <2> DEFINE total == Cardinality(RingSet(chain, r))
             grown == chain.included[r] + BuildLimit
             n     == IF grown < total THEN grown ELSE total
  <2>1. chain' = [chain EXCEPT !.height = @ + 1, !.included[r] = n, !.revision[r] = @ + 1]
    BY <1>7 DEF BuildRing
  <2>2. n \in Nat
    <3>1. RingSet(chain, r) \in SUBSET chain.placed
      BY DEF RingSet
    <3>2. total \in Nat
      BY <1>1, <3>1, PlacedFinite
    <3>3. grown \in Nat
      BY <1>1, ChainAssumption DEF Block
    <3>4. QED
      BY <3>2, <3>3
  <2>3. /\ chain'.placed = chain.placed
        /\ chain'.slot = chain.slot
        /\ chain'.status = chain.status
    BY <1>1, <2>1 DEF Block
  <2>4. chain' \in Block
    <3>1. [chain.included EXCEPT ![r] = n] \in [Rings -> Nat]
      BY <1>1, <2>2 DEF Block
    <3>2. [chain.revision EXCEPT ![r] = @ + 1] \in [Rings -> Int]
      BY <1>1 DEF Block
    <3> HIDE DEF n
    <3>3. QED
      BY <1>1, <1>2, <2>1, <3>1, <3>2 DEF Block
  <2>5. QED
    BY <2>3, <2>4, SamePlaces
<1>8. ASSUME NEW r \in Rings, RemoveSuspended(r)
      PROVE  ChainOK(chain') /\ Evolved(chain, chain')
  BY <1>8, RemoveSuspendedOK
<1>9. QED
  BY <1>3, <1>4, <1>5, <1>6, <1>7, <1>8 DEF ChainNext

LEMMA EvolvedTransitive ==
  ASSUME NEW a \in Block, NEW b \in Block, NEW c \in Block,
         Evolved(a, b), Evolved(b, c)
  PROVE  Evolved(a, c)
<1> SUFFICES ASSUME NEW k \in Keys, a.status[k] \in Placed
             PROVE  /\ c.status[k] \in Placed
                    /\ k \in c.placed =>
                         /\ k \in a.placed
                         /\ c.slot[k].ring = a.slot[k].ring
                         /\ c.slot[k].page = a.slot[k].page
                         /\ c.slot[k].position <= a.slot[k].position
  BY DEF Evolved
<1>1. /\ a.slot[k].position \in Int
      /\ b.slot[k].position \in Int
      /\ c.slot[k].position \in Int
  BY DEF Block, Slot
<1>2. QED
  BY <1>1 DEF Evolved

LEMMA EvolvedReflexive ==
  ASSUME NEW b, ChainOK(b)
  PROVE  Evolved(b, b)
<1>1. b \in Block
  BY DEF ChainOK
<1>2. \A k \in Keys : b.slot[k].position \in Int
  BY <1>1 DEF Block, Slot
<1>3. QED
  BY <1>2 DEF Evolved

-----------------------------------------------------------------------------
(* The waiter. *)

\* The slot in hand is the one the Members entry named at fin.
SlotFromFin ==
  pc \in {"settle", "recheck", "located"} => Own \in fin.placed /\ loc = fin.slot[Own]

\* The re-check's block is no older than the poll's.
BlocksInOrder ==
  /\ Evolved(fin, chain)
  /\ pc \in {"recheck", "located"} => Evolved(fin, fin2)

\* Between polls, lastTag tells what the last block polled held.
TagTold ==
  pc \in {"idle", "poll", "sleep", "timedout"} =>
    \/ lastTag = "undefined" /\ fin.status[Own] = "missing"
    \/ lastTag = "ring-unstable"
    \/ /\ lastTag = "ring-pending"
       /\ fin.status[Own] = "Included"
       /\ ~ InRing(fin, fin.slot[Own])
    \/ lastTag = fin.status[Own] /\ fin.status[Own] # "Included"

\* The backend verdict is for keys that had no entry.
VerdictTold == verdict = "backend" => pc = "timedout" /\ lastTag \in {"missing", "undefined"}

IInv ==
  /\ TypeOK
  /\ ChainOK(chain) /\ ChainOK(fin) /\ ChainOK(fin2)
  /\ SlotFromFin
  /\ BlocksInOrder
  /\ pc = "located" => StillInRing(fin2, loc)
  /\ TagTold
  /\ VerdictTold

LEMMA InitInv == Init => IInv
<1> SUFFICES ASSUME Init PROVE IInv
  OBVIOUS
<1>1. /\ chain = Genesis /\ fin = Genesis /\ fin2 = Genesis
      /\ pc = "idle" /\ verdict = "none"
  BY DEF Init, ChainInit
<1>2. ChainOK(Genesis) /\ Genesis \in Block
  BY GenesisOK DEF ChainOK
<1>3. Evolved(Genesis, Genesis)
  BY <1>2, EvolvedReflexive
<1>4. start \in Diagnostic
  BY <1>2, ChainAssumption
     DEF Init, CaptureRingDiagnostic, Diagnostic, Block, Rings
<1>5. loc \in Slot
  BY ChainAssumption DEF Init, NoSlot, Slot, Rings, Pages
<1>6. TypeOK
  BY <1>1, <1>2, <1>4, <1>5 DEF Init, TypeOK, PC, Tag, Verdict
<1>7. lastTag = "undefined" /\ fin.status[Own] = "missing"
  BY <1>1, WaitAssumption DEF Init, Genesis
<1>8. QED
  BY <1>1, <1>2, <1>3, <1>6, <1>7
     DEF IInv, SlotFromFin, BlocksInOrder, TagTold, VerdictTold

\* A chain step leaves the waiter's blocks behind it.
LEMMA ChainStepInv == IInv /\ ChainStep => IInv'
<1> SUFFICES ASSUME IInv, ChainStep PROVE IInv'
  OBVIOUS
<1>1. ChainNext /\ UNCHANGED waiter
  BY DEF ChainStep
<1>2. ChainOK(chain') /\ Evolved(chain, chain')
  BY <1>1, ChainStepOK DEF IInv
<1>3. /\ chain' \in Block /\ chain \in Block /\ fin \in Block /\ fin2 \in Block
  BY <1>2 DEF ChainOK, IInv
<1>4. Evolved(fin, chain')
  BY <1>2, <1>3, EvolvedTransitive DEF IInv, BlocksInOrder
<1>5. TypeOK'
  BY <1>1, <1>3 DEF IInv, TypeOK, waiter
<1>6. /\ ChainOK(fin') /\ ChainOK(fin2') /\ SlotFromFin'
      /\ TagTold' /\ VerdictTold'
      /\ (pc = "located" => StillInRing(fin2, loc))'
  BY <1>1 DEF IInv, waiter, SlotFromFin, TagTold, VerdictTold, StillInRing, InRing, At
<1>7. BlocksInOrder'
  BY <1>1, <1>4 DEF IInv, waiter, BlocksInOrder
<1>8. QED
  BY <1>2, <1>5, <1>6, <1>7 DEF IInv

LEMMA WaitStepInv == IInv /\ (WaitStep \/ RpcError) => IInv'
<1> SUFFICES ASSUME IInv, WaitStep \/ RpcError PROVE IInv'
  OBVIOUS
<1> USE DEF IInv
<1>1. chain' = chain /\ chain \in Block
  BY DEF WaitStep, RpcError, Begin, Poll, ReadInRing, ReadPending, ReadWaiting,
         Settle, Locate, Unstable, Sleep, TimeOut, TypeOK
<1>2. Evolved(chain, chain)
  BY EvolvedReflexive
<1>3. CaptureRingDiagnostic(chain) \in Diagnostic
  BY <1>1, ChainAssumption DEF CaptureRingDiagnostic, Diagnostic, Block, Rings
<1>4. \A b \in Block : b.status[Own] \in Status /\ b.slot[Own] \in Slot
  BY WaitAssumption DEF Block
<1> USE DEF SlotFromFin, BlocksInOrder, TagTold, VerdictTold
<1>5. CASE Begin
  <2>1. TypeOK'
    BY <1>1, <1>3, <1>5 DEF Begin, TypeOK, PC
  <2>2. TagTold'
    BY <1>5 DEF Begin, InRing, At
  <2>3. QED
    BY <1>1, <1>5, <2>1, <2>2 DEF Begin
<1>6. CASE Poll
  <2>1. fin' = chain /\ fin2' = fin2 /\ pc' = "read"
    BY <1>6 DEF Poll
  <2>2. TypeOK'
    BY <1>1, <1>6 DEF Poll, TypeOK, PC
  <2>3. QED
    BY <1>1, <1>2, <1>6, <2>1, <2>2 DEF Poll
<1>7. CASE ReadInRing
  <2>1. TypeOK'
    BY <1>1, <1>4, <1>7 DEF ReadInRing, TypeOK, PC, At
  <2>2. Own \in fin.placed
    BY <1>7 DEF ReadInRing, InRing, PageKeys, RingSet, At
  <2>3. QED
    BY <1>1, <1>7, <2>1, <2>2 DEF ReadInRing, At
<1>8. CASE ReadPending
  <2>1. TypeOK'
    BY <1>1, <1>8 DEF ReadPending, TypeOK, PC, Tag
  <2>2. TagTold'
    BY <1>8 DEF ReadPending, At, InRing
  <2>3. QED
    BY <1>1, <1>8, <2>1, <2>2 DEF ReadPending
<1>9. CASE ReadWaiting
  <2>1. TypeOK'
    BY <1>1, <1>4, <1>9 DEF ReadWaiting, TypeOK, PC, Tag, At
  <2>2. QED
    BY <1>1, <1>9, <2>1 DEF ReadWaiting, At
<1>10. CASE Settle
  <2>1. TypeOK'
    BY <1>1, <1>10, WaitAssumption DEF Settle, TypeOK, PC
  <2>2. fin2' = chain /\ fin' = fin /\ loc' = loc /\ pc' = "recheck" /\ pc = "settle"
    BY <1>10 DEF Settle
  <2>3. QED
    BY <1>1, <1>10, <2>1, <2>2 DEF Settle
<1>11. CASE Locate
  <2>1. TypeOK'
    BY <1>1, <1>11 DEF Locate, TypeOK, PC
  <2>2. StillInRing(fin2', loc')
    BY <1>1, <1>11 DEF Locate, StillInRing, InRing, At
  <2>3. QED
    BY <1>1, <1>11, <2>1, <2>2 DEF Locate, StillInRing, InRing, At
<1>12. CASE Unstable
  <2>1. TypeOK'
    BY <1>1, <1>12 DEF Unstable, TypeOK, PC, Tag
  <2>2. QED
    BY <1>1, <1>12, <2>1 DEF Unstable
<1>13. CASE Sleep
  <2>1. TypeOK'
    BY <1>1, <1>13 DEF Sleep, TypeOK, PC
  <2>2. TagTold'
    BY <1>1, <1>13 DEF Sleep, InRing, At
  <2>3. QED
    BY <1>1, <1>13, <2>1, <2>2 DEF Sleep
<1>14. CASE TimeOut
  <2> DEFINE end == CaptureRingDiagnostic(chain)
  <2>1. /\ verdict' = FormatInclusionTimeout(end, lastTag)
        /\ pc = "poll" /\ pc' = "timedout" /\ lastTag' = lastTag /\ fin' = fin
    BY <1>14 DEF TimeOut
  <2>2. /\ verdict' \in Verdict
        /\ verdict' = "backend" => lastTag \in {"missing", "undefined"}
    BY <2>1 DEF FormatInclusionTimeout, Verdict
  <2>3. TypeOK'
    BY <1>1, <1>14, <2>2 DEF TimeOut, TypeOK, PC
  <2>4. TagTold'
    BY <1>14, <2>1 DEF InRing, At
  <2>5. VerdictTold'
    BY <2>1, <2>2
  <2>6. QED
    BY <1>1, <1>14, <2>3, <2>4, <2>5 DEF TimeOut
<1>15. CASE RpcError
  <2>1. TypeOK'
    BY <1>1, <1>15 DEF RpcError, TypeOK, PC
  <2>2. QED
    BY <1>1, <1>15, <2>1 DEF RpcError
<1>16. QED
  BY <1>5, <1>6, <1>7, <1>8, <1>9, <1>10, <1>11, <1>12, <1>13, <1>14, <1>15
     DEF WaitStep

LEMMA Inductive == Spec => []IInv
<1>1. Init => IInv
  BY InitInv
<1>2. IInv /\ [Next]_vars => IInv'
  <2> SUFFICES ASSUME IInv, [Next]_vars PROVE IInv'
    OBVIOUS
  <2>1. CASE ChainStep
    BY <2>1, ChainStepInv
  <2>2. CASE WaitStep \/ RpcError
    BY <2>2, WaitStepInv
  <2>3. CASE UNCHANGED vars
    BY <2>3 DEF vars, waiter, IInv, TypeOK, SlotFromFin, BlocksInOrder, TagTold,
                VerdictTold, StillInRing, InRing, At
  <2>4. QED
    BY <2>1, <2>2, <2>3 DEF Next
<1>3. QED
  BY <1>1, <1>2, PTL DEF Spec

-----------------------------------------------------------------------------
\* Every variable keeps its type: the blocks stay well-formed blocks whatever
\* the chain does, and the waiter's tags and verdicts are the ones it knows.
THEOREM TypeCorrect == Spec => []TypeOK
<1>1. IInv => TypeOK
  BY DEF IInv
<1>2. QED
  BY <1>1, Inductive, PTL

\* A location waitForInclusion returns can be proved from: the own key is in
\* the member list fetchRingMembers returns at the block the location names.
\* The slot used in the re-check is one settling time old by then; keys only
\* move forward on their page, so the stale index errs on the safe side.
THEOREM LocationIsProvable == Spec => []LocationProvable
<1>1. IInv => LocationProvable
  <2> SUFFICES ASSUME IInv, pc = "located"
               PROVE  Own \in FetchRingMembers(fin2, loc.ring)
    BY DEF LocationProvable
  <2> DEFINE s == fin2.slot[Own]
  <2>1. /\ ChainOK(fin) /\ ChainOK(fin2)
        /\ Own \in fin.placed /\ loc = fin.slot[Own]
        /\ Evolved(fin, fin2)
        /\ Own \in PageKeys(fin2, loc.ring, loc.page)
        /\ IsInRoot(fin2, loc)
    BY DEF IInv, SlotFromFin, BlocksInOrder, StillInRing, InRing, At
  <2>2. Own \in Keys /\ Own \in fin2.placed /\ fin.status[Own] \in Placed
    BY <2>1, WaitAssumption DEF PageKeys, RingSet, ChainOK
  <2>3. s.ring = loc.ring /\ s.page = loc.page /\ s.position <= loc.position
    BY <2>1, <2>2 DEF Evolved
  <2>4. /\ s.position \in Nat
        /\ Cardinality(KeysBefore(fin2, s.ring, s.page)) \in Nat
    BY <2>1, <2>2, RankIsIndex
  <2>5. loc.position \in Nat /\ fin2.included[loc.ring] \in Nat
    BY <2>1, WaitAssumption DEF IInv, TypeOK, Slot, ChainOK, Block
  <2>6. IsInRoot(fin2, s)
    BY <2>1, <2>3, <2>4, <2>5 DEF IsInRoot
  <2>7. QED
    BY <2>1, <2>2, <2>3, <2>6, ViewsAgree
<1>2. QED
  BY <1>1, Inductive, PTL

\* isInRoot and fetchRingMembers agree, for every key on every finalized
\* block: the page walk, its stop at an empty page and the slice on one side,
\* the sum of page lengths on the other.
THEOREM RootViewsAlwaysAgree == Spec => []RootViewsAgree
<1>1. IInv => RootViewsAgree
  BY ViewsAgree DEF IInv, RootViewsAgree
<1>2. QED
  BY <1>1, Inductive, PTL

\* A timeout never hides a member that was Included and in the root of the
\* last block polled, unless the root moved under the re-check.
THEOREM TimeoutsAreHonest == Spec => []TimeoutHonest
<1>1. IInv => TimeoutHonest
  <2> SUFFICES ASSUME IInv, pc = "timedout", lastTag # "ring-unstable",
                      fin.status[Own] = "Included"
               PROVE  Own \notin FetchRingMembers(fin, fin.slot[Own].ring)
    BY DEF TimeoutHonest
  <2>1. ~ InRing(fin, fin.slot[Own])
    BY DEF IInv, TagTold
  <2>2. ChainOK(fin) /\ Own \in fin.placed
    BY WaitAssumption DEF IInv, ChainOK
  <2>3. Own \in PageKeys(fin, fin.slot[Own].ring, fin.slot[Own].page)
    BY <2>2 DEF PageKeys, RingSet
  <2>4. ~ IsInRoot(fin, fin.slot[Own])
    BY <2>1, <2>3 DEF InRing, At
  <2>5. QED
    BY <2>2, <2>4, ViewsAgree
<1>2. QED
  BY <1>1, Inductive, PTL

\* "missing" and the backend verdict are only given for a key that had no
\* Members entry at the last block polled.
THEOREM MissingIsAlwaysReal == Spec => []MissingIsReal
<1>1. IInv => MissingIsReal
  <2> SUFFICES ASSUME TagTold, VerdictTold, pc = "timedout",
                      fin.status[Own] \in Status,
                      lastTag = "missing" \/ verdict = "backend"
               PROVE  fin.status[Own] = "missing"
    BY WaitAssumption DEF IInv, ChainOK, Block, MissingIsReal
  <2>1. lastTag \in {"missing", "undefined"}
    BY DEF VerdictTold
  <2>2. CASE lastTag = "undefined" /\ fin.status[Own] = "missing"
    BY <2>2
  <2>3. CASE lastTag = fin.status[Own]
    <3>1. CASE lastTag = "missing"
      BY <2>3, <3>1
    <3>2. CASE lastTag = "undefined"
      BY <2>3, <3>2 DEF Status
    <3>3. QED
      BY <2>1, <3>1, <3>2
  <2>4. QED
    BY <2>1, <2>2, <2>3 DEF TagTold
<1>2. QED
  BY <1>1, Inductive, PTL
-----------------------------------------------------------------------------
(* How long a wait can take. *)

Over == {"located", "timedout", "failed"}

\* The work done: five steps to a poll, and the polls on the clock.
StepNo ==
  [idle |-> -1, poll |-> 0, read |-> 1, settle |-> 2, recheck |-> 3, sleep |-> 4,
   located |-> 5, timedout |-> 5, failed |-> 5]
Work == 5 * clock + StepNo[pc]

\* The time is looked at between polls only, so one settling time may run over.
ClockBounded ==
  /\ pc \in {"idle", "read", "settle"} => clock <= TimeoutTicks
  /\ pc \in {"read", "settle"} => clock < TimeoutTicks
  /\ pc \in {"recheck", "sleep"} => clock < TimeoutTicks + SettleTicks
  /\ clock <= TimeoutTicks + SettleTicks

WorkGrows == waiter' # waiter => Work' > Work /\ pc \notin Over

\* A wait ends in bounded work: it never runs over its timeout by more than one
\* settling time, and every step of it, a failed read and an unstable ring
\* included, brings it nearer to an end after which it does nothing.  So it takes
\* at most 5 * (TimeoutTicks + SettleTicks) + 6 steps, whatever the chain does.
THEOREM WaitsAreBounded ==
  Spec => /\ [](clock <= TimeoutTicks + SettleTicks)
          /\ [](Work \in -1 .. 5 * (TimeoutTicks + SettleTicks) + 5)
          /\ [][WorkGrows]_vars
<1>1. ASSUME IInv PROVE clock \in Nat /\ pc \in PC /\ TimeoutTicks \in Nat /\ SettleTicks \in Nat
  BY <1>1, WaitAssumption DEF IInv, TypeOK
<1>2. Init => ClockBounded
  BY WaitAssumption DEF Init, ClockBounded
<1>3. ASSUME IInv, ClockBounded, [Next]_vars PROVE ClockBounded' /\ (vars' # vars => WorkGrows)
  <2>1. CASE UNCHANGED waiter
    BY <1>3, <2>1 DEF ClockBounded, WorkGrows, waiter
  <2>2. CASE WaitStep \/ RpcError
    <3>1. ClockBounded'
      BY <1>1, <1>3, <2>2 DEF ClockBounded, WaitStep, RpcError, Begin, Poll, ReadInRing,
         ReadPending, ReadWaiting, Settle, Locate, Unstable, Sleep, TimeOut
    <3>2. Work' > Work /\ pc \notin Over
      BY <1>1, <1>3, <2>2 DEF Work, StepNo, Over, WaitStep, RpcError, Begin, Poll, ReadInRing,
         ReadPending, ReadWaiting, Settle, Locate, Unstable, Sleep, TimeOut
    <3> QED
      BY <3>1, <3>2 DEF WorkGrows
  <2> QED
    BY <1>3, <2>1, <2>2 DEF Next, ChainStep, vars
<1>4. ASSUME IInv, ClockBounded
      PROVE  /\ clock <= TimeoutTicks + SettleTicks
             /\ Work \in -1 .. 5 * (TimeoutTicks + SettleTicks) + 5
  BY <1>1, <1>4 DEF ClockBounded, Work, StepNo, PC
<1>5. IInv /\ ClockBounded /\ [Next]_vars => ClockBounded' /\ [WorkGrows]_vars
  BY <1>3
<1>6. IInv /\ ClockBounded => /\ clock <= TimeoutTicks + SettleTicks
                              /\ Work \in -1 .. 5 * (TimeoutTicks + SettleTicks) + 5
  BY <1>4
<1> QED
  BY <1>2, <1>5, <1>6, Inductive, PTL DEF Spec
-----------------------------------------------------------------------------
(* How far MissingNotBlamedOnBuilder is from true. *)

\* Between the first diagnostic and the verdict.
Waiting == pc \in {"poll", "read", "settle", "recheck", "sleep"}

RootRebuilt == chain.revision[0] > start.ringZeroRevision

\* Since the first diagnostic the revision of a root only grows.
RevisionsGrow == Waiting => chain.revision[0] >= start.ringZeroRevision

LEMMA RevisionTyped ==
  ASSUME NEW b \in Block
  PROVE  0 \in Rings /\ b.revision \in [Rings -> Int] /\ b.revision[0] \in Int
<1>1. 0 \in Rings
  BY ChainAssumption DEF Rings
<1>2. b.revision \in [Rings -> Int]
  BY DEF Block
<1> QED
  BY <1>1, <1>2

LEMMA ChainKeepsRevisions ==
  ASSUME IInv, ChainNext PROVE chain'.revision[0] >= chain.revision[0]
<1>0. chain \in Block
  BY DEF IInv, TypeOK
<1>1. 0 \in Rings /\ chain.revision \in [Rings -> Int] /\ chain.revision[0] \in Int
  BY <1>0, RevisionTyped
<1>2. \/ chain'.revision = chain.revision
      \/ \E r \in Rings : chain'.revision = [chain.revision EXCEPT ![r] = @ + 1]
  BY <1>0 DEF ChainNext, EmptyBlock, Register, Onboard, BuildRing, Suspend, RemoveSuspended, Block
<1>3. chain'.revision[0] \in {chain.revision[0], chain.revision[0] + 1}
  <2>1. CASE chain'.revision = chain.revision
    BY <2>1
  <2>2. ASSUME NEW r \in Rings, chain'.revision = [chain.revision EXCEPT ![r] = @ + 1]
        PROVE  chain'.revision[0] \in {chain.revision[0], chain.revision[0] + 1}
    BY <1>1, <2>2
  <2> QED
    BY <1>2, <2>1, <2>2
<1> QED
  BY <1>1, <1>3

\* A key People never saw may be blamed on the ring builder, but only on one that
\* was idle: as soon as the root of ring 0 is rebuilt during a wait, whatever the
\* last status, the wait can no longer end in the verdict "builder stuck"
\* (ring.ts 435; a rebuild of a later ring does not count, ring.ts 380).
THEOREM OnlyAnIdleBuilderIsBlamed ==
  Spec => /\ [][Waiting /\ BuildRing(0) => RootRebuilt']_vars
          /\ [][Waiting /\ RootRebuilt =>
                  verdict' # "builder-stuck" /\ (Waiting' => RootRebuilt')]_vars
<1> DEFINE rebuilt == Waiting /\ BuildRing(0) => RootRebuilt'
           cleared == Waiting /\ RootRebuilt =>
                        verdict' # "builder-stuck" /\ (Waiting' => RootRebuilt')
           quiet == pc = "idle" \/ Waiting => verdict = "none"
<1>1. Init => RevisionsGrow /\ quiet
  BY DEF Init, RevisionsGrow, Waiting
<1>2. ASSUME IInv, RevisionsGrow, quiet, [Next]_vars
      PROVE  RevisionsGrow' /\ quiet' /\ (vars' # vars => rebuilt /\ cleared)
  <2>1. /\ chain \in Block /\ 0 \in Rings /\ chain.revision[0] \in Int
        /\ start.ringZeroRevision \in Int
    BY <1>2, RevisionTyped DEF IInv, TypeOK, Diagnostic
  <2>2. CASE UNCHANGED vars
    BY <1>2, <2>2 DEF vars, waiter, RevisionsGrow, Waiting
  <2>3. CASE ChainStep
    <3>1. ChainNext /\ UNCHANGED <<pc, start, verdict>>
      BY <2>3 DEF ChainStep, waiter
    <3>2. chain'.revision[0] >= chain.revision[0] /\ chain'.revision[0] \in Int
      BY <1>2, <3>1, ChainKeepsRevisions, ChainStepOK, <2>1 DEF IInv, ChainOK, Block
    <3>3. BuildRing(0) => chain'.revision[0] = chain.revision[0] + 1
      BY <2>1 DEF BuildRing, Block
    <3> QED
      BY <1>2, <2>1, <3>1, <3>2, <3>3 DEF RevisionsGrow, Waiting, RootRebuilt
  <2>4. CASE TimeOut
    <3>1. ~ Waiting' /\ pc' # "idle" /\ UNCHANGED <<chain, start>> /\ ~ BuildRing(0)
      <4>1. BuildRing(0) => chain'.height = chain.height + 1 /\ chain.height \in Nat
        BY <2>1 DEF BuildRing, Block
      <4> QED
        BY <2>4, <4>1 DEF TimeOut, Waiting
    <3>2. RootRebuilt => verdict' # "builder-stuck"
      <4> DEFINE end == CaptureRingDiagnostic(chain)
      <4> SUFFICES ASSUME RootRebuilt PROVE FormatInclusionTimeout(end, lastTag) # "builder-stuck"
        BY <2>4 DEF TimeOut
      <4>1. RevisionDelta(end) # 0
        BY <2>1 DEF RootRebuilt, RevisionDelta, CaptureRingDiagnostic
      <4> QED
        BY <4>1 DEF FormatInclusionTimeout
    <3> QED
      BY <3>1, <3>2 DEF RevisionsGrow
  <2>5. CASE Begin
    <3>1. UNCHANGED <<chain, verdict>> /\ pc = "idle" /\ start'.ringZeroRevision = chain.revision[0]
      BY <2>5 DEF Begin, CaptureRingDiagnostic
    <3> QED
      BY <1>2, <2>1, <3>1 DEF RevisionsGrow, Waiting
  <2>6. CASE \/ Poll \/ ReadInRing \/ ReadPending \/ ReadWaiting \/ Settle \/ Locate
             \/ Unstable \/ Sleep \/ RpcError
    <3>1. /\ UNCHANGED <<chain, start, verdict>>
          /\ (pc = "idle" \/ Waiting)' => pc = "idle" \/ Waiting
          /\ Waiting' => Waiting
      BY <2>6 DEF Poll, ReadInRing, ReadPending, ReadWaiting, Settle, Locate, Unstable, Sleep,
         RpcError, Waiting
    <3>2. ~ BuildRing(0)
      <4>1. BuildRing(0) => chain'.height = chain.height + 1 /\ chain.height \in Nat
        BY <2>1 DEF BuildRing, Block
      <4> QED
        BY <3>1, <4>1
    <3>3. Waiting /\ RootRebuilt => verdict' # "builder-stuck"
      BY <1>2, <3>1
    <3> QED
      BY <1>2, <3>1, <3>2, <3>3 DEF RevisionsGrow, RootRebuilt
  <2> QED
    BY <1>2, <2>2, <2>3, <2>4, <2>5, <2>6 DEF Next, WaitStep
<1>3. IInv /\ RevisionsGrow /\ quiet /\ [Next]_vars =>
        RevisionsGrow' /\ quiet' /\ [rebuilt]_vars /\ [cleared]_vars
  BY <1>2
<1> QED
  BY <1>1, <1>3, Inductive, PTL DEF Spec
=============================================================================
