--------------------------- MODULE ReleaseMap_proofs ---------------------------
(***************************************************************************)
(* Theorems about the operators of ReleaseMap, for every manifest, request *)
(* and pin.                                                                *)
(***************************************************************************)
EXTENDS ReleaseMap, TLAPS

-----------------------------------------------------------------------------
(***************************************************************************)
(* The tables: no service goes by the name of a binary slot.               *)
(***************************************************************************)
\* What Over takes from either side.
LEMMA Merged ==
  ASSUME NEW f, NEW g
  PROVE  /\ DOMAIN Over(f, g) = DOMAIN f \cup DOMAIN g
         /\ \A x \in DOMAIN f : Over(f, g)[x] = f[x]
         /\ \A x \in DOMAIN g : x \notin DOMAIN f => Over(f, g)[x] = g[x]
  BY DEF Over

Slots == {"polkadot", "omni-node"}
Noded(f) == \A c \in DOMAIN f : f[c].node \in Slots

LEMMA NodedOver == ASSUME NEW f, NEW g, Noded(f), Noded(g) PROVE Noded(Over(f, g))
<1> SUFFICES ASSUME NEW c \in DOMAIN Over(f, g) PROVE Over(f, g)[c].node \in Slots
  BY DEF Noded
<1>1. c \in DOMAIN f \cup DOMAIN g
  BY Merged
<1>2. CASE c \in DOMAIN f
  <2>1. Over(f, g)[c] = f[c]
    BY <1>2 DEF Over
  <2> QED
    BY <1>2, <2>1 DEF Noded
<1>3. CASE c \in DOMAIN g /\ c \notin DOMAIN f
  <2>1. Over(f, g)[c] = g[c]
    BY <1>3 DEF Over
  <2> QED
    BY <1>3, <2>1 DEF Noded
<1> QED
  BY <1>1, <1>2, <1>3

LEMMA SlotNames == \A n \in DOMAIN CHAINS : networkSlots(n) \subseteq Slots
<1> DEFINE next(relay) == [relay    |-> relay,
                           assetHub |-> Para("individuality", "nextAssetHub"),
                           people   |-> Para("individuality", "nextPeople"),
                           bulletin |-> Para("bulletinChain", "bulletin")]
           storage == [web3Storage |-> Para("web3Storage", "storage")]
           dev == [relay    |-> Relay("paseo", "spec"),
                   assetHub |-> Para("paseo", "assetHubPaseo"),
                   people   |-> Para("paseo", "peoplePaseo"),
                   bulletin |-> Para("bulletinChain", "bulletin")]
<1>1. /\ \A a, p : Relay(a, p).node \in Slots
      /\ \A r, a : Para(r, a).node \in Slots
  BY DEF Relay, Para, Slots
<1>2. \A a, p : Noded(next(Relay(a, p)))
  BY <1>1 DEF Noded
<1>3. Noded(dev) /\ Noded(storage)
  BY <1>1 DEF Noded
<1>4. CHAINS = [previewnet |-> Over(storage, next(Relay("paseoFast", "bytes"))),
                paseoNext  |-> next(Relay("paseo", "spec")), devnet |-> dev]
  BY DEF CHAINS
<1> HIDE DEF next, dev, storage
<1>5. Noded(Over(storage, next(Relay("paseoFast", "bytes"))))
  BY <1>2, <1>3, NodedOver
<1>6. \A n \in DOMAIN CHAINS : Noded(CHAINS[n])
  BY <1>2, <1>3, <1>4, <1>5
<1> QED
  BY <1>6 DEF networkSlots, Noded

AllChains == {"relay", "assetHub", "people", "bulletin", "web3Storage"}

LEMMA ChainNames == \A n \in DOMAIN CHAINS : DOMAIN CHAINS[n] \subseteq AllChains
<1> DEFINE next(relay) == [relay    |-> relay,
                           assetHub |-> Para("individuality", "nextAssetHub"),
                           people   |-> Para("individuality", "nextPeople"),
                           bulletin |-> Para("bulletinChain", "bulletin")]
           storage == [web3Storage |-> Para("web3Storage", "storage")]
           dev == [relay    |-> Relay("paseo", "spec"),
                   assetHub |-> Para("paseo", "assetHubPaseo"),
                   people   |-> Para("paseo", "peoplePaseo"),
                   bulletin |-> Para("bulletinChain", "bulletin")]
<1>1. /\ DOMAIN storage \subseteq AllChains /\ DOMAIN dev \subseteq AllChains
      /\ \A a, p : DOMAIN next(Relay(a, p)) \subseteq AllChains
  BY DEF AllChains
<1>2. CHAINS = [previewnet |-> Over(storage, next(Relay("paseoFast", "bytes"))),
                paseoNext  |-> next(Relay("paseo", "spec")), devnet |-> dev]
  BY DEF CHAINS
<1> HIDE DEF next, dev, storage
<1>3. DOMAIN Over(storage, next(Relay("paseoFast", "bytes"))) \subseteq AllChains
  BY <1>1, Merged
<1> QED
  BY <1>1, <1>2, <1>3

LEMMA ServiceNames ==
  \A n \in DOMAIN SERVICES : \A s \in DOMAIN SERVICES[n] : s \notin Slots
  BY DEF SERVICES, Slots

-----------------------------------------------------------------------------
(***************************************************************************)
(* How manifests are laid out, and what keeps the layout.                  *)
(***************************************************************************)
LEMMA PathsOver ==
  ASSUME NEW f, NEW g, PathsOk(f), PathsOk(g)
  PROVE  PathsOk(Over(f, g)) /\ (PinsOk(f) /\ PinsOk(g) => PinsOk(Over(f, g)))
<1>1. Over(f, g) = [p \in DOMAIN Over(f, g) |-> Over(f, g)[p]]
  BY DEF Over
<1>2. DOMAIN Over(f, g) = DOMAIN f \cup DOMAIN g
  BY Merged
<1> QED
  BY <1>1, <1>2 DEF PathsOk, PinsOk

LEMMA WithinOk ==
  ASSUME NEW m, ManifestOk(m), NEW dims PROVE PinsOk(Within(m, dims))
  BY DEF ManifestOk, PinsOk, PathsOk, Within

\* Every candidate is laid out as its sides are.
LEMMA MatrixOk ==
  ASSUME NEW base, NEW head, ManifestOk(base), ManifestOk(head)
  PROVE  \A c \in candidateMatrix(base, head) :
           ManifestOk(c.manifest) /\ (c.steady <=> c.manifest.pins = base.pins)
<1>1. \A id, gating, m : ManifestOk(m) =>
        LET c == Candidate(base, id, gating, m)
        IN ManifestOk(c.manifest) /\ (c.steady <=> c.manifest.pins = base.pins)
  BY DEF Candidate
<1> DEFINE binariesOnly == [head EXCEPT !.pins = Over(binaryDim(head), runtimeDim(base))]
           runtimesOnly == [head EXCEPT !.pins = Over(binaryDim(base), runtimeDim(head))]
<1>2. ManifestOk(binariesOnly)
  <2>1. PinsOk(Over(binaryDim(head), runtimeDim(base)))
    BY WithinOk, PathsOver DEF binaryDim, runtimeDim, PinsOk
  <2> QED
    BY <2>1 DEF ManifestOk
<1>3. ManifestOk(runtimesOnly)
  <2>1. PinsOk(Over(binaryDim(base), runtimeDim(head)))
    BY WithinOk, PathsOver DEF binaryDim, runtimeDim, PinsOk
  <2> QED
    BY <2>1 DEF ManifestOk
<1> HIDE DEF binariesOnly, runtimesOnly
<1>4. \A c \in candidateMatrix(base, head) :
        \/ c = Candidate(base, "target", TRUE, head)
        \/ c = Candidate(base, "binaries-only", FALSE, binariesOnly)
        \/ c = Candidate(base, "runtimes-only", FALSE, runtimesOnly)
  BY DEF candidateMatrix, CrossTerms, binariesOnly, runtimesOnly
<1> QED
  BY <1>1, <1>2, <1>3, <1>4

-----------------------------------------------------------------------------
(***************************************************************************)
(* The cross terms.  Binaries and services on one side, runtimes on the    *)
(* other: what one of the terms moves the other leaves as it was, and when *)
(* one of them is a side of the request again the other is the other side. *)
(***************************************************************************)
LEMMA Rejoined ==
  ASSUME NEW m, ManifestOk(m) PROVE Over(binaryDim(m), runtimeDim(m)) = m.pins
<1>1. m.pins = [p \in DOMAIN m.pins |-> m.pins[p]] /\ \A p \in DOMAIN m.pins : p[1] \in Dims
  BY DEF ManifestOk, PinsOk, PathsOk
<1> DEFINE o == Over(binaryDim(m), runtimeDim(m))
<1>2. DOMAIN o = DOMAIN m.pins
  BY <1>1 DEF Over, binaryDim, runtimeDim, Within, Dims
<1>3. \A p \in DOMAIN o : o[p] = m.pins[p]
  BY DEF Over, binaryDim, runtimeDim, Within
<1>4. o = [p \in DOMAIN o |-> o[p]]
  BY DEF Over
<1> HIDE DEF o
<1> QED
  BY <1>1, <1>2, <1>3, <1>4 DEF o

\* Two sides joined, dimension by dimension.
Joined(b, r) == Over(binaryDim(b), runtimeDim(r))

Joins(j, b, r) ==
  /\ DOMAIN j = {p \in DOMAIN b.pins : p[1] \in {"binaries", "services"}}
                \cup {p \in DOMAIN r.pins : p[1] = "chains"}
  /\ \A p \in DOMAIN b.pins : p[1] \in {"binaries", "services"} => j[p] = b.pins[p]
  /\ \A p \in DOMAIN r.pins : p[1] = "chains" => j[p] = r.pins[p]

LEMMA JoinedSides == ASSUME NEW b, NEW r PROVE Joins(Joined(b, r), b, r)
<1>1. DOMAIN binaryDim(b) = {p \in DOMAIN b.pins : p[1] \in {"binaries", "services"}}
  BY DEF binaryDim, Within
<1>2. DOMAIN runtimeDim(r) = {p \in DOMAIN r.pins : p[1] = "chains"}
  BY DEF runtimeDim, Within
<1>3. \A p \in DOMAIN binaryDim(b) : binaryDim(b)[p] = b.pins[p]
  BY DEF binaryDim, Within
<1>4. \A p \in DOMAIN runtimeDim(r) : runtimeDim(r)[p] = r.pins[p]
  BY DEF runtimeDim, Within
<1> DEFINE f == binaryDim(b)
           g == runtimeDim(r)
<1>5. Joined(b, r) = Over(f, g)
  BY DEF Joined
<1> HIDE DEF f, g
<1>6. DOMAIN Over(f, g) = DOMAIN f \cup DOMAIN g
  BY DEF Over
<1>7. ASSUME NEW p \in DOMAIN f PROVE Over(f, g)[p] = f[p]
  BY <1>7 DEF Over
<1>8. ASSUME NEW p \in DOMAIN g, p \notin DOMAIN f PROVE Over(f, g)[p] = g[p]
  BY <1>8 DEF Over
<1>9. ASSUME NEW p \in DOMAIN b.pins, p[1] \in {"binaries", "services"}
      PROVE  Joined(b, r)[p] = b.pins[p]
  BY <1>1, <1>3, <1>5, <1>7, <1>9 DEF f
<1>10. ASSUME NEW p \in DOMAIN r.pins, p[1] = "chains"
       PROVE  Joined(b, r)[p] = r.pins[p]
  BY <1>1, <1>2, <1>4, <1>5, <1>8, <1>10 DEF f, g
<1>11. DOMAIN Joined(b, r) = DOMAIN binaryDim(b) \cup DOMAIN runtimeDim(r)
  BY <1>5, <1>6 DEF f, g
<1> QED
  BY <1>1, <1>2, <1>9, <1>10, <1>11 DEF Joins

\* Of two sides joined, each can be read off again.
LEMMA JoinedAs ==
  ASSUME NEW b, NEW r, NEW m, Joined(b, r) = m.pins
  PROVE  binaryDim(b) = binaryDim(m) /\ runtimeDim(r) = runtimeDim(m)
<1>0. Joins(m.pins, b, r)
  BY JoinedSides
<1>1. {p \in DOMAIN b.pins : p[1] \in {"binaries", "services"}}
        = {p \in DOMAIN m.pins : p[1] \in {"binaries", "services"}}
  BY <1>0 DEF Joins
<1>2. {p \in DOMAIN r.pins : p[1] \in {"chains"}} = {p \in DOMAIN m.pins : p[1] \in {"chains"}}
  BY <1>0 DEF Joins
<1>3. \A p \in DOMAIN b.pins : p[1] \in {"binaries", "services"} => b.pins[p] = m.pins[p]
  BY <1>0 DEF Joins
<1>4. \A p \in DOMAIN r.pins : p[1] \in {"chains"} => r.pins[p] = m.pins[p]
  BY <1>0 DEF Joins
<1> QED
  BY <1>1, <1>2, <1>3, <1>4 DEF binaryDim, runtimeDim, Within

LEMMA BothOrNeither ==
  ASSUME NEW base, NEW head, ManifestOk(base), ManifestOk(head)
  PROVE  Joined(head, base) \in {head.pins, base.pins} <=> Joined(base, head) \in {head.pins, base.pins}
<1>1. Joined(base, base) = base.pins /\ Joined(head, head) = head.pins
  BY Rejoined DEF Joined
<1>2. CASE Joined(head, base) = head.pins
  <2>1. runtimeDim(base) = runtimeDim(head)
    BY <1>2, JoinedAs
  <2> QED
    BY <1>1, <1>2, <2>1 DEF Joined
<1>3. CASE Joined(head, base) = base.pins
  <2>1. binaryDim(head) = binaryDim(base)
    BY <1>3, JoinedAs
  <2> QED
    BY <1>1, <1>3, <2>1 DEF Joined
<1>4. CASE Joined(base, head) = head.pins
  <2>1. binaryDim(base) = binaryDim(head)
    BY <1>4, JoinedAs
  <2> QED
    BY <1>1, <1>4, <2>1 DEF Joined
<1>5. CASE Joined(base, head) = base.pins
  <2>1. runtimeDim(head) = runtimeDim(base)
    BY <1>5, JoinedAs
  <2> QED
    BY <1>1, <1>5, <2>1 DEF Joined
<1> QED
  BY <1>2, <1>3, <1>4, <1>5

\* Each term makes the moves of its own dimensions.
LEMMA TermMoves ==
  ASSUME NEW base, NEW head, ManifestOk(head), NEW bo, NEW ro,
         bo.pins = Joined(head, base), ro.pins = Joined(base, head)
  PROVE  /\ transitions(base, bo) \cup transitions(base, ro) = transitions(base, head)
         /\ transitions(base, bo) \cap transitions(base, ro) = {}
<1> DEFINE Moved(p) == IF p \in DOMAIN base.pins THEN base.pins[p] # head.pins[p]
                                                 ELSE p[1] = "services"
<1>1. \A p \in DOMAIN head.pins : p[1] \in {"binaries", "services", "chains"}
  BY DEF ManifestOk, PinsOk, Dims
<1>2. transitions(base, head) = {p \in DOMAIN head.pins : Moved(p)}
  BY DEF transitions
<1>3. Joins(bo.pins, head, base) /\ Joins(ro.pins, base, head)
  BY JoinedSides
<1>4. transitions(base, bo) = {p \in DOMAIN head.pins : p[1] \in {"binaries", "services"} /\ Moved(p)}
  BY <1>3 DEF transitions, Joins
<1>5. transitions(base, ro) = {p \in DOMAIN head.pins : p[1] = "chains" /\ Moved(p)}
  BY <1>3 DEF transitions, Joins
<1> HIDE DEF Moved
<1> QED
  BY <1>1, <1>2, <1>4, <1>5

LEMMA CrossTermsSplit ==
  ASSUME NEW base, NEW head, ManifestOk(base), ManifestOk(head),
         NEW M, M = candidateMatrix(base, head), NEW target,
         target = CHOOSE c \in M : c.id = "target"
  PROVE  LET cross == {c \in M : c.id # "target"}
         IN cross # {} =>
              /\ UNION {c.transitions : c \in cross} = target.transitions
              /\ \A c \in cross :
                   /\ ~c.gating /\ c.manifest.pins \notin {target.manifest.pins, base.pins}
                   /\ \A d \in cross \ {c} : c.transitions \cap d.transitions = {}
<1> DEFINE bo == [head EXCEPT !.pins = Over(binaryDim(head), runtimeDim(base))]
           ro == [head EXCEPT !.pins = Over(binaryDim(base), runtimeDim(head))]
           whole == Candidate(base, "target", TRUE, head)
           one == Candidate(base, "binaries-only", FALSE, bo)
           two == Candidate(base, "runtimes-only", FALSE, ro)
           cross == {c \in M : c.id # "target"}
<1>1. bo.pins = Joined(head, base) /\ ro.pins = Joined(base, head)
  BY DEF ManifestOk, Joined
<1>2. /\ whole.id = "target" /\ one.id # "target" /\ two.id # "target" /\ one.id # two.id
      /\ ~one.gating /\ ~two.gating
      /\ one.manifest = bo /\ two.manifest = ro /\ whole.manifest = head
      /\ one.transitions = transitions(base, bo) /\ two.transitions = transitions(base, ro)
      /\ whole.transitions = transitions(base, head)
  BY DEF Candidate
<1>3. \E both \in BOOLEAN :
        M = {whole} \cup {c \in {one, two} :
                            both /\ c.manifest.pins \notin {head.pins, base.pins}}
  <2> DEFINE both == /\ Names(base, "chains") = Names(head, "chains")
                     /\ base.pins # head.pins
  <2>1. M = {whole} \cup {c \in {one, two} :
                            both /\ c.manifest.pins \notin {head.pins, base.pins}}
    BY DEF candidateMatrix, CrossTerms
  <2> QED
    BY <2>1
<1> HIDE DEF whole, one, two, bo, ro
<1>4. target = whole
  BY <1>2, <1>3
<1>5. \/ cross = {}
      \/ /\ cross = {one, two}
         /\ \A c \in {one, two} : c.manifest.pins \notin {head.pins, base.pins}
  <2>1. bo.pins \in {head.pins, base.pins} <=> ro.pins \in {head.pins, base.pins}
    BY <1>1, BothOrNeither
  <2>2. one.manifest.pins = bo.pins /\ two.manifest.pins = ro.pins
    BY <1>2
  <2>3. PICK both \in BOOLEAN :
          M = {whole} \cup {c \in {one, two} :
                              both /\ c.manifest.pins \notin {head.pins, base.pins}}
    BY <1>3
  <2>4. CASE both /\ bo.pins \notin {head.pins, base.pins}
    <3>1. M = {whole, one, two}
      BY <2>1, <2>2, <2>3, <2>4
    <3> QED
      BY <1>2, <2>1, <2>2, <2>4, <3>1
  <2>5. CASE ~ (both /\ bo.pins \notin {head.pins, base.pins})
    <3>1. M = {whole}
      BY <2>1, <2>2, <2>3, <2>5
    <3> QED
      BY <1>2, <3>1
  <2> QED
    BY <2>4, <2>5
<1>6. /\ one.transitions \cup two.transitions = whole.transitions
      /\ one.transitions \cap two.transitions = {}
  BY <1>1, <1>2, TermMoves
<1>7. CASE cross = {}
  BY <1>7
<1>8. CASE cross = {one, two}
  <2>1. UNION {c.transitions : c \in {one, two}} = one.transitions \cup two.transitions
    OBVIOUS
  <2> HIDE DEF cross
  <2> QED
    BY <1>2, <1>4, <1>5, <1>6, <1>8, <2>1, Zenon DEF cross
<1> QED
  BY <1>5, <1>7, <1>8

-----------------------------------------------------------------------------
(***************************************************************************)
(* Sources: the table of a rejection and the validator.                    *)
(***************************************************************************)
\* Every network runs both kinds of nodes.
LEMMA SlotsOfNetworks == \A n \in DOMAIN CHAINS : networkSlots(n) = Slots
<1>1. \A n \in DOMAIN CHAINS : \E c, d \in DOMAIN CHAINS[n] :
        CHAINS[n][c].node = "polkadot" /\ CHAINS[n][d].node = "omni-node"
  <2> DEFINE next(relay) == [relay    |-> relay,
                             assetHub |-> Para("individuality", "nextAssetHub"),
                             people   |-> Para("individuality", "nextPeople"),
                             bulletin |-> Para("bulletinChain", "bulletin")]
             storage == [web3Storage |-> Para("web3Storage", "storage")]
             dev == [relay    |-> Relay("paseo", "spec"),
                     assetHub |-> Para("paseo", "assetHubPaseo"),
                     people   |-> Para("paseo", "peoplePaseo"),
                     bulletin |-> Para("bulletinChain", "bulletin")]
             Both(f) == {"relay", "people"} \subseteq DOMAIN f
                        /\ f["relay"].node = "polkadot" /\ f["people"].node = "omni-node"
  <2>1. /\ \A a, p : Relay(a, p).node = "polkadot"
        /\ \A r, a : Para(r, a).node = "omni-node"
    BY DEF Relay, Para
  <2>2. Both(dev) /\ \A a, p : Both(next(Relay(a, p)))
    BY <2>1
  <2>3. CHAINS = [previewnet |-> Over(storage, next(Relay("paseoFast", "bytes"))),
                  paseoNext  |-> next(Relay("paseo", "spec")), devnet |-> dev]
    BY DEF CHAINS
  <2>4. DOMAIN storage = {"web3Storage"}
    OBVIOUS
  <2> HIDE DEF next, dev, storage
  <2>7. ASSUME NEW f, NEW g, DOMAIN f = {"web3Storage"}, Both(g) PROVE Both(Over(f, g))
    <3>1. "relay" \notin DOMAIN f /\ "people" \notin DOMAIN f
      BY <2>7
    <3>2. Over(f, g)["relay"] = g["relay"] /\ Over(f, g)["people"] = g["people"]
      BY <2>7, <3>1 DEF Over
    <3>3. {"relay", "people"} \subseteq DOMAIN Over(f, g)
      BY <2>7 DEF Over
    <3> QED
      BY <2>7, <3>2, <3>3
  <2>5. Both(Over(storage, next(Relay("paseoFast", "bytes"))))
    <3> HIDE DEF Both
    <3> QED
      BY <2>2, <2>4, <2>7
  <2>6. \A n \in DOMAIN CHAINS : Both(CHAINS[n])
    BY <2>2, <2>3, <2>5
  <2> QED
    BY <2>6
<1>2. \A n \in DOMAIN CHAINS : Slots \subseteq networkSlots(n)
  BY <1>1 DEF networkSlots, Slots
<1> QED
  BY <1>2, SlotNames

\* The table, dimension by dimension.
LEMMA Listed ==
  ASSUME NEW d, NEW R, NEW e, NEW x, NEW repo
  PROVE  <<<<e, x>>, repo>> \in UNION {{<<d, s>>} \X R[s] : s \in DOMAIN R}
           <=> e = d /\ x \in DOMAIN R /\ repo \in R[x]
<1>1. \A s : <<<<e, x>>, repo>> \in {<<d, s>>} \X R[s] <=> e = d /\ x = s /\ repo \in R[s]
  <2> TAKE s
  <2>1. <<<<e, x>>, repo>> \in {<<d, s>>} \X R[s] <=> <<e, x>> = <<d, s>> /\ repo \in R[s]
    OBVIOUS
  <2> QED
    BY <2>1
<1> QED
  BY <1>1

LEMMA ShownIs ==
  ASSUME NEW network, NEW d \in Dims, NEW x, NEW repo
  PROVE  <<<<d, x>>, repo>> \in allowedSources(network) <=>
           \/ /\ d = "binaries" /\ x \in networkSlots(network) /\ repo \in NODE_BINARIES[x]
           \/ /\ d = "chains" /\ x \in DOMAIN CHAINS[network]
              /\ repo \in DOMAIN CHAINS[network][x].runtime
           \/ /\ d = "services" /\ x \in DOMAIN SERVICES[network]
              /\ repo \in SERVICES[network][x].repos
<1> DEFINE B == [s \in networkSlots(network) |-> NODE_BINARIES[s]]
           C == [c \in DOMAIN CHAINS[network] |-> DOMAIN CHAINS[network][c].runtime]
           S == [s \in DOMAIN SERVICES[network] |-> SERVICES[network][s].repos]
           listed(e, R) == UNION {{<<e, s>>} \X R[s] : s \in DOMAIN R}
<1>1. allowedSources(network) = listed("binaries", B) \cup listed("chains", C)
                                  \cup listed("services", S)
  <2>1. listed("binaries", B)
          = UNION {{<<"binaries", s>>} \X NODE_BINARIES[s] : s \in networkSlots(network)}
    OBVIOUS
  <2>2. listed("chains", C)
          = UNION {{<<"chains", c>>} \X DOMAIN CHAINS[network][c].runtime :
                     c \in DOMAIN CHAINS[network]}
    OBVIOUS
  <2>3. listed("services", S)
          = UNION {{<<"services", s>>} \X SERVICES[network][s].repos :
                     s \in DOMAIN SERVICES[network]}
    OBVIOUS
  <2> HIDE DEF listed
  <2> QED
    BY <2>1, <2>2, <2>3 DEF allowedSources
<1>2. \A e, R : <<<<d, x>>, repo>> \in listed(e, R) <=> d = e /\ x \in DOMAIN R /\ repo \in R[x]
  BY Listed
<1> HIDE DEF listed
<1>3. <<<<d, x>>, repo>> \in allowedSources(network) <=>
        \/ d = "binaries" /\ x \in DOMAIN B /\ repo \in B[x]
        \/ d = "chains" /\ x \in DOMAIN C /\ repo \in C[x]
        \/ d = "services" /\ x \in DOMAIN S /\ repo \in S[x]
  <2> HIDE DEF B, C, S
  <2> QED
    BY <1>1, <1>2
<1> QED
  BY <1>3

LEMMA ShownChains ==
  ASSUME NEW network, NEW c, NEW repo
  PROVE  <<<<"chains", c>>, repo>> \in allowedSources(network)
           <=> c \in DOMAIN CHAINS[network] /\ repo \in DOMAIN CHAINS[network][c].runtime
  BY ShownIs DEF Dims

LEMMA ShownBinaries ==
  ASSUME NEW network, NEW s, NEW repo
  PROVE  <<<<"binaries", s>>, repo>> \in allowedSources(network)
           <=> s \in networkSlots(network) /\ repo \in NODE_BINARIES[s]
  BY ShownIs DEF Dims

LEMMA ShownServices ==
  ASSUME NEW network, NEW s, NEW repo
  PROVE  <<<<"services", s>>, repo>> \in allowedSources(network)
           <=> s \in DOMAIN SERVICES[network] /\ repo \in SERVICES[network][s].repos
  BY ShownIs DEF Dims

\* A pin the table allows at its path, or a build of the run for a chain.
Shown(network, p, pin) ==
  \/ pin.kind = "release" /\ <<p, pin.from>> \in allowedSources(network)
  \/ /\ isEphemeral(pin) /\ p[1] = "chains" /\ p[2] \in DOMAIN CHAINS[network]

\* The validator, as far as it asks where pins come from.
SourcesTaken(m) ==
  /\ Names(m, "chains") \subseteq DOMAIN CHAINS[m.network]
  /\ runtimePlanOk(m) /\ binaryPlanOk(m)

LEMMA PinAt ==
  ASSUME NEW m, ManifestOk(m)
  PROVE  /\ \A d \in Dims : \A n : n \in Names(m, d) <=> <<d, n>> \in DOMAIN m.pins
         /\ \A p \in DOMAIN m.pins : p = <<p[1], p[2]>> /\ p[1] \in Dims
<1>1. \A p \in DOMAIN m.pins : p = <<p[1], p[2]>> /\ p[1] \in Dims
  BY DEF ManifestOk, PinsOk, PathsOk
<1> QED
  BY <1>1 DEF Names

\* The sources a rejection lists are the sources the validator takes, whatever
\* the network, the manifest and its pins: a manifest is refused for where its
\* pins come from exactly when one of them is neither a release from a
\* repository shown at its path nor a build for one of the chains.
THEOREM SourcesShownAreTaken ==
  ASSUME NEW m, ManifestOk(m), m.network \in DOMAIN CHAINS
  PROVE  SourcesTaken(m) <=> \A p \in DOMAIN m.pins : Shown(m.network, p, m.pins[p])
<1> DEFINE n == m.network
<1>1. networkSlots(n) = DOMAIN NODE_BINARIES
  BY SlotsOfNetworks DEF NODE_BINARIES, Slots
<1>2. ASSUME SourcesTaken(m), NEW p \in DOMAIN m.pins PROVE Shown(n, p, m.pins[p])
  <2>1. p = <<p[1], p[2]>> /\ p[1] \in {"binaries", "chains", "services"}
    BY PinAt DEF Dims
  <2>2. p[2] \in Names(m, p[1]) /\ Pin(m, p[1], p[2]) = m.pins[p]
    BY <2>1 DEF Names, Pin
  <2>3. CASE p[1] = "chains"
    <3>1. p[2] \in DOMAIN CHAINS[n] /\ parses(m.pins[p])
          /\ (isEphemeral(m.pins[p]) \/ m.pins[p].from \in DOMAIN CHAINS[n][p[2]].runtime)
      BY <1>2, <2>2, <2>3 DEF SourcesTaken, runtimePlanOk
    <3>2. isEphemeral(m.pins[p]) \/ m.pins[p].kind = "release"
      BY <3>1 DEF parses, isEphemeral
    <3> QED
      BY <2>1, <2>3, <3>1, <3>2, ShownChains DEF Shown
  <2>4. CASE p[1] = "binaries"
    <3>1. /\ p[2] \in DOMAIN NODE_BINARIES /\ m.pins[p].kind = "release"
          /\ m.pins[p].from \in NODE_BINARIES[p[2]]
      BY <1>2, <2>2, <2>4 DEF SourcesTaken, binaryPlanOk
    <3> QED
      BY <1>1, <2>1, <2>4, <3>1, ShownBinaries DEF Shown
  <2>5. CASE p[1] = "services"
    <3>1. /\ p[2] \in DOMAIN SERVICES[n] /\ m.pins[p].kind = "release"
          /\ m.pins[p].from \in SERVICES[n][p[2]].repos
      BY <1>2, <2>2, <2>5 DEF SourcesTaken, binaryPlanOk
    <3> QED
      BY <2>1, <2>5, <3>1, ShownServices DEF Shown
  <2> QED
    BY <2>1, <2>3, <2>4, <2>5
<1>3. ASSUME \A p \in DOMAIN m.pins : Shown(n, p, m.pins[p]) PROVE SourcesTaken(m)
  <2>1. ASSUME NEW c \in Names(m, "chains")
        PROVE  /\ c \in DOMAIN CHAINS[n] /\ parses(Pin(m, "chains", c))
               /\ \/ isEphemeral(Pin(m, "chains", c))
                  \/ Pin(m, "chains", c).from \in DOMAIN CHAINS[n][c].runtime
    <3>1. Shown(n, <<"chains", c>>, Pin(m, "chains", c))
      BY <1>3, PinAt DEF Pin, Dims
    <3> QED
      BY <3>1, ShownChains DEF Shown, parses, isEphemeral
  <2>2. ASSUME NEW s \in Names(m, "binaries")
        PROVE  /\ s \in DOMAIN NODE_BINARIES /\ Pin(m, "binaries", s).kind = "release"
               /\ Pin(m, "binaries", s).from \in NODE_BINARIES[s]
    <3>1. Shown(n, <<"binaries", s>>, Pin(m, "binaries", s))
      BY <1>3, PinAt DEF Pin, Dims
    <3> QED
      BY <1>1, <3>1, ShownBinaries DEF Shown
  <2>3. ASSUME NEW s \in Names(m, "services")
        PROVE  /\ s \in DOMAIN SERVICES[n] /\ Pin(m, "services", s).kind = "release"
               /\ Pin(m, "services", s).from \in SERVICES[n][s].repos
    <3>1. Shown(n, <<"services", s>>, Pin(m, "services", s))
      BY <1>3, PinAt DEF Pin, Dims
    <3> QED
      BY <3>1, ShownServices DEF Shown
  <2> QED
    BY <2>1, <2>2, <2>3 DEF SourcesTaken, runtimePlanOk, binaryPlanOk
<1> QED
  BY <1>2, <1>3
-----------------------------------------------------------------------------
(***************************************************************************)
(* Requests.  What an overlay makes of the record, and when the result is  *)
(* a manifest the validator takes.                                         *)
(***************************************************************************)
Pinned(target) == {p \in DOMAIN target : p[1] \in Dims}

\* The request decides what it pins, the record everything else; the chains and
\* the binaries stay those of the record, and so does what is no pin.
LEMMA MergesNarrow ==
  ASSUME NEW canonical, NEW target, ManifestOk(canonical), PathsOk(target),
         mergeTargetOk(canonical, target),
         NEW m, m = mergeTarget(canonical, target)
  PROVE  /\ ManifestOk(m)
         /\ m.network = canonical.network /\ m.base = canonical.base
         /\ DOMAIN m.pins = DOMAIN canonical.pins \cup Pinned(target)
         /\ \A p \in Pinned(target) : m.pins[p] = target[p]
         /\ \A p \in DOMAIN canonical.pins \ Pinned(target) : m.pins[p] = canonical.pins[p]
         /\ \A d \in {"chains", "binaries"} : Names(m, d) = Names(canonical, d)
<1> DEFINE pins == [p \in Pinned(target) |-> target[p]]
<1>1. /\ m.pins = Over(pins, canonical.pins) /\ DOMAIN m = DOMAIN canonical
      /\ m.network = canonical.network /\ m.base = canonical.base
  BY DEF mergeTarget, ManifestOk, Pinned
<1>2. PinsOk(pins)
  BY DEF PathsOk, PinsOk, Pinned
<1>3. DOMAIN pins = Pinned(target) /\ \A p \in Pinned(target) : pins[p] = target[p]
  OBVIOUS
<1> DEFINE record == canonical.pins
<1>4. PinsOk(record) /\ m.pins = Over(pins, record)
  BY <1>1 DEF ManifestOk
<1> HIDE DEF pins, record
<1>5. ManifestOk(m)
  <2>1. PinsOk(Over(pins, record))
    BY <1>2, <1>4, PathsOver DEF PinsOk
  <2> QED
    BY <1>1, <1>4, <2>1 DEF ManifestOk
<1>6. /\ DOMAIN m.pins = DOMAIN record \cup Pinned(target)
      /\ \A p \in Pinned(target) : m.pins[p] = target[p]
      /\ \A p \in DOMAIN record \ Pinned(target) : m.pins[p] = record[p]
  <2>1. /\ DOMAIN Over(pins, record) = DOMAIN pins \cup DOMAIN record
        /\ \A x \in DOMAIN pins : Over(pins, record)[x] = pins[x]
        /\ \A x \in DOMAIN record : x \notin DOMAIN pins => Over(pins, record)[x] = record[x]
    BY Merged
  <2> QED
    BY <1>3, <1>4, <2>1
<1>7. ASSUME NEW d \in {"chains", "binaries"} PROVE Names(m, d) = Names(canonical, d)
  <2>1. \A p \in Pinned(target) : p[1] = d => p \in DOMAIN canonical.pins
    BY <1>7 DEF mergeTargetOk, Pinned
  <2>2. {q \in DOMAIN m.pins : q[1] = d} = {q \in DOMAIN canonical.pins : q[1] = d}
    BY <1>6, <2>1 DEF record
  <2> QED
    BY <2>2 DEF Names
<1> QED
  BY <1>1, <1>5, <1>6, <1>7 DEF record

\* Whether a request is refused for its pins is decided by the table alone: laid
\* over a valid record, an overlay that only narrows it gives a valid manifest
\* exactly when each of its pins is shown for the record's network (and it does
\* not ask for no tests).  The record's own pins never stand in its way.
THEOREM RequestsTakenAreShown ==
  ASSUME NEW canonical, NEW target,
         ManifestOk(canonical), validateManifest(canonical),
         PathsOk(target), mergeTargetOk(canonical, target)
  PROVE  validateManifest(mergeTarget(canonical, target)) <=>
           /\ \A p \in Pinned(target) : Shown(canonical.network, p, target[p])
           /\ <<"tests">> \in DOMAIN target => target[<<"tests">>] # {}
<1> DEFINE m == mergeTarget(canonical, target)
<1>1. /\ ManifestOk(m) /\ m.network = canonical.network /\ m.base = canonical.base
      /\ DOMAIN m.pins = DOMAIN canonical.pins \cup Pinned(target)
      /\ \A p \in Pinned(target) : m.pins[p] = target[p]
      /\ \A p \in DOMAIN canonical.pins \ Pinned(target) : m.pins[p] = canonical.pins[p]
      /\ Names(m, "chains") = Names(canonical, "chains")
      /\ Names(m, "binaries") = Names(canonical, "binaries")
  BY MergesNarrow DEF ManifestOk
<1>2. m.tests # {} <=> (<<"tests">> \in DOMAIN target => target[<<"tests">>] # {})
  <2>1. m.tests = IF <<"tests">> \in DOMAIN target THEN target[<<"tests">>] ELSE canonical.tests
    BY DEF mergeTarget
  <2> QED
    BY <2>1 DEF validateManifest
<1> HIDE DEF m
<1>3. /\ canonical.network \in DOMAIN CHAINS
      /\ \A p \in DOMAIN canonical.pins : Shown(canonical.network, p, canonical.pins[p])
  BY SourcesShownAreTaken DEF validateManifest, SourcesTaken
<1>4. validateManifest(m) <=> SourcesTaken(m) /\ m.tests # {}
  BY <1>1 DEF validateManifest, SourcesTaken
<1>5. SourcesTaken(m) <=> \A p \in DOMAIN m.pins : Shown(canonical.network, p, m.pins[p])
  BY <1>1, <1>3, SourcesShownAreTaken
<1>6. (\A p \in DOMAIN m.pins : Shown(canonical.network, p, m.pins[p]))
        <=> \A p \in Pinned(target) : Shown(canonical.network, p, target[p])
  BY <1>1, <1>3
<1> QED
  BY <1>2, <1>4, <1>5, <1>6 DEF m

\* The cross terms cost nobody a run: between two valid manifests of a network
\* every candidate is valid, so no request is refused for a combination that it
\* did not ask for.
THEOREM CandidatesAreValid ==
  ASSUME NEW base, NEW head, ManifestOk(base), ManifestOk(head),
         base.network = head.network, validateManifest(base), validateManifest(head)
  PROVE  \A c \in candidateMatrix(base, head) : validateManifest(c.manifest)
<1>1. ASSUME NEW b, NEW r, NEW m, b \in {base, head}, r \in {base, head},
             m = [head EXCEPT !.pins = Joined(b, r)],
             Names(base, "chains") = Names(head, "chains")
      PROVE  validateManifest(m)
  <2>1. /\ m.network = head.network /\ m.base = head.base /\ m.tests = head.tests
        /\ m.pins = Joined(b, r)
    BY <1>1 DEF ManifestOk
  <2>2. Joins(m.pins, b, r)
    BY <2>1, JoinedSides
  <2>3. \A d \in {"binaries", "services"} :
          Names(m, d) = Names(b, d) /\ \A n \in Names(b, d) : Pin(m, d, n) = Pin(b, d, n)
    <3> TAKE d \in {"binaries", "services"}
    <3>1. {q \in DOMAIN m.pins : q[1] = d} = {q \in DOMAIN b.pins : q[1] = d}
      BY <2>2 DEF Joins
    <3>2. ASSUME NEW n \in Names(b, d) PROVE Pin(m, d, n) = Pin(b, d, n)
      <4>1. <<d, n>> \in DOMAIN b.pins
        BY <1>1, <3>2, PinAt DEF Dims
      <4> QED
        BY <2>2, <4>1 DEF Joins, Pin
    <3> QED
      BY <3>1, <3>2 DEF Names
  <2>4. /\ Names(m, "chains") = Names(r, "chains")
        /\ \A n \in Names(r, "chains") : Pin(m, "chains", n) = Pin(r, "chains", n)
    <3>1. {q \in DOMAIN m.pins : q[1] = "chains"} = {q \in DOMAIN r.pins : q[1] = "chains"}
      BY <2>2 DEF Joins
    <3>2. ASSUME NEW n \in Names(r, "chains") PROVE Pin(m, "chains", n) = Pin(r, "chains", n)
      <4>1. <<"chains", n>> \in DOMAIN r.pins
        BY <1>1, <3>2, PinAt DEF Dims
      <4> QED
        BY <2>2, <4>1 DEF Joins, Pin
    <3> QED
      BY <3>1, <3>2 DEF Names
  <2>5. /\ validateManifest(b) /\ validateManifest(r)
        /\ b.network = head.network /\ r.network = head.network
        /\ Names(b, "chains") = Names(head, "chains")
        /\ Names(r, "chains") = Names(head, "chains")
    BY <1>1
  <2>6. runtimePlanOk(m)
    BY <2>1, <2>4, <2>5 DEF runtimePlanOk, validateManifest
  <2>7. binaryPlanOk(m)
    BY <2>1, <2>3, <2>5 DEF binaryPlanOk, validateManifest
  <2> QED
    BY <2>1, <2>3, <2>4, <2>5, <2>6, <2>7 DEF validateManifest
<1> SUFFICES ASSUME NEW c \in candidateMatrix(base, head) PROVE validateManifest(c.manifest)
  OBVIOUS
<1> DEFINE bo == [head EXCEPT !.pins = Over(binaryDim(head), runtimeDim(base))]
           ro == [head EXCEPT !.pins = Over(binaryDim(base), runtimeDim(head))]
<1>2. /\ bo = [head EXCEPT !.pins = Joined(head, base)]
      /\ ro = [head EXCEPT !.pins = Joined(base, head)]
  BY DEF Joined
<1>3. \/ c.manifest = head
      \/ Names(base, "chains") = Names(head, "chains") /\ c.manifest \in {bo, ro}
  BY DEF candidateMatrix, CrossTerms, Candidate
<1> HIDE DEF bo, ro
<1> QED
  BY <1>1, <1>2, <1>3
=============================================================================
