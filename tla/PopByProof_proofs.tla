-------------------------- MODULE PopByProof_proofs --------------------------
(***************************************************************************)
(* Theorems about PopByProof, for every number of accounts and persons,    *)
(* every sharing of persons between accounts and every window.             *)
(***************************************************************************)
EXTENDS PopByProof, FiniteSetTheorems, TLAPS

\* An accepted proof was bound to its caller at a nonce now passed, and made
\* by the caller's person.
Bound ==
  \A b \in accepted :
    /\ b.proof.message.origin = b.caller
    /\ b.proof.message.nonce < proofNonce[b.caller]
    /\ b.proof.alias = PersonOf[b.caller]

\* Every nonce passed was spent on an accepted proof.
NoneSkipped ==
  \A a \in Accounts : \A n \in 0 .. proofNonce[a] - 1 :
    \E b \in accepted : b.caller = a /\ b.proof.message.nonce = n

\* A run's message, and what is left in the pool, bind their caller at a nonce
\* reached by now.
Reached ==
  /\ \A a \in Accounts : message[a].origin = a /\ message[a].nonce <= proofNonce[a]
  /\ \A t \in left :
       /\ t.proof.message.origin = t.caller
       /\ t.proof.message.nonce <= proofNonce[t.caller]
       /\ t.proof.alias = PersonOf[t.caller]

Trying == {"snapshot", "mirror", "dryrun", "before", "submit", "watch"}

\* While a run tries, what its account has in the pool was there when it read
\* the message, and only that can have spent it.
Current ==
  \A a \in Accounts : pc[a] \in Trying =>
    /\ \A t \in left : t.caller = a => t \in late[a]
    /\ message[a] = ExpectedMessage(a) \/ SpentByEarlierRun(a)

\* A bump that landed outdates what its account still has in the pool.
Outdated ==
  \A a \in Accounts : pc[a] \in {"landed", "after"} =>
    \A t \in left : t.caller = a => t.proof.message.nonce < proofNonce[a]

\* No other account of a's person has bumped by proof since `before` was read.
Quiet(a) ==
  \A b \in Accounts \ {a} : PersonOf[b] = PersonOf[a] => proofNonce[b] <= noted[a][b]

\* Unless a twin bumped since, the count only moves by the own bump.
Counting ==
  \A a \in Accounts : Quiet(a) =>
    /\ pc[a] \in {"submit", "watch"} /\ message[a] = ExpectedMessage(a) =>
         BumpCount(a) = before[a]
    /\ pc[a] \in {"landed", "after"} => BumpCount(a) = before[a] + 1
    /\ pc[a] # "miscounted"

\* Nothing noted is ahead of the nonces.
Noted == \A a, b \in Accounts : noted[a][b] <= proofNonce[b]

IInv ==
  /\ TypeOK
  /\ IsFiniteSet(accepted)
  /\ Bound
  /\ NoneSkipped
  /\ TalliesExact
  /\ Reached
  /\ Current
  /\ Outdated
  /\ Noted
  /\ Counting

-----------------------------------------------------------------------------
LEMMA InitInv == ASSUME PopAssumption, Init PROVE IInv
<1> USE PopAssumption DEF PopAssumption
<1>1. TypeOK
  BY DEF Init, ContractInit, TypeOK, ContractTypeOK, PC, Message, MaxProofAttempts
<1>2. accepted = {} /\ IsFiniteSet(accepted) /\ Cardinality({}) = 0
  BY FS_EmptySet DEF Init, ContractInit
<1>3. Bound /\ NoneSkipped
  BY <1>2 DEF Bound, NoneSkipped, Init, ContractInit
<1>4. TalliesExact
  <2>1. \A p \in Persons : OfPerson(p) = {}
    BY <1>2 DEF OfPerson
  <2>2. \A a \in Accounts : OfCaller(a) = {}
    BY <1>2 DEF OfCaller
  <2> QED BY <1>2, <2>1, <2>2 DEF TalliesExact, Init, ContractInit
<1>5. Reached /\ Current /\ Outdated /\ Noted /\ Counting
  BY DEF Reached, Current, Outdated, Noted, Counting, Trying, Init, ContractInit
<1> QED BY <1>1, <1>2, <1>3, <1>4, <1>5 DEF IInv

\* A step that leaves the contract's by-proof state and the history alone
\* leaves alone what is said of them.
LEMMA TalliesKept ==
  ASSUME Bound, NoneSkipped, TalliesExact,
         UNCHANGED <<totalBumpsByProof, byAliasByProof, proofNonce, accepted>>
  PROVE  Bound' /\ NoneSkipped' /\ TalliesExact'
BY DEF Bound, NoneSkipped, TalliesExact, OfPerson, OfCaller

\* The step of the contract: any proof made by the caller's person.
LEMMA BumpByProofInv ==
  ASSUME PopAssumption, ContractTypeOK, IsFiniteSet(accepted),
         Bound, NoneSkipped, TalliesExact,
         NEW a \in Accounts, NEW proof \in Proof,
         proof.alias = PersonOf[a],
         BumpByProof(a, proof)
  PROVE  /\ ContractTypeOK'
         /\ IsFiniteSet(accepted')
         /\ Bound' /\ NoneSkipped' /\ TalliesExact'
         /\ [caller |-> a, proof |-> proof] \notin accepted
         /\ proofNonce[a] < MaxBumps
         /\ proof.message = ExpectedMessage(a)
         /\ accepted' = accepted \cup {[caller |-> a, proof |-> proof]}
         /\ proofNonce' = [proofNonce EXCEPT ![a] = @ + 1]
         /\ byAliasByProof' = [byAliasByProof EXCEPT ![PersonOf[a]] = @ + 1]
<1> DEFINE new == [caller |-> a, proof |-> proof]
<1> USE PopAssumption DEF PopAssumption, ContractTypeOK, external
<1>1. proof.message = [origin |-> a, nonce |-> proofNonce[a]]
  BY DEF BumpByProof, Accepts, PersonhoodInfoByProof, ExpectedMessage
<1>2. new \in ByProof /\ new.caller = a /\ new.proof = proof
  BY DEF ByProof
<1>3. accepted' = accepted \cup {new}
  BY DEF BumpByProof
<1>4. new \notin accepted
  <2> SUFFICES ASSUME new \in accepted PROVE FALSE
    OBVIOUS
  <2> QED BY <1>1, <1>2 DEF Bound
<1>5. ContractTypeOK'
  BY <1>2, <1>3 DEF BumpByProof, Proof
<1>6. IsFiniteSet(accepted') /\ Cardinality(accepted') = Cardinality(accepted) + 1
  BY <1>3, <1>4, FS_AddElement
<1>7. /\ proofNonce' = [proofNonce EXCEPT ![a] = @ + 1]
      /\ totalBumpsByProof' = totalBumpsByProof + 1
      /\ byAliasByProof' = [byAliasByProof EXCEPT ![PersonOf[a]] = @ + 1]
  BY DEF BumpByProof
<1>8. Bound'
  <2> SUFFICES ASSUME NEW b \in accepted'
               PROVE  /\ b.proof.message.origin = b.caller
                      /\ b.proof.message.nonce < proofNonce'[b.caller]
                      /\ b.proof.alias = PersonOf[b.caller]
    BY DEF Bound
  <2>1. CASE b = new
    BY <2>1, <1>1, <1>2, <1>7
  <2>2. CASE b \in accepted
    <3>1. b.caller \in Accounts /\ b.proof.message.nonce \in Nat
      BY <2>2 DEF ByProof, Proof, Message
    <3>2. proofNonce[b.caller] <= proofNonce'[b.caller]
      BY <1>7, <3>1
    <3> QED BY <2>2, <3>1, <3>2, <1>5 DEF Bound
  <2> QED BY <2>1, <2>2, <1>3
<1>9. NoneSkipped'
  <2> SUFFICES ASSUME NEW c \in Accounts, NEW n \in 0 .. proofNonce'[c] - 1
               PROVE  \E b \in accepted' : b.caller = c /\ b.proof.message.nonce = n
    BY DEF NoneSkipped
  <2>1. CASE c = a /\ n = proofNonce[a]
    BY <2>1, <1>1, <1>2, <1>3
  <2>2. CASE ~ (c = a /\ n = proofNonce[a])
    <3>1. n \in 0 .. proofNonce[c] - 1
      BY <2>2, <1>7
    <3> QED BY <3>1, <1>3 DEF NoneSkipped
  <2> QED BY <2>1, <2>2
<1>10. TalliesExact'
  <2>1. totalBumpsByProof' = Cardinality(accepted')
    BY <1>6, <1>7 DEF TalliesExact
  <2>2. ASSUME NEW p \in Persons
        PROVE  byAliasByProof'[p] = Cardinality(OfPerson(p)')
    <3>1. IsFiniteSet(OfPerson(p)) /\ OfPerson(p) \subseteq accepted
      BY FS_Subset DEF OfPerson
    <3>2. CASE p = PersonOf[a]
      <4>1. OfPerson(p)' = OfPerson(p) \cup {new}
        BY <3>2, <1>2, <1>3 DEF OfPerson
      <4>2. Cardinality(OfPerson(p)') = Cardinality(OfPerson(p)) + 1
        BY <3>1, <4>1, <1>4, FS_AddElement
      <4> QED BY <4>2, <3>2, <1>7 DEF TalliesExact
    <3>3. CASE p # PersonOf[a]
      <4>1. OfPerson(p)' = OfPerson(p)
        BY <3>3, <1>2, <1>3 DEF OfPerson
      <4> QED BY <4>1, <3>3, <1>7 DEF TalliesExact
    <3> QED BY <3>2, <3>3
  <2>3. ASSUME NEW c \in Accounts
        PROVE  proofNonce'[c] = Cardinality(OfCaller(c)')
    <3>1. IsFiniteSet(OfCaller(c)) /\ OfCaller(c) \subseteq accepted
      BY FS_Subset DEF OfCaller
    <3>2. CASE c = a
      <4>1. OfCaller(c)' = OfCaller(c) \cup {new}
        BY <3>2, <1>2, <1>3 DEF OfCaller
      <4>2. Cardinality(OfCaller(c)') = Cardinality(OfCaller(c)) + 1
        BY <3>1, <4>1, <1>4, FS_AddElement
      <4> QED BY <4>2, <3>2, <1>7 DEF TalliesExact
    <3>3. CASE c # a
      <4>1. OfCaller(c)' = OfCaller(c)
        BY <3>3, <1>2, <1>3 DEF OfCaller
      <4> QED BY <4>1, <3>3, <1>7 DEF TalliesExact
    <3> QED BY <3>2, <3>3
  <2> QED BY <2>1, <2>2, <2>3 DEF TalliesExact
<1>11. proofNonce[a] < MaxBumps
  <2>1. /\ OfCaller(a) \subseteq accepted
        /\ Cardinality(OfCaller(a)) <= Cardinality(accepted)
    BY FS_Subset DEF OfCaller
  <2>2. proofNonce[a] <= totalBumpsByProof
    BY <2>1 DEF TalliesExact
  <2> QED BY <2>2 DEF BumpByProof
<1> QED BY <1>1, <1>3, <1>4, <1>5, <1>6, <1>7, <1>8, <1>9, <1>10, <1>11 DEF ExpectedMessage

-----------------------------------------------------------------------------
\* What a landing, watched or not, does to what is said of the runs: c's nonce
\* and its person's count move by one, and only c's own run may have moved on.
LEMMA LandingInv ==
  ASSUME PopAssumption, IInv, TypeOK',
         NEW c \in Accounts, NEW proof \in Proof,
         proof.message = ExpectedMessage(c), proof.alias = PersonOf[c],
         accepted' = accepted \cup {[caller |-> c, proof |-> proof]},
         proofNonce' = [proofNonce EXCEPT ![c] = @ + 1],
         byAliasByProof' = [byAliasByProof EXCEPT ![PersonOf[c]] = @ + 1],
         UNCHANGED <<message, before, late, noted>>,
         \/ /\ pc[c] = "watch" /\ message[c] = ExpectedMessage(c)
            /\ pc' = [pc EXCEPT ![c] = "landed"] /\ left' = left
         \/ /\ [caller |-> c, proof |-> proof] \in left
            /\ pc' = pc /\ left' = left \ {[caller |-> c, proof |-> proof]}
  PROVE  Reached' /\ Current' /\ Outdated' /\ Noted' /\ Counting'
<1> USE PopAssumption DEF PopAssumption, IInv, TypeOK, ContractTypeOK
<1> DEFINE new == [caller |-> c, proof |-> proof]
<1>1. left' \subseteq left /\ new.caller = c /\ new.proof = proof
  OBVIOUS
<1>2. \A a \in Accounts : /\ proofNonce'[a] \in Nat /\ proofNonce[a] \in Nat
                          /\ proofNonce[a] <= proofNonce'[a]
                          /\ a # c => proofNonce'[a] = proofNonce[a]
  OBVIOUS
<1>3. proofNonce'[c] = proofNonce[c] + 1
  OBVIOUS
<1>4. \A t \in left : t.caller \in Accounts /\ t.proof.message.nonce \in Nat
  BY DEF ByProof, Proof, Message
<1>5. \A a \in Accounts : message[a].nonce \in Nat
  BY DEF Message
<1>6. Reached'
  BY <1>1, <1>2, <1>4, <1>5 DEF Reached
<1>7. Noted'
  BY <1>2 DEF Noted
<1>8. ASSUME NEW a \in Accounts PROVE ExpectedMessage(a)' = message[a] => a # c /\ ExpectedMessage(a) = message[a]
  <2>1. a = c => ExpectedMessage(a)' # message[a]
    BY <1>3, <1>2, <1>5 DEF Reached, ExpectedMessage
  <2> QED BY <2>1, <1>2 DEF ExpectedMessage
<1>9. ASSUME NEW a \in Accounts, pc'[a] \in Trying
      PROVE  /\ \A t \in left' : t.caller = a => t \in late'[a]
             /\ message'[a] = ExpectedMessage(a)' \/ SpentByEarlierRun(a)'
  <2>1. pc[a] = pc'[a]
    BY <1>9 DEF Trying
  <2>2. \A t \in left : t.caller = a => t \in late[a]
    BY <2>1, <1>9 DEF Current
  <2>3. CASE SpentByEarlierRun(a)
    BY <2>2, <2>3, <1>1 DEF SpentByEarlierRun
  <2>4. CASE message[a] = ExpectedMessage(a)
    <3>1. CASE a = c
      <4>1. new \in left
        BY <3>1, <1>9 DEF Trying
      <4>2. new \in late'[a] \cap accepted' /\ new.proof.message = message'[a]
        BY <4>1, <3>1, <2>2, <2>4, <1>1
      <4>3. SpentByEarlierRun(a)'
        BY <4>2 DEF SpentByEarlierRun
      <4> QED BY <4>3, <2>2, <1>1
    <3>2. CASE a # c
      BY <3>2, <2>4, <2>2, <1>1, <1>2 DEF ExpectedMessage
    <3> QED BY <3>1, <3>2
  <2> QED BY <2>1, <2>3, <2>4, <1>9 DEF Current
<1>10. Current'
  BY <1>9 DEF Current
<1>11. Outdated'
  <2> SUFFICES ASSUME NEW a \in Accounts, pc'[a] \in {"landed", "after"},
                      NEW t \in left', t.caller = a
               PROVE  t.proof.message.nonce < proofNonce'[a]
    BY DEF Outdated
  <2>1. CASE a = c
    BY <2>1, <1>1, <1>3, <1>4, <1>2 DEF Reached
  <2>2. CASE a # c
    BY <2>2, <1>1, <1>2, <1>4 DEF Outdated
  <2> QED BY <2>1, <2>2
<1>12. Counting'
  <2> SUFFICES ASSUME NEW a \in Accounts, Quiet(a)'
               PROVE  /\ pc'[a] \in {"submit", "watch"} /\ message'[a] = ExpectedMessage(a)' =>
                           BumpCount(a)' = before'[a]
                      /\ pc'[a] \in {"landed", "after"} => BumpCount(a)' = before'[a] + 1
                      /\ pc'[a] # "miscounted"
    BY DEF Counting
  <2>1. Quiet(a)
    <3> SUFFICES ASSUME NEW b \in Accounts \ {a}, PersonOf[b] = PersonOf[a]
                 PROVE  proofNonce[b] <= noted[a][b]
      BY DEF Quiet
    <3>1. proofNonce'[b] <= noted[a][b] /\ noted[a][b] \in Nat
      BY DEF Quiet
    <3> QED BY <3>1, <1>2
  <2>2. CASE a # c
    <3>1. PersonOf[c] # PersonOf[a]
      <4> SUFFICES ASSUME PersonOf[c] = PersonOf[a] PROVE FALSE
        OBVIOUS
      <4>1. noted[a][c] <= proofNonce[c] /\ noted[a][c] \in Nat
        BY DEF Noted
      <4>2. proofNonce'[c] <= noted[a][c]
        BY <2>2 DEF Quiet
      <4> QED BY <4>1, <4>2, <1>2, <1>3
    <3>2. BumpCount(a)' = BumpCount(a)
      BY <3>1 DEF BumpCount
    <3>3. pc'[a] = pc[a]
      BY <2>2
    <3> QED BY <2>1, <2>2, <3>2, <3>3, <1>8 DEF Counting
  <2>3. CASE a = c
    <3>1. BumpCount(a)' = BumpCount(a) + 1
      BY <2>3 DEF BumpCount
    <3>2. ~ (pc'[a] \in {"submit", "watch"} /\ message'[a] = ExpectedMessage(a)')
      BY <2>3, <1>8
    <3>3. CASE pc' = [pc EXCEPT ![c] = "landed"] /\ pc[c] = "watch" /\ message[c] = ExpectedMessage(c)
      BY <2>1, <2>3, <3>1, <3>3 DEF Counting
    <3>4. CASE new \in left /\ pc' = pc
      <4>1. pc[a] \notin {"landed", "after"}
        <5> SUFFICES ASSUME pc[a] \in {"landed", "after"} PROVE FALSE
          OBVIOUS
        <5>1. proof.message.nonce < proofNonce[a]
          BY <2>3, <3>4, <1>1 DEF Outdated
        <5> QED BY <5>1, <2>3, <1>2 DEF ExpectedMessage
      <4> QED BY <4>1, <3>2, <3>4, <2>1 DEF Counting
    <3> QED BY <3>3, <3>4
  <2> QED BY <2>2, <2>3
<1> QED BY <1>6, <1>7, <1>10, <1>11, <1>12

\* A bump lands: the contract's part and the runs' part.
LEMMA LandInv == ASSUME PopAssumption, IInv, NEW a \in Accounts, Land(a) PROVE IInv'
<1> USE PopAssumption DEF PopAssumption, IInv
<1>1. /\ OneShot(a) \in Proof /\ OneShot(a).alias = PersonOf[a] /\ OneShot(a).message = message[a]
      /\ pc[a] = "watch" /\ BumpByProof(a, OneShot(a))
  BY DEF OneShot, Proof, TypeOK, Land
<1>2. /\ ContractTypeOK' /\ IsFiniteSet(accepted') /\ Bound' /\ NoneSkipped' /\ TalliesExact'
      /\ message[a] = ExpectedMessage(a)
      /\ accepted' = accepted \cup {[caller |-> a, proof |-> OneShot(a)]}
      /\ proofNonce' = [proofNonce EXCEPT ![a] = @ + 1]
      /\ byAliasByProof' = [byAliasByProof EXCEPT ![PersonOf[a]] = @ + 1]
  BY <1>1, BumpByProofInv DEF TypeOK
<1>3. /\ pc' = [pc EXCEPT ![a] = "landed"]
      /\ UNCHANGED <<attempt, message, revision, before, left, late, noted>>
  BY DEF Land, Goto
<1>4. TypeOK'
  BY <1>2, <1>3 DEF TypeOK, PC
<1>5. Reached' /\ Current' /\ Outdated' /\ Noted' /\ Counting'
  <2> HIDE DEF IInv
  <2> QED BY <1>1, <1>2, <1>3, <1>4, LandingInv
<1> QED BY <1>2, <1>4, <1>5

\* And one nobody watches lands.
LEMMA LandLeftInv == ASSUME PopAssumption, IInv, NEW t \in left, LandLeft(t) PROVE IInv'
<1> USE PopAssumption DEF PopAssumption, IInv
<1>1. /\ t \in ByProof /\ t.caller \in Accounts /\ t.proof \in Proof
      /\ t = [caller |-> t.caller, proof |-> t.proof]
      /\ t.proof.alias = PersonOf[t.caller] /\ BumpByProof(t.caller, t.proof)
  BY DEF ByProof, TypeOK, Reached, LandLeft
<1>2. /\ ContractTypeOK' /\ IsFiniteSet(accepted') /\ Bound' /\ NoneSkipped' /\ TalliesExact'
      /\ t.proof.message = ExpectedMessage(t.caller)
      /\ accepted' = accepted \cup {[caller |-> t.caller, proof |-> t.proof]}
      /\ proofNonce' = [proofNonce EXCEPT ![t.caller] = @ + 1]
      /\ byAliasByProof' = [byAliasByProof EXCEPT ![PersonOf[t.caller]] = @ + 1]
  BY <1>1, BumpByProofInv DEF TypeOK
<1>3. left' = left \ {t} /\ UNCHANGED <<pc, attempt, message, revision, before, late, noted>>
  BY DEF LandLeft
<1>4. TypeOK'
  BY <1>2, <1>3 DEF TypeOK
<1>5. Reached' /\ Current' /\ Outdated' /\ Noted' /\ Counting'
  <2> HIDE DEF IInv
  <2> QED BY <1>1, <1>2, <1>3, <1>4, LandingInv
<1> QED BY <1>2, <1>4, <1>5

\* A step of a run that does not touch the contract.
LEMMA RunInv ==
  ASSUME PopAssumption, IInv, NEW a \in Accounts, RunStep(a), ~ Land(a)
  PROVE  IInv' /\ UNCHANGED contract
<1> USE PopAssumption DEF PopAssumption, IInv, TypeOK, ContractTypeOK
<1>1. UNCHANGED contract
  BY DEF RunStep, ReadMessage, Snapshot, SeeMirrored, MirrorTimesOut,
       DryRunAccepts, DryRunReverts, GiveUp, ReadBefore, Submit, LandReverts, Hear,
       StopWatching, ReadAfter, Replay, Throw, RunAgain
<1>2. UNCHANGED <<people, roots, tallies, accepted, totalBumps, byAlias, totalBumpsByProof,
                  byAliasByProof, proofNonce>>
  BY <1>1 DEF contract, tallies, external
<1>3. Bound' /\ NoneSkipped' /\ TalliesExact' /\ IsFiniteSet(accepted') /\ ContractTypeOK'
  BY <1>2, TalliesKept
<1>4. ASSUME NEW b \in Accounts PROVE ExpectedMessage(b)' = ExpectedMessage(b) /\ BumpCount(b)' = BumpCount(b)
  BY <1>2 DEF ExpectedMessage, BumpCount
<1> DEFINE Rest == Reached' /\ Current' /\ Outdated' /\ Noted' /\ Counting'
<1>5. TypeOK' /\ Rest
  <2> USE <1>2, <1>3, <1>4 DEF Goto, PC, Message, MaxProofAttempts, Trying
  <2> USE DEF Reached, Current, Outdated, Noted, Counting, Quiet, SpentByEarlierRun
  <2>1. CASE ReadMessage(a)
    <3>1. ExpectedMessage(a) \in Message /\ ExpectedMessage(a).origin = a /\ ExpectedMessage(a).nonce = proofNonce[a]
      BY DEF ExpectedMessage
    <3>2. /\ pc[a] = "idle" /\ pc' = [pc EXCEPT ![a] = "snapshot"]
          /\ message' = [message EXCEPT ![a] = ExpectedMessage(a)]
          /\ late' = [late EXCEPT ![a] = {t \in left : t.caller = a}]
          /\ UNCHANGED <<attempt, revision, before, left, noted>>
      BY <2>1 DEF ReadMessage
    <3>3. TypeOK'
      BY <3>1, <3>2
    <3>4. Reached' /\ Noted'
      BY <3>1, <3>2
    <3>5. Current'
      BY <3>1, <3>2
    <3>6. Outdated'
      BY <3>2
    <3>7. Counting'
      BY <3>2
    <3> QED BY <3>3, <3>4, <3>5, <3>6, <3>7
  <2>2. CASE Snapshot(a)
    BY <2>2 DEF Snapshot
  <2>3. CASE SeeMirrored(a)
    BY <2>3 DEF SeeMirrored
  <2>4. CASE MirrorTimesOut(a)
    BY <2>4 DEF MirrorTimesOut
  <2>5. CASE DryRunAccepts(a)
    BY <2>5 DEF DryRunAccepts
  <2>6. CASE DryRunReverts(a)
    <3>1. TypeOK'
      <4>0. attempt[a] \in 1 .. 3
        OBVIOUS
      <4>1. attempt[a] + 1 \in 1 .. 3
        <5>1. attempt[a] < 3
          BY <2>6 DEF DryRunReverts
        <5> HIDE DEF IInv
        <5> QED BY <4>0, <5>1
      <4>2. /\ attempt' = [attempt EXCEPT ![a] = attempt[a] + 1]
            /\ pc' = [pc EXCEPT ![a] = "snapshot"]
            /\ UNCHANGED <<message, revision, before, left, late, noted>>
        BY <2>6 DEF DryRunReverts
      <4>3. attempt' \in [Accounts -> 1 .. 3]
        BY <4>1, <4>2
      <4> QED BY <4>2, <4>3
    <3>2. Reached' /\ Noted'
      BY <2>6 DEF DryRunReverts
    <3>3. Current'
      BY <2>6 DEF DryRunReverts
    <3>4. Outdated'
      BY <2>6 DEF DryRunReverts
    <3>5. Counting'
      BY <2>6 DEF DryRunReverts
    <3> QED BY <3>1, <3>2, <3>3, <3>4, <3>5
  <2>7. CASE GiveUp(a)
    BY <2>7 DEF GiveUp
  <2>8. CASE ReadBefore(a)
    <3>1. BumpCount(a) \in Nat
      BY DEF BumpCount
    <3> QED BY <2>8, <3>1 DEF ReadBefore
  <2>9. CASE Submit(a)
    BY <2>9 DEF Submit
  <2>10. CASE LandReverts(a)
    BY <2>10 DEF LandReverts
  <2>11. CASE Hear(a)
    BY <2>11 DEF Hear
  <2>12. CASE StopWatching(a)
    <3> DEFINE t == [caller |-> a, proof |-> OneShot(a)]
    <3>1. /\ t \in ByProof /\ t.caller = a /\ t.proof.message = message[a]
          /\ t.proof.alias = PersonOf[a]
      BY DEF ByProof, OneShot, Proof
    <3>2. left' = left \cup {t} /\ pc' = [pc EXCEPT ![a] = "failed"]
          /\ UNCHANGED <<attempt, message, revision, before, late, noted>>
      BY <2>12 DEF StopWatching
    <3> HIDE DEF t
    <3> QED BY <3>1, <3>2
  <2>13. CASE ReadAfter(a)
    BY <2>13 DEF ReadAfter
  <2>14. CASE Replay(a)
    BY <2>14 DEF Replay
  <2>15. CASE Throw(a)
    BY <2>15 DEF Throw
  <2>16. CASE RunAgain(a)
    <3>1. TypeOK'
      BY <2>16 DEF RunAgain
    <3>2. Reached' /\ Noted'
      BY <2>16 DEF RunAgain
    <3>3. Current'
      BY <2>16 DEF RunAgain
    <3>4. Outdated'
      BY <2>16 DEF RunAgain
    <3>5. Counting'
      BY <2>16 DEF RunAgain
    <3> QED BY <3>1, <3>2, <3>3, <3>4, <3>5
  <2> QED
    BY <2>1, <2>2, <2>3, <2>4, <2>5, <2>6, <2>7, <2>8, <2>9, <2>10, <2>11, <2>12, <2>13,
       <2>14, <2>15, <2>16 DEF RunStep
<1> QED BY <1>1, <1>3, <1>5

\* A step of the world, of the pool or of one run.
LEMMA StepInv == ASSUME PopAssumption, IInv, [Next]_vars PROVE IInv'
<1> USE PopAssumption DEF PopAssumption
<1>1. ASSUME UNCHANGED <<totalBumpsByProof, byAliasByProof, proofNonce, accepted>>,
             UNCHANGED <<pc, message, before, late, noted>>, left' \subseteq left, TypeOK'
      PROVE  IInv'
  <2> USE <1>1 DEF IInv
  <2>1. Bound' /\ NoneSkipped' /\ TalliesExact' /\ IsFiniteSet(accepted')
    BY TalliesKept
  <2>2. Reached' /\ Current' /\ Outdated' /\ Noted' /\ Counting'
    BY DEF Reached, Current, Outdated, Noted, Counting, Quiet, SpentByEarlierRun,
           BumpCount, ExpectedMessage
  <2> QED BY <2>1, <2>2
<1>2. CASE UNCHANGED vars
  <2>1. TypeOK'
    BY <1>2 DEF vars, contract, run, tallies, external, IInv, TypeOK, ContractTypeOK
  <2> QED BY <1>1, <1>2, <2>1 DEF vars, contract, run, tallies
<1>3. CASE WorldStep
  <2>1. UNCHANGED <<totalBumpsByProof, byAliasByProof, proofNonce, accepted, run>>
    BY <1>3 DEF WorldStep, World, Rebuild, Mirror, Bump, tallies, external
  <2>2. TypeOK'
    <3> USE DEF IInv, TypeOK, ContractTypeOK
    <3>1. CASE Rebuild
      BY <3>1, <2>1 DEF Rebuild, tallies, run
    <3>2. ASSUME NEW r \in 1 .. people, Mirror(r) PROVE TypeOK'
      <4>1. roots' \subseteq roots \cup {r} /\ UNCHANGED <<tallies, people>>
        BY <3>2 DEF Mirror
      <4> QED BY <4>1, <2>1 DEF tallies, run
    <3>3. ASSUME NEW a \in Accounts, Bump(a) PROVE TypeOK'
      BY <3>3, <2>1 DEF Bump, external, run
    <3> QED BY <1>3, <3>1, <3>2, <3>3 DEF WorldStep, World
  <2> QED BY <1>1, <2>1, <2>2 DEF run
<1>4. ASSUME NEW a \in Accounts, RunStep(a) PROVE IInv'
  BY <1>4, LandInv, RunInv
<1>5. ASSUME NEW t \in left, LandLeft(t) PROVE IInv'
  BY <1>5, LandLeftInv
<1>6. ASSUME NEW t \in left, Lapse(t) PROVE IInv'
  <2>1. TypeOK'
    BY <1>6 DEF Lapse, contract, tallies, external, IInv, TypeOK, ContractTypeOK
  <2> QED BY <1>1, <1>6, <2>1 DEF Lapse, contract, tallies
<1> QED BY <1>2, <1>3, <1>4, <1>5, <1>6 DEF Next

LEMMA Inductive == Spec => []IInv
<1>1. Init => IInv
  BY InitInv, PopAssumption
<1>2. IInv /\ [Next]_vars => IInv'
  BY StepInv, PopAssumption
<1> QED BY <1>1, <1>2, PTL DEF Spec

-----------------------------------------------------------------------------
\* The variables keep their types.
THEOREM TypeCorrect == Spec => []TypeOK
BY Inductive, PTL DEF IInv

\* No accepted proof is ever accepted again, from any caller.
THEOREM ProofsAreSpent == Spec => []SpentForGood
<1>1. IInv => SpentForGood
  <2> SUFFICES ASSUME IInv, NEW b \in accepted, NEW a \in Accounts, Accepts(a, b.proof)
               PROVE  FALSE
    BY DEF SpentForGood
  <2>1. b.proof.message.origin = a /\ b.proof.message.nonce = proofNonce[a]
    BY DEF Accepts, PersonhoodInfoByProof, ExpectedMessage
  <2> QED BY <2>1 DEF IInv, Bound, TypeOK, ContractTypeOK
<1> QED BY <1>1, Inductive, PTL

\* The by-proof tallies are the numbers of accepted bumps.
THEOREM TalliesAreExact == Spec => []TalliesExact
BY Inductive, PTL DEF IInv

\* The test's count is off only if a twin bumped after `before` was read.
THEOREM MiscountsNeedTwins == Spec => []MiscountNeedsTwin
<1>1. IInv => MiscountNeedsTwin
  <2> SUFFICES ASSUME IInv, NEW a \in Accounts, pc[a] = "miscounted"
               PROVE  \E b \in Accounts \ {a} :
                        PersonOf[b] = PersonOf[a] /\ proofNonce[b] > noted[a][b]
    BY DEF MiscountNeedsTwin
  <2>1. ~ Quiet(a)
    BY DEF IInv, Counting
  <2> QED BY <2>1 DEF Quiet, IInv, TypeOK, ContractTypeOK
<1> QED BY <1>1, Inductive, PTL

\* Every revert met in a run is the ring's doing, so that a fresh snapshot cures
\* it, or that of an earlier run's bump that was still in the pool.
THEOREM RevertsAreDrift == Spec => OnlyDriftReverts
<1>1. IInv /\ [Next]_vars =>
        [\A a \in Accounts :
           DryRunReverts(a) \/ GiveUp(a) \/ LandReverts(a) =>
             revision[a] \notin roots \/ SpentByEarlierRun(a)]_vars
  <2> SUFFICES ASSUME IInv, NEW a \in Accounts,
                      DryRunReverts(a) \/ GiveUp(a) \/ LandReverts(a)
               PROVE  revision[a] \notin roots \/ SpentByEarlierRun(a)
    OBVIOUS
  <2>1. ~ Accepts(a, OneShot(a)) /\ pc[a] \in Trying
    BY DEF DryRunReverts, GiveUp, LandReverts, Trying
  <2>2. message[a] = ExpectedMessage(a) \/ SpentByEarlierRun(a)
    BY <2>1 DEF IInv, Current
  <2> QED BY <2>1, <2>2 DEF Accepts, PersonhoodInfoByProof, OneShot
<1> QED BY <1>1, Inductive, PTL DEF Spec, OnlyDriftReverts

\* The contract and its callers implement PersonTally: bumps by proof, watched
\* or not, redeem each caller's tickets once and in order, everything else
\* stutters.
THEOREM ImplementsTally == Spec => TallySpec
<1> DEFINE tickets == {[caller |-> b.caller, serial |-> b.proof.message.nonce] : b \in accepted}
<1>1. Init => Tally!Init
  BY DEF Init, ContractInit, Tally!Init
<1>2. IInv /\ [Next]_vars => [Tally!Next]_<<tickets, byAliasByProof>>
  <2> SUFFICES ASSUME IInv, [Next]_vars
               PROVE  Tally!Next \/ UNCHANGED <<tickets, byAliasByProof>>
    OBVIOUS
  <2>1. ASSUME NEW a \in Accounts, NEW proof \in Proof, proof.alias = PersonOf[a],
               BumpByProof(a, proof)
        PROVE  Tally!Next
    <3> DEFINE n == proofNonce[a]
    <3> DEFINE new == [caller |-> a, proof |-> proof]
    <3>1. /\ n < MaxBumps /\ proof.message = ExpectedMessage(a)
          /\ accepted' = accepted \cup {new}
          /\ byAliasByProof' = [byAliasByProof EXCEPT ![PersonOf[a]] = @ + 1]
      BY <2>1, BumpByProofInv, PopAssumption DEF IInv, TypeOK
    <3>2. n \in Nat /\ MaxBumps \in Nat
      BY PopAssumption DEF IInv, TypeOK, ContractTypeOK, PopAssumption
    <3>3. n \in 0 .. MaxBumps - 1
      BY <3>1, <3>2
    <3>4. new.proof.message.nonce = n /\ new.caller = a
      BY <3>1 DEF ExpectedMessage
    <3>6. [caller |-> a, serial |-> n] \notin tickets
      <4> SUFFICES ASSUME NEW b \in accepted, b.caller = a, b.proof.message.nonce = n
                   PROVE  FALSE
        OBVIOUS
      <4>1. b.proof.message.nonce < proofNonce[b.caller]
        BY DEF IInv, Bound
      <4> QED BY <3>2, <4>1
    <3>7. \A m \in 0 .. n - 1 : [caller |-> a, serial |-> m] \in tickets
      BY DEF IInv, NoneSkipped
    <3>8. tickets' = tickets \cup {[caller |-> a, serial |-> n]}
      <4> HIDE DEF new
      <4> QED BY <3>1, <3>4
    <3> HIDE DEF n, tickets
    <3> QED BY <3>1, <3>3, <3>6, <3>7, <3>8 DEF Tally!Next, Tally!Redeem, tickets
  <2>2. ASSUME NEW a \in Accounts, RunStep(a)
        PROVE  Tally!Next \/ UNCHANGED <<accepted, byAliasByProof>>
    <3>1. CASE Land(a)
      <4>1. OneShot(a) \in Proof /\ OneShot(a).alias = PersonOf[a] /\ BumpByProof(a, OneShot(a))
        BY <3>1, PopAssumption DEF Land, OneShot, Proof, IInv, TypeOK, PopAssumption
      <4> QED BY <4>1, <2>1
    <3>2. CASE ~ Land(a)
      BY <2>2, <3>2, RunInv, PopAssumption DEF contract, tallies
    <3> QED BY <3>1, <3>2
  <2>3. ASSUME NEW t \in left, LandLeft(t) PROVE Tally!Next
    <3>1. t.caller \in Accounts /\ t.proof \in Proof /\ t.proof.alias = PersonOf[t.caller]
      BY DEF IInv, TypeOK, Reached, ByProof
    <3> QED BY <2>1, <2>3, <3>1 DEF LandLeft
  <2>4. ASSUME NEW t \in left, Lapse(t) PROVE UNCHANGED <<accepted, byAliasByProof>>
    BY <2>4 DEF Lapse, contract, tallies
  <2>5. CASE WorldStep
    BY <2>5 DEF WorldStep, World, Rebuild, Mirror, Bump, tallies, external
  <2>6. CASE UNCHANGED vars
    BY <2>6 DEF vars, contract, tallies
  <2> QED BY <2>2, <2>3, <2>4, <2>5, <2>6 DEF Next
<1> QED BY <1>1, <1>2, Inductive, PTL DEF Spec, TallySpec, Tally!Spec
=============================================================================
