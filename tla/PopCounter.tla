------------------------------ MODULE PopCounter ------------------------------
(***************************************************************************)
(* packages/chain-tests/contracts/PopCounter.sol: two counters of persons, *)
(* one gated on a registered alias and one on a fresh ring-VRF proof bound *)
(* to the caller and the caller's nonce.                                   *)
(*                                                                         *)
(* An alias is deterministic in (person, context), so a person stands for  *)
(* its alias.  keccak256 is injective here: a message is the pair it       *)
(* hashes.  The personhood precompile, the alias registry and the mirrored *)
(* ring roots are external, modelled from how the contract uses them.      *)
(***************************************************************************)
EXTENDS Integers, FiniteSets

CONSTANTS
  Accounts,      \* callers
  Persons,       \* humans; each stands for its alias in the contract's context
  PersonOf,      \* the person behind each account
  Registered,    \* accounts with an alias in AliasAccounts (external)
  MirrorWindow,  \* ring roots Asset Hub keeps
  MaxRevision,   \* bound of the model: ring rebuilds
  MaxBumps       \* bound of the model: transactions that land, per path

ASSUME PopAssumption ==
  /\ PersonOf \in [Accounts -> Persons]
  /\ Registered \subseteq Accounts
  /\ MirrorWindow \in Nat \ {0}
  /\ MaxRevision \in Nat
  /\ MaxBumps \in Nat

VARIABLES
  totalBumps, byAlias, totalBumpsByProof, byAliasByProof, proofNonce,
  people,       \* revision of the ring root finalized on People (external)
  roots,        \* revisions in Asset Hub's RingRoots window (external)
  accepted      \* history: callers and proofs of the bumps by proof so far

tallies  == <<totalBumps, byAlias, totalBumpsByProof, byAliasByProof, proofNonce>>
external == <<people, roots>>
contract == <<tallies, external, accepted>>

Message == [origin : Accounts, nonce : Nat]

\* A proof: the person who made it, what it binds, and the ring root it is over.
Proof == [alias : Persons, message : Message, revision : Nat]

ByProof == [caller : Accounts, proof : Proof]

ContractTypeOK ==
  /\ totalBumps \in Nat
  /\ byAlias \in [Persons -> Nat]
  /\ totalBumpsByProof \in Nat
  /\ byAliasByProof \in [Persons -> Nat]
  /\ proofNonce \in [Accounts -> Nat]
  /\ people \in Nat
  /\ roots \in SUBSET Nat
  /\ accepted \in SUBSET ByProof

ContractInit ==
  /\ totalBumps = 0
  /\ byAlias = [p \in Persons |-> 0]
  /\ totalBumpsByProof = 0
  /\ byAliasByProof = [p \in Persons |-> 0]
  /\ proofNonce = [a \in Accounts |-> 0]
  /\ people = 0
  /\ roots = {0}
  /\ accepted = {}

-----------------------------------------------------------------------------
\* The ring is rebuilt on People.
Rebuild ==
  /\ people < MaxRevision
  /\ people' = people + 1
  /\ UNCHANGED <<tallies, roots, accepted>>

\* Asset Hub mirrors a newer root; a full window drops its oldest one.
Mirror(r) ==
  /\ r <= people
  /\ \A q \in roots : q < r
  /\ roots' = {r} \cup (IF Cardinality(roots) < MirrorWindow THEN roots
                        ELSE {q \in roots : \E o \in roots : o < q})
  /\ UNCHANGED <<tallies, people, accepted>>

\* The precompile: the proof is over a mirrored root and binds the message
\* that is asked for.  It does not look at who asks.
PersonhoodInfoByProof(message, proof) ==
  /\ proof.revision \in roots
  /\ proof.message = message

-----------------------------------------------------------------------------
\* The stored-alias path, with the nonce of the other path advanced as well.
BumpSpendsNonce(a) ==
  /\ totalBumps < MaxBumps
  /\ a \in Registered
  /\ totalBumps' = totalBumps + 1
  /\ byAlias' = [byAlias EXCEPT ![PersonOf[a]] = @ + 1]
  /\ proofNonce' = [proofNonce EXCEPT ![a] = @ + 1]
  /\ UNCHANGED <<totalBumpsByProof, byAliasByProof, external, accepted>>

\* The stored-alias path.  An unregistered caller reverts with NotPerson.
Bump(a) ==
  /\ totalBumps < MaxBumps
  /\ a \in Registered
  /\ totalBumps' = totalBumps + 1
  /\ byAlias' = [byAlias EXCEPT ![PersonOf[a]] = @ + 1]
  /\ UNCHANGED <<totalBumpsByProof, byAliasByProof, proofNonce, external, accepted>>

\* A message that leaves the caller out.
ExpectedMessageOfAnyone(a) ==
  [origin |-> CHOOSE b \in Accounts : TRUE, nonce |-> proofNonce[a]]

\* The message a proof for the caller's next bump must bind.
ExpectedMessage(a) == [origin |-> a, nonce |-> proofNonce[a]]

\* The checks of bumpByProof; anything else reverts with BadProof.
Accepts(a, proof) == PersonhoodInfoByProof(ExpectedMessage(a), proof)

\* The stateless path without the nonce.
BumpByProofKeepsNonce(a, proof) ==
  /\ totalBumpsByProof < MaxBumps
  /\ Accepts(a, proof)
  /\ totalBumpsByProof' = totalBumpsByProof + 1
  /\ byAliasByProof' = [byAliasByProof EXCEPT ![proof.alias] = @ + 1]
  /\ accepted' = accepted \cup {[caller |-> a, proof |-> proof]}
  /\ UNCHANGED <<totalBumps, byAlias, proofNonce, external>>

\* The stateless path that counts accounts where it should count persons.
BumpByProofPerAccount(a, proof) ==
  /\ totalBumpsByProof < MaxBumps
  /\ Accepts(a, proof)
  /\ proofNonce' = [proofNonce EXCEPT ![a] = @ + 1]
  /\ totalBumpsByProof' = totalBumpsByProof + 1
  /\ byAliasByProof' = [byAliasByProof EXCEPT ![proof.alias] = proofNonce'[a]]
  /\ accepted' = accepted \cup {[caller |-> a, proof |-> proof]}
  /\ UNCHANGED <<totalBumps, byAlias, external>>

\* The stateless path.
BumpByProof(a, proof) ==
  /\ totalBumpsByProof < MaxBumps
  /\ Accepts(a, proof)
  /\ proofNonce' = [proofNonce EXCEPT ![a] = @ + 1]
  /\ totalBumpsByProof' = totalBumpsByProof + 1
  /\ byAliasByProof' = [byAliasByProof EXCEPT ![proof.alias] = @ + 1]
  /\ accepted' = accepted \cup {[caller |-> a, proof |-> proof]}
  /\ UNCHANGED <<totalBumps, byAlias, external>>

\* What others do to the contract and around it between two steps of a caller.
World ==
  \/ Rebuild
  \/ \E r \in 1 .. people : Mirror(r)
  \/ \E a \in Accounts : Bump(a)
=============================================================================
