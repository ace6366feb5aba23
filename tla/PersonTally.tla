------------------------------ MODULE PersonTally ------------------------------
(***************************************************************************)
(* What PopCounter.sol promises of its by-proof path, without proofs or    *)
(* ring roots: every caller holds numbered tickets, a ticket is redeemed   *)
(* at most once and in order, and each redemption counts one person once.  *)
(***************************************************************************)
EXTENDS Integers

CONSTANTS Accounts, Persons, PersonOf,
          Serials     \* an initial segment of Nat

VARIABLES
  redeemed,   \* the tickets [caller, serial] redeemed so far
  tally       \* redemptions per person

Init ==
  /\ redeemed = {}
  /\ tally = [p \in Persons |-> 0]

Redeem(a, n) ==
  /\ [caller |-> a, serial |-> n] \notin redeemed
  /\ \A m \in 0 .. n - 1 : [caller |-> a, serial |-> m] \in redeemed
  /\ redeemed' = redeemed \cup {[caller |-> a, serial |-> n]}
  /\ tally' = [tally EXCEPT ![PersonOf[a]] = @ + 1]

Next == \E a \in Accounts, n \in Serials : Redeem(a, n)

Spec == Init /\ [][Next]_<<redeemed, tally>>
=============================================================================
