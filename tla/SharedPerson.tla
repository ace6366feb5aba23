----------------------------- MODULE SharedPerson -----------------------------
(***************************************************************************)
(* What attested-fixture.ts promises the test files, without files, timers *)
(* or a backend: a process asks for an account at most once and gets one   *)
(* answer, for good; nobody acts as a person before the answer is there;   *)
(* and a person that was written down is everyone's, in this process and   *)
(* the next, until it is removed between two of them.                      *)
(***************************************************************************)
EXTENDS Naturals

CONSTANTS
  Account,      \* accounts
  NoAccount     \* none written down

VARIABLES
  process,      \* number of the process
  answer,       \* "open", "asked" or "given", in this process
  person,       \* the account written down
  users         \* the accounts anybody acted as since the last removal

Init ==
  /\ process = 1
  /\ answer = "open"
  /\ person = NoAccount
  /\ users = {}

Ask ==
  /\ answer = "open" /\ person = NoAccount
  /\ answer' = "asked"
  /\ UNCHANGED <<process, person, users>>

\* Whoever waits for the answer may act on it at once.
Succeed ==
  /\ answer = "asked" /\ person = NoAccount
  /\ answer' = "given"
  /\ person' \in Account \ {NoAccount}
  /\ users' \in {users, users \cup {person'}}
  /\ UNCHANGED process

Fail ==
  /\ answer = "asked"
  /\ answer' = "given"
  /\ UNCHANGED <<process, person, users>>

\* The account written down is the answer, also to who never asked for one.
Use ==
  /\ answer # "asked" /\ person # NoAccount
  /\ answer' = "given"
  /\ users' = users \cup {person}
  /\ UNCHANGED <<process, person>>

Exit ==
  /\ process' = process + 1
  /\ answer' = "open"
  /\ \/ UNCHANGED <<person, users>>
     \/ person' = NoAccount /\ users' = {}

Next == Ask \/ Succeed \/ Fail \/ Use \/ Exit

Spec == Init /\ [][Next]_<<process, answer, person, users>>
=============================================================================
