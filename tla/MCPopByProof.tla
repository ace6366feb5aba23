---------------------------- MODULE MCPopByProof ----------------------------
(***************************************************************************)
(* PopByProof with two accounts of one person, and a person who never      *)
(* calls.                                                                  *)
(***************************************************************************)
EXTENDS PopByProof

CONSTANT alice

MCPersonOf == [a \in Accounts |-> alice]
=============================================================================
