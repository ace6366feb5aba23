--------------------------- MODULE MCRingInclusion ---------------------------
(***************************************************************************)
(* Instances of RingInclusion for TLC.                                     *)
(*                                                                         *)
(* MCRingInclusionLite: the AppendOnly LitePeople collection, one key per  *)
(* page and two per ring, so that the own key may land on a later page or  *)
(* in a later ring.  MCRingInclusionFlexible: a Flexible collection, all   *)
(* keys on page 0, where suspensions move keys and reset the root.         *)
(***************************************************************************)
EXTENDS RingInclusion, TLC

\* The keys of other accounts are interchangeable (used for safety only).
OtherKeys == Permutations(Keys \ {Own})
=============================================================================
