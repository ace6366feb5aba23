---------------------------- MODULE RecordLedger ----------------------------
(***************************************************************************)
(* What the baseline scan promises of the committed manifests, without     *)
(* chains, reads or releases: a pin of the record is moved by a merge      *)
(* only, a merge moves what was proposed, and a proposal is made of pins   *)
(* that the scan at work had grounds for.  Grounds are gathered anew for   *)
(* every scan and are never lost while it works, also not by one that      *)
(* breaks off half way.                                                    *)
(***************************************************************************)
CONSTANTS
  Pinned0       \* what the record says first: pin -> tag

VARIABLES
  record,       \* pin -> tag
  proposal,     \* the pins somebody may merge, with their new tags
  grounds       \* <<pin, tag>> for every tag the scan at work could prove

Init ==
  /\ record = Pinned0
  /\ proposal = <<>>
  /\ grounds = {}

\* Production is deployed to, releases appear, a scan begins.
Gather ==
  /\ grounds \subseteq grounds'
  /\ UNCHANGED <<record, proposal>>

\* A scan ends, with or without something to propose.
Propose ==
  /\ proposal' # proposal =>
       DOMAIN proposal' # {} /\ \A p \in DOMAIN proposal' : <<p, proposal'[p]>> \in grounds
  /\ grounds' = {}
  /\ UNCHANGED record

Merge ==
  /\ record' = [p \in DOMAIN record |->
                  IF p \in DOMAIN proposal THEN proposal[p] ELSE record[p]]
  /\ proposal' = <<>>
  /\ UNCHANGED grounds

Next == Gather \/ Propose \/ Merge

Spec == Init /\ [][Next]_<<record, proposal, grounds>>
=============================================================================
