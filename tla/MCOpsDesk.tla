----------------------------- MODULE MCOpsDesk ------------------------------
(***************************************************************************)
(* Two caregivers.  While nobody is at the desk the roles work the order   *)
(* through: enough revisions to sign the terms, change them, and sign and  *)
(* ship again.  With somebody at it the other roles take fewer steps, and  *)
(* fewer still when there are requests to execute; a photograph is only    *)
(* uploaded when there are none.                                           *)
(***************************************************************************)
EXTENDS OpsDesk, TLC
CONSTANTS c1, c2, r1, r2, k1, k2, photo, DeskRevision
MCCaregivers == {c1, c2}
MCRequests   == {r1, r2}
MCCalls      == {k1, k2}
DeskSymmetry == Permutations(MCCaregivers) \cup Permutations(MCCalls)

Requested == status[r1] # None
AtDesk    == token # "none" \/ clicks > 0 \/ live.requested

MCInit == DeskInit /\ (status[r2] # None => Requested) /\ (Requested => token = "act")

\* The others wait, but for the beneficiary, and the desk keeps to papers.
Papered ==
  /\ revision' # revision => calls' # calls
  /\ status'[r2] # status[r2] => calls' # calls \/ status[r2] = None
  /\ \A c \in Calls : calls'[c].kind # "act"

MCNext ==
  /\ DeskNext
  /\ AtDesk' => revision' <= DeskRevision
  /\ status # [p \in Papers |-> None] => Papered
  /\ Requested => status'[photo] = None
  /\ status[photo] # None => ~Requested'
  /\ status # status' /\ status = [p \in Papers |-> None] =>
       AtDesk /\ token = "act" /\ revision = 0 /\ \A c \in Calls : calls'[c].kind # "act"
MCSpec == MCInit /\ [][MCNext]_<<vars, deskVars>>
=============================================================================
