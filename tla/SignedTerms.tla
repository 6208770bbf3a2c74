---------------------------- MODULE SignedTerms ----------------------------
(***************************************************************************)
(* What the signatures under an order are for.  The terms of an order      *)
(* change from version to version; a signature is put under the version of *)
(* the moment and does not survive a change; goods are handed over only    *)
(* while every signature stands, and nothing is changed or withdrawn       *)
(* afterwards.                                                             *)
(***************************************************************************)
EXTENDS Naturals

CONSTANTS Signatures, None

VARIABLES
  version,   \* of the terms
  signed,    \* for each signature the version it stands under, or None
  handed     \* whether the goods are handed over

Complete == \A s \in Signatures : signed[s] = version

TermsInit ==
  /\ version = 0
  /\ signed = [s \in Signatures |-> None]
  /\ handed = FALSE

Change ==
  /\ ~handed
  /\ version' = version + 1
  /\ signed' = [s \in Signatures |-> None]
  /\ UNCHANGED handed

\* A new signature may withdraw others, until the goods are handed over: it is
\* the answer to an earlier question.
Sign(s) ==
  /\ DOMAIN signed' = Signatures
  /\ signed'[s] = version
  /\ \A t \in Signatures \ {s} :
       signed'[t] = signed[t] \/ (signed'[t] = None /\ ~handed)
  /\ UNCHANGED <<version, handed>>

Hand ==
  /\ Complete
  /\ handed' = TRUE
  /\ UNCHANGED <<version, signed>>

TermsNext ==
  \/ Change \/ Hand
  \/ \E s \in Signatures : Sign(s)

TermsSpec == TermsInit /\ [][TermsNext]_<<version, signed, handed>>
=============================================================================
