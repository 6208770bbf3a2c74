---------------------------- MODULE RoleWorkflow ----------------------------
(***************************************************************************)
(* The role workflow of src/roles/workflow.ts for one case: caregivers,    *)
(* operations and the merchant send actions, each decided on the revision  *)
(* its sender has read, applied as one transaction over the workflow.  A   *)
(* refused action (RoleWorkflowConflictError, RoleWorkflowInputError, 409  *)
(* or 400 to the sender) writes nothing: it is the guard that fails.       *)
(*                                                                         *)
(* Of the event log the model keeps the last revision that changed the     *)
(* terms; of codes, reasons and numbers, whether they are there.           *)
(***************************************************************************)
EXTENDS Integers

CONSTANTS
  Caregivers,   \* hashes of the subjects that hold a caregiver's act token
  None,         \* an absent actor hash
  MaxRevision,  \* bound on the revision; the code has none
  MaxChanges    \* bound on the changes of the terms; the code has none

ASSUME NoneAssumption  == None \notin Caregivers \cup Int
ASSUME BoundAssumption == MaxRevision \in Nat /\ MaxChanges \in Nat

VARIABLES
  revision,
  consent, coApproval, requestedBy, approvedBy, policyReview,
  fulfillment, shipment, substitution, cancellationRequested,
  deliveryIssue, exception,
  providerOrderId,   \* whether the case names its supplier order
  \* History, read by no guard:
  version,           \* how many times the terms have changed
  changedAt,         \* the revision that changed them last
  basis              \* for each signature the version of the terms its signer saw

termsVars == <<consent, coApproval, requestedBy, approvedBy, policyReview, basis>>
goodsVars == <<fulfillment, shipment, substitution>>
caseVars  == <<deliveryIssue, exception, cancellationRequested>>
changeVars == <<version, changedAt>>
vars == <<revision, termsVars, goodsVars, caseVars, providerOrderId, changeVars>>

Fulfillment == {"NEW", "ACKNOWLEDGED", "OUT_OF_STOCK", "PREPARING", "SHIPPED",
                "CANCELLED", "REFUNDED"}
Terminal   == fulfillment \in {"SHIPPED", "CANCELLED", "REFUNDED"}
Signatures == {"REVIEW", "CONSENT", "REQUEST", "APPROVAL"}

\* The version of the terms that a reader of a revision saw: the present one, or
\* the latest of the earlier ones.
Version(seen) == IF seen >= changedAt THEN version ELSE version - 1

StatusTypes ==
  /\ revision \in 0 .. MaxRevision
  /\ consent \in {"NONE", "RECORDED", "INVALIDATED"}
  /\ coApproval \in {"NONE", "REQUESTED", "APPROVED"}
  /\ requestedBy \in Caregivers \cup {None}
  /\ approvedBy \in Caregivers \cup {None}
  /\ policyReview \in {"PENDING", "REVIEWED"}
  /\ fulfillment \in Fulfillment
  /\ exception \in {"NONE", "OPEN", "RESOLVED"}
  /\ version \in 0 .. MaxChanges /\ changedAt \in 0 .. revision
  /\ basis \in [Signatures -> Int]

FlagTypes ==
  /\ shipment \in BOOLEAN /\ substitution \in BOOLEAN
  /\ cancellationRequested \in BOOLEAN /\ deliveryIssue \in BOOLEAN
  /\ providerOrderId \in BOOLEAN

\* Every field keeps to the values its type in workflow.ts allows, and no change of
\* the terms is later than the revision (applyRoleAction counts every action).
TypeOK == StatusTypes /\ FlagTypes

\* emptyWorkflow, which a case has before its first action.
Init ==
  /\ revision = 0 /\ version = 0 /\ changedAt = 0
  /\ consent = "NONE" /\ coApproval = "NONE" /\ policyReview = "PENDING"
  /\ requestedBy = None /\ approvedBy = None
  /\ basis = [s \in Signatures |-> 0]
  /\ fulfillment = "NEW" /\ shipment = FALSE /\ substitution = FALSE
  /\ cancellationRequested = FALSE /\ deliveryIssue = FALSE /\ exception = "NONE"
  /\ providerOrderId = FALSE
-----------------------------------------------------------------------------
(***************************************************************************)
(* What actions have in common.                                            *)
(***************************************************************************)
\* Mutant: the revision the sender saw is not compared.
ApplyStale(seen) == revision' = revision + 1
\* Mutant: an action does not count as a revision.
ApplyUncounted(seen) ==
  /\ seen = revision
  /\ UNCHANGED revision
\* applyRoleAction: an action decided on another revision is a conflict.
Apply(seen) ==
  /\ seen = revision
  /\ revision' = revision + 1

Signed(s, seen) == basis' = [basis EXCEPT ![s] = Version(seen)]

\* Mutant: the coapproval outlives a change of the terms.
InvalidateTermsKeepsApproval ==
  /\ consent' = IF consent = "RECORDED" THEN "INVALIDATED" ELSE consent
  /\ policyReview' = "PENDING"
  /\ version' = version + 1 /\ changedAt' = revision + 1
  /\ UNCHANGED <<coApproval, requestedBy, approvedBy, basis>>
\* invalidateTerms: whatever was signed has to be signed again.
InvalidateTerms ==
  /\ consent' = IF consent = "RECORDED" THEN "INVALIDATED" ELSE consent
  /\ policyReview' = "PENDING"
  /\ coApproval' = "NONE" /\ requestedBy' = None /\ approvedBy' = None
  /\ version' = version + 1 /\ changedAt' = revision + 1
  /\ UNCHANGED basis

\* requireApprovedTerms
ApprovedTerms ==
  /\ policyReview = "REVIEWED"
  /\ consent = "RECORDED"
  /\ coApproval = "APPROVED"
  /\ requestedBy # None /\ approvedBy # None /\ requestedBy # approvedBy
-----------------------------------------------------------------------------
(***************************************************************************)
(* applyCaregiver                                                          *)
(***************************************************************************)
RequestCoapproval(c, seen) ==
  /\ ~Terminal
  /\ Apply(seen)
  /\ coApproval' = "REQUESTED" /\ requestedBy' = c /\ approvedBy' = None
  /\ Signed("REQUEST", seen)
  /\ UNCHANGED <<consent, policyReview, goodsVars, caseVars, providerOrderId, changeVars>>

\* Mutant: the caregiver who asked may answer.
ApproveOwnRequest(c, seen) ==
  /\ ~Terminal
  /\ coApproval = "REQUESTED"
  /\ Apply(seen)
  /\ coApproval' = "APPROVED" /\ approvedBy' = c
  /\ Signed("APPROVAL", seen)
  /\ UNCHANGED <<consent, policyReview, requestedBy, goodsVars, caseVars,
                 providerOrderId, changeVars>>
ApproveCoapproval(c, seen) ==
  /\ ~Terminal
  /\ coApproval = "REQUESTED" /\ requestedBy # c
  /\ Apply(seen)
  /\ coApproval' = "APPROVED" /\ approvedBy' = c
  /\ Signed("APPROVAL", seen)
  /\ UNCHANGED <<consent, policyReview, requestedBy, goodsVars, caseVars,
                 providerOrderId, changeVars>>

RequestChange(seen) ==
  /\ version < MaxChanges
  /\ ~Terminal
  /\ Apply(seen)
  /\ InvalidateTerms
  /\ UNCHANGED <<goodsVars, caseVars, providerOrderId>>

ReportDeliveryIssue(seen) ==
  /\ Apply(seen)
  /\ deliveryIssue' = TRUE
  /\ UNCHANGED <<termsVars, goodsVars, exception, cancellationRequested,
                 providerOrderId, changeVars>>

RequestCancellation(seen) ==
  /\ ~Terminal
  /\ Apply(seen)
  /\ cancellationRequested' = TRUE
  /\ UNCHANGED <<termsVars, goodsVars, deliveryIssue, exception, providerOrderId, changeVars>>
-----------------------------------------------------------------------------
(***************************************************************************)
(* applyOps                                                                *)
(***************************************************************************)
ReviewPolicy(seen) ==
  /\ Apply(seen)
  /\ policyReview' = "REVIEWED"
  /\ Signed("REVIEW", seen)
  /\ UNCHANGED <<consent, coApproval, requestedBy, approvedBy, goodsVars, caseVars,
                 providerOrderId, changeVars>>

\* Mutant: consent is taken for an order that is finished.
RecordLateConsent(seen) ==
  /\ Apply(seen)
  /\ consent' = "RECORDED"
  /\ Signed("CONSENT", seen)
  /\ UNCHANGED <<coApproval, requestedBy, approvedBy, policyReview, goodsVars, caseVars,
                 providerOrderId, changeVars>>
RecordConsent(seen) ==
  /\ ~Terminal
  /\ Apply(seen)
  /\ consent' = "RECORDED"
  /\ Signed("CONSENT", seen)
  /\ UNCHANGED <<coApproval, requestedBy, approvedBy, policyReview, goodsVars, caseVars,
                 providerOrderId, changeVars>>

QueueException(seen) ==
  /\ Apply(seen)
  /\ exception' = "OPEN"
  /\ UNCHANGED <<termsVars, goodsVars, deliveryIssue, cancellationRequested,
                 providerOrderId, changeVars>>

ResolveException(seen) ==
  /\ exception = "OPEN"
  /\ Apply(seen)
  /\ exception' = "RESOLVED"
  /\ UNCHANGED <<termsVars, goodsVars, deliveryIssue, cancellationRequested,
                 providerOrderId, changeVars>>
-----------------------------------------------------------------------------
(***************************************************************************)
(* applyMerchant, behind the test of roleAccess.ts that the case has a     *)
(* supplier order.  The rollup of a placed order (orderRollup.ts) sends    *)
(* ACKNOWLEDGE_ORDER too, after it has written that order into the case.   *)
(***************************************************************************)
Fulfil(seen, from, to) ==
  /\ providerOrderId
  /\ fulfillment \in from
  /\ Apply(seen)
  /\ fulfillment' = to
  /\ UNCHANGED <<termsVars, caseVars, substitution, providerOrderId, changeVars>>

AcknowledgeOrder(seen) ==
  /\ Fulfil(seen, {"NEW"}, "ACKNOWLEDGED")
  /\ UNCHANGED shipment

MarkOutOfStock(seen) ==
  /\ Fulfil(seen, {"NEW", "ACKNOWLEDGED"}, "OUT_OF_STOCK")
  /\ UNCHANGED shipment

MarkPreparing(seen) ==
  /\ ApprovedTerms
  /\ Fulfil(seen, {"ACKNOWLEDGED"}, "PREPARING")
  /\ UNCHANGED shipment

\* Mutant: terms approved when the preparation began are approved for good.
ShipPrepared(seen) ==
  /\ Fulfil(seen, {"PREPARING"}, "SHIPPED")
  /\ shipment' = TRUE
RegisterShipment(seen) ==
  /\ ApprovedTerms
  /\ Fulfil(seen, {"PREPARING"}, "SHIPPED")
  /\ shipment' = TRUE

ProposeSubstitution(seen) ==
  /\ version < MaxChanges
  /\ providerOrderId
  /\ fulfillment \in {"NEW", "ACKNOWLEDGED", "OUT_OF_STOCK"}
  /\ Apply(seen)
  /\ substitution' = TRUE
  /\ InvalidateTerms
  /\ UNCHANGED <<fulfillment, shipment, caseVars, providerOrderId>>

\* Mutant: goods under way are cancelled like any others.
AcceptCancellationAnytime(seen) ==
  /\ cancellationRequested
  /\ Fulfil(seen, Fulfillment \ {"REFUNDED"}, "CANCELLED")
  /\ UNCHANGED shipment
AcceptCancellation(seen) ==
  /\ cancellationRequested
  /\ Fulfil(seen, {"NEW", "ACKNOWLEDGED", "OUT_OF_STOCK", "PREPARING"}, "CANCELLED")
  /\ UNCHANGED shipment

MarkRefunded(seen) ==
  /\ Fulfil(seen, {"CANCELLED"}, "REFUNDED")
  /\ UNCHANGED shipment
-----------------------------------------------------------------------------
\* The order flow writes the supplier's order into the case, once.
CaseOrdered ==
  /\ ~providerOrderId
  /\ providerOrderId' = TRUE
  /\ UNCHANGED <<revision, termsVars, goodsVars, caseVars, changeVars>>

CaregiverAction(c, seen) ==
  \/ RequestCoapproval(c, seen) \/ ApproveCoapproval(c, seen)

CaseAction(seen) ==
  \/ RequestChange(seen) \/ ReportDeliveryIssue(seen) \/ RequestCancellation(seen)
  \/ ReviewPolicy(seen) \/ RecordConsent(seen)
  \/ QueueException(seen) \/ ResolveException(seen)

MerchantAction(seen) ==
  \/ AcknowledgeOrder(seen) \/ MarkOutOfStock(seen) \/ MarkPreparing(seen)
  \/ RegisterShipment(seen) \/ ProposeSubstitution(seen)
  \/ AcceptCancellation(seen) \/ MarkRefunded(seen)

Next ==
  \/ CaseOrdered
  \/ /\ revision < MaxRevision
     /\ \E seen \in 0 .. revision :
          \/ CaseAction(seen) \/ MerchantAction(seen)
          \/ \E c \in Caregivers : CaregiverAction(c, seen)

Spec == Init /\ [][Next]_vars
-----------------------------------------------------------------------------
(***************************************************************************)
(* Properties.                                                             *)
(***************************************************************************)

\* The signatures that stand, and what they stand under, for SignedTerms.
Standing ==
  (IF policyReview = "REVIEWED"   THEN {"REVIEW"}   ELSE {}) \cup
  (IF consent = "RECORDED"        THEN {"CONSENT"}  ELSE {}) \cup
  (IF coApproval # "NONE"         THEN {"REQUEST"}  ELSE {}) \cup
  (IF coApproval = "APPROVED"     THEN {"APPROVAL"} ELSE {})

StandingUnder == [s \in Signatures |-> IF s \in Standing THEN basis[s] ELSE None]
Shipped       == fulfillment = "SHIPPED"

Terms == INSTANCE SignedTerms WITH signed <- StandingUnder, handed <- Shipped

\* The workflow implements the signatures: each of the four is given on the
\* terms its signer read, falls with the next change, and goods ship only under
\* all of them at once, for the terms that are in force then and ever after
\* (requireApprovedTerms, invalidateTerms and the revision together).
KeepsSignatures == Terms!TermsSpec

\* Four eyes: a coapproval is always the answer of one caregiver to another, so
\* the comparison repeated in requireApprovedTerms never fails on its own.
IndependentApproval ==
  /\ coApproval # "NONE" <=> requestedBy # None
  /\ coApproval = "APPROVED" <=> approvedBy # None
  /\ coApproval = "APPROVED" => requestedBy # approvedBy

\* Money goes back only for goods that never left, and only when a caregiver
\* asked for it: cancellation and shipment exclude each other for ever.
RefundedNeverShipped ==
  /\ shipment => fulfillment = "SHIPPED"
  /\ fulfillment \in {"CANCELLED", "REFUNDED"} => cancellationRequested

\* A finished order is closed: whatever the roles still send, agreement and
\* goods stay what they were, except that a cancelled order may be refunded.
ClosedOrder ==
  [][Terminal =>
       /\ UNCHANGED <<consent, coApproval, requestedBy, approvedBy, shipment, substitution>>
       /\ fulfillment' # fulfillment => fulfillment = "CANCELLED" /\ fulfillment' = "REFUNDED"
    ]_vars
-----------------------------------------------------------------------------
(***************************************************************************)
(* The inductive invariant: a signature that stands was given on the terms *)
(* in force, so goods shipped under all four were shipped under them.      *)
(***************************************************************************)
SignaturesCurrent == \A s \in Standing : basis[s] = version
ShippedApproved   == fulfillment = "SHIPPED" => ApprovedTerms

WorkflowInv == IndependentApproval /\ RefundedNeverShipped
               /\ SignaturesCurrent /\ ShippedApproved
=============================================================================
