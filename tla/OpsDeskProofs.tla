--------------------------- MODULE OpsDeskProofs ---------------------------
(***************************************************************************)
(* The role workflow for any caregivers and any bounds: its types, its     *)
(* inductive invariant, and that it implements SignedTerms.  Then the      *)
(* institution's desk over it, for any requests, calls and bounds: that it *)
(* drives the workflow as any other role does, its types, and that a       *)
(* decided paper never comes back as an undecided one.                     *)
(***************************************************************************)
EXTENDS OpsDesk, TLAPS

(***************************************************************************)
(* Every field keeps its type: no action writes a status, an actor or a    *)
(* revision the workflow type of workflow.ts does not know.                *)
(***************************************************************************)
LEMMA InitTypes == Init => TypeOK
<1>1. Init => StatusTypes
  BY BoundAssumption DEF Init, StatusTypes, Fulfillment, Signatures
<1>2. Init => FlagTypes
  BY DEF Init, FlagTypes
<1> QED BY <1>1, <1>2 DEF TypeOK

\* A flag is only ever left alone or set.
FlagStep ==
  /\ shipment' \in {shipment, TRUE} /\ substitution' \in {substitution, TRUE}
  /\ cancellationRequested' \in {cancellationRequested, TRUE}
  /\ deliveryIssue' \in {deliveryIssue, TRUE}
  /\ providerOrderId' \in {providerOrderId, TRUE}

LEMMA NextFlags ==
  ASSUME FlagTypes, [Next]_vars
  PROVE  FlagTypes'
<1>1. CASE UNCHANGED vars
  BY <1>1 DEF FlagTypes, vars, goodsVars, caseVars
<1>2. ASSUME CaseOrdered PROVE FlagStep
  BY <1>2 DEF FlagStep, CaseOrdered, goodsVars, caseVars
<1>3. ASSUME NEW c, NEW seen, CaregiverAction(c, seen) PROVE FlagStep
  BY <1>3 DEF FlagStep, CaregiverAction, RequestCoapproval, ApproveCoapproval,
     goodsVars, caseVars
<1>4. ASSUME NEW seen, CaseAction(seen) PROVE FlagStep
  BY <1>4 DEF FlagStep, CaseAction, RequestChange, ReportDeliveryIssue,
     RequestCancellation, ReviewPolicy, RecordConsent, QueueException, ResolveException,
     goodsVars, caseVars
<1>5. ASSUME NEW seen, MerchantAction(seen) PROVE FlagStep
  BY <1>5 DEF FlagStep, MerchantAction, AcknowledgeOrder, MarkOutOfStock, MarkPreparing,
     RegisterShipment, ProposeSubstitution, AcceptCancellation, MarkRefunded, Fulfil,
     caseVars
<1>6. FlagStep => FlagTypes'
  BY DEF FlagStep, FlagTypes
<1> QED BY <1>1, <1>2, <1>3, <1>4, <1>5, <1>6 DEF Next

LEMMA SignedType ==
  ASSUME StatusTypes, NEW seen, NEW s, Signed(s, seen)
  PROVE  basis' \in [Signatures -> Int]
<1>1. Version(seen) \in Int
  BY BoundAssumption DEF StatusTypes, Version
<1> QED BY <1>1 DEF StatusTypes, Signed

LEMMA CaregiverTypes ==
  ASSUME StatusTypes, NEW seen \in 0 .. revision, NEW c \in Caregivers,
         revision < MaxRevision, CaregiverAction(c, seen)
  PROVE  StatusTypes'
<1>1. CASE RequestCoapproval(c, seen)
  <2>1. basis' \in [Signatures -> Int]
    BY <1>1, SignedType DEF RequestCoapproval
  <2>2. requestedBy' \in Caregivers \cup {None} /\ approvedBy' \in Caregivers \cup {None}
    BY <1>1 DEF RequestCoapproval
  <2> QED
    BY <1>1, <2>1, <2>2, BoundAssumption DEF StatusTypes, RequestCoapproval, Apply,
       goodsVars, caseVars, changeVars
<1>2. CASE ApproveCoapproval(c, seen)
  <2>1. basis' \in [Signatures -> Int]
    BY <1>2, SignedType DEF ApproveCoapproval
  <2>2. requestedBy' \in Caregivers \cup {None} /\ approvedBy' \in Caregivers \cup {None}
    BY <1>2 DEF ApproveCoapproval, StatusTypes
  <2> QED
    BY <1>2, <2>1, <2>2, BoundAssumption DEF StatusTypes, ApproveCoapproval, Apply,
       goodsVars, caseVars, changeVars
<1> QED BY <1>1, <1>2 DEF CaregiverAction

LEMMA CaseTypes ==
  ASSUME StatusTypes, NEW seen \in 0 .. revision, revision < MaxRevision, CaseAction(seen)
  PROVE  StatusTypes'
<1> USE BoundAssumption
<1>1. CASE RequestChange(seen)
  BY <1>1 DEF StatusTypes, RequestChange, Apply, InvalidateTerms, goodsVars, caseVars
<1>2. CASE ReviewPolicy(seen) \/ RecordConsent(seen)
  BY <1>2 DEF StatusTypes, ReviewPolicy, RecordConsent, Apply, Signed, Version,
     goodsVars, caseVars, changeVars
<1>3. CASE ReportDeliveryIssue(seen) \/ RequestCancellation(seen)
           \/ QueueException(seen) \/ ResolveException(seen)
  BY <1>3 DEF StatusTypes, ReportDeliveryIssue, RequestCancellation, QueueException,
     ResolveException, Apply, termsVars, goodsVars, changeVars
<1> QED BY <1>1, <1>2, <1>3 DEF CaseAction

LEMMA MerchantTypes ==
  ASSUME StatusTypes, NEW seen \in 0 .. revision, revision < MaxRevision, MerchantAction(seen)
  PROVE  StatusTypes'
<1> USE BoundAssumption
<1>1. CASE ProposeSubstitution(seen)
  BY <1>1 DEF StatusTypes, ProposeSubstitution, Apply, InvalidateTerms, caseVars
<1>2. CASE AcknowledgeOrder(seen) \/ MarkOutOfStock(seen) \/ MarkPreparing(seen)
           \/ RegisterShipment(seen) \/ AcceptCancellation(seen) \/ MarkRefunded(seen)
  BY <1>2 DEF StatusTypes, AcknowledgeOrder, MarkOutOfStock, MarkPreparing, RegisterShipment,
     AcceptCancellation, MarkRefunded, Fulfil, Fulfillment, Apply, termsVars, caseVars,
     changeVars
<1> QED BY <1>1, <1>2 DEF MerchantAction

LEMMA NextTypes == TypeOK /\ [Next]_vars => TypeOK'
<1> SUFFICES ASSUME TypeOK, [Next]_vars PROVE StatusTypes'
  BY NextFlags DEF TypeOK
<1> USE DEF TypeOK
<1>1. CASE UNCHANGED vars
  BY <1>1 DEF StatusTypes, vars, termsVars, goodsVars, caseVars, changeVars
<1>2. CASE CaseOrdered
  BY <1>2 DEF StatusTypes, CaseOrdered, termsVars, goodsVars, caseVars, changeVars
<1>3. ASSUME NEW seen \in 0 .. revision, revision < MaxRevision,
             \/ CaseAction(seen) \/ MerchantAction(seen)
             \/ \E c \in Caregivers : CaregiverAction(c, seen)
      PROVE  StatusTypes'
  BY <1>3, CaregiverTypes, CaseTypes, MerchantTypes
<1> QED BY <1>1, <1>2, <1>3 DEF Next

THEOREM WorkflowTypeCorrect == Spec => []TypeOK
BY InitTypes, NextTypes, PTL DEF Spec
-----------------------------------------------------------------------------
(***************************************************************************)
(* The inductive invariant, conjunct by conjunct.                          *)
(***************************************************************************)
LEMMA InitInv == Init => WorkflowInv
BY DEF Init, WorkflowInv, IndependentApproval, RefundedNeverShipped, SignaturesCurrent,
   Standing, ShippedApproved

\* The three fields of a coapproval move together.
LEMMA IndependentStep ==
  ASSUME TypeOK, IndependentApproval, [Next]_vars
  PROVE  IndependentApproval'
<1> USE NoneAssumption DEF IndependentApproval
<1>1. CASE UNCHANGED vars
  BY <1>1 DEF vars, termsVars
<1>2. CASE CaseOrdered
  BY <1>2 DEF CaseOrdered, termsVars
<1>3. ASSUME NEW c \in Caregivers, NEW seen, CaregiverAction(c, seen)
      PROVE  IndependentApproval'
  BY <1>3 DEF CaregiverAction, RequestCoapproval, ApproveCoapproval
<1>4. ASSUME NEW seen, CaseAction(seen) PROVE IndependentApproval'
  BY <1>4 DEF CaseAction, RequestChange, ReportDeliveryIssue, RequestCancellation,
     ReviewPolicy, RecordConsent, QueueException, ResolveException, InvalidateTerms, termsVars
<1>5. ASSUME NEW seen, MerchantAction(seen) PROVE IndependentApproval'
  BY <1>5 DEF MerchantAction, AcknowledgeOrder, MarkOutOfStock, MarkPreparing,
     RegisterShipment, ProposeSubstitution, AcceptCancellation, MarkRefunded, Fulfil,
     InvalidateTerms, termsVars
<1> QED BY <1>1, <1>2, <1>3, <1>4, <1>5 DEF Next

\* A shipment is final and a cancellation starts before it.
LEMMA RefundStep ==
  ASSUME TypeOK, RefundedNeverShipped, [Next]_vars
  PROVE  RefundedNeverShipped'
<1> USE DEF RefundedNeverShipped
<1>1. CASE UNCHANGED vars
  BY <1>1 DEF vars, goodsVars, caseVars
<1>2. CASE CaseOrdered
  BY <1>2 DEF CaseOrdered, goodsVars, caseVars
<1>3. ASSUME NEW c, NEW seen, CaregiverAction(c, seen) PROVE RefundedNeverShipped'
  BY <1>3 DEF CaregiverAction, RequestCoapproval, ApproveCoapproval, goodsVars, caseVars
<1>4. ASSUME NEW seen, CaseAction(seen) PROVE RefundedNeverShipped'
  BY <1>4 DEF CaseAction, RequestChange, ReportDeliveryIssue, RequestCancellation,
     ReviewPolicy, RecordConsent, QueueException, ResolveException, goodsVars, caseVars
<1>5. ASSUME NEW seen, MerchantAction(seen) PROVE RefundedNeverShipped'
  BY <1>5 DEF MerchantAction, AcknowledgeOrder, MarkOutOfStock, MarkPreparing,
     RegisterShipment, ProposeSubstitution, AcceptCancellation, MarkRefunded, Fulfil,
     caseVars
<1> QED BY <1>1, <1>2, <1>3, <1>4, <1>5 DEF Next

\* An action that is applied was decided on the present terms.
LEMMA SeesPresentTerms ==
  ASSUME TypeOK, NEW seen, Apply(seen)
  PROVE  Version(seen) = version
BY BoundAssumption DEF TypeOK, StatusTypes, Apply, Version

\* A signature is put under the present terms, and a change takes all of them.
LEMMA CurrentStep ==
  ASSUME TypeOK, IndependentApproval, SignaturesCurrent, [Next]_vars
  PROVE  SignaturesCurrent'
<1>1. CASE UNCHANGED <<termsVars, version>>
  BY <1>1 DEF SignaturesCurrent, Standing, termsVars
<1>2. ASSUME InvalidateTerms PROVE SignaturesCurrent'
  BY <1>2 DEF SignaturesCurrent, Standing, InvalidateTerms, TypeOK, StatusTypes
<1>3. ASSUME NEW s \in Signatures, NEW seen, Apply(seen), Signed(s, seen),
             version' = version, Standing' \subseteq Standing \cup {s}
      PROVE  SignaturesCurrent'
  <2>1. basis' = [basis EXCEPT ![s] = version]
    BY <1>3, SeesPresentTerms DEF Signed
  <2> QED BY <1>3, <2>1 DEF SignaturesCurrent, TypeOK, StatusTypes
<1>4. ASSUME NEW c, NEW seen, CaregiverAction(c, seen) PROVE SignaturesCurrent'
  <2>1. CASE RequestCoapproval(c, seen)
    BY <2>1, <1>3 DEF RequestCoapproval, Standing, Signatures, changeVars
  <2>2. CASE ApproveCoapproval(c, seen)
    BY <2>2, <1>3 DEF ApproveCoapproval, Standing, Signatures, changeVars
  <2> QED BY <1>4, <2>1, <2>2 DEF CaregiverAction
<1>5. ASSUME NEW seen, CaseAction(seen) PROVE SignaturesCurrent'
  <2>1. CASE ReviewPolicy(seen)
    BY <2>1, <1>3 DEF ReviewPolicy, Standing, Signatures, changeVars
  <2>2. CASE RecordConsent(seen)
    BY <2>2, <1>3 DEF RecordConsent, Standing, Signatures, changeVars
  <2> QED
    BY <1>1, <1>2, <1>5, <2>1, <2>2 DEF CaseAction, RequestChange, ReportDeliveryIssue,
       RequestCancellation, QueueException, ResolveException, changeVars
<1>6. ASSUME NEW seen, MerchantAction(seen) PROVE SignaturesCurrent'
  BY <1>1, <1>2, <1>6 DEF MerchantAction, AcknowledgeOrder, MarkOutOfStock, MarkPreparing,
     RegisterShipment, ProposeSubstitution, AcceptCancellation, MarkRefunded, Fulfil,
     changeVars
<1> QED
  BY <1>1, <1>4, <1>5, <1>6 DEF Next, CaseOrdered, vars, changeVars

\* Goods ship under approved terms, and nothing touches the approval afterwards.
LEMMA ShippedStep ==
  ASSUME TypeOK, ShippedApproved, [Next]_vars
  PROVE  ShippedApproved'
<1> USE DEF ShippedApproved, ApprovedTerms
<1>1. CASE UNCHANGED <<termsVars, fulfillment>>
  BY <1>1 DEF termsVars
<1>2. ASSUME NEW c, NEW seen, CaregiverAction(c, seen) PROVE ShippedApproved'
  BY <1>2 DEF CaregiverAction, RequestCoapproval, ApproveCoapproval, Terminal, goodsVars
<1>3. ASSUME NEW seen, CaseAction(seen) PROVE ShippedApproved'
  BY <1>1, <1>3 DEF CaseAction, RequestChange, ReportDeliveryIssue, RequestCancellation,
     ReviewPolicy, RecordConsent, QueueException, ResolveException, Terminal, goodsVars
<1>4. ASSUME NEW seen, MerchantAction(seen) PROVE ShippedApproved'
  BY <1>4 DEF MerchantAction, AcknowledgeOrder, MarkOutOfStock, MarkPreparing,
     RegisterShipment, ProposeSubstitution, AcceptCancellation, MarkRefunded, Fulfil,
     termsVars
<1> QED BY <1>1, <1>2, <1>3, <1>4 DEF Next, CaseOrdered, vars, goodsVars

LEMMA NextInv == TypeOK /\ WorkflowInv /\ [Next]_vars => WorkflowInv'
BY IndependentStep, RefundStep, CurrentStep, ShippedStep DEF WorkflowInv

(***************************************************************************)
(* Every standing signature is under the terms in force, a coapproval is   *)
(* one caregiver's answer to another, refunds and shipments exclude each   *)
(* other: applyCaregiver, applyOps and applyMerchant keep all of it.       *)
(***************************************************************************)
THEOREM WorkflowInvariant == Spec => [](TypeOK /\ WorkflowInv)
<1>1. Init => TypeOK /\ WorkflowInv
  BY InitTypes, InitInv
<1>2. TypeOK /\ WorkflowInv /\ [Next]_vars => (TypeOK /\ WorkflowInv)'
  BY NextTypes, NextInv
<1> QED BY <1>1, <1>2, PTL DEF Spec

(***************************************************************************)
(* A coapproval always has two caregivers behind it (applyCaregiver).      *)
(***************************************************************************)
THEOREM CoapprovalIsIndependent == Spec => []IndependentApproval
<1>1. TypeOK /\ WorkflowInv => IndependentApproval
  BY DEF WorkflowInv
<1> QED BY <1>1, WorkflowInvariant, PTL

(***************************************************************************)
(* Refunded goods never left, and a caregiver asked for the refund         *)
(* (applyMerchant).                                                        *)
(***************************************************************************)
THEOREM RefundsAreUnshipped == Spec => []RefundedNeverShipped
<1>1. TypeOK /\ WorkflowInv => RefundedNeverShipped
  BY DEF WorkflowInv
<1> QED BY <1>1, WorkflowInvariant, PTL
-----------------------------------------------------------------------------
(***************************************************************************)
(* The refinement.  By SignaturesCurrent a state of the workflow is, for   *)
(* SignedTerms, its version, the set of standing signatures and whether    *)
(* the order is shipped.                                                   *)
(***************************************************************************)
Quiet == UNCHANGED <<version, StandingUnder, Shipped>>

LEMMA StandingIsCurrent ==
  ASSUME SignaturesCurrent
  PROVE  StandingUnder = [s \in Signatures |-> IF s \in Standing THEN version ELSE None]
BY DEF SignaturesCurrent, StandingUnder

LEMMA QuietStep ==
  ASSUME UNCHANGED <<termsVars, version>>, Shipped' = Shipped
  PROVE  Quiet
BY DEF Quiet, StandingUnder, Standing, termsVars

LEMMA SignStep ==
  ASSUME SignaturesCurrent, SignaturesCurrent', NEW s \in Signatures,
         NEW withdrawn \in SUBSET Signatures, s \notin withdrawn,
         Shipped => withdrawn = {},
         version' = version, Shipped' = Shipped,
         Standing' = (Standing \cup {s}) \ withdrawn
  PROVE  Terms!TermsNext
<1>1. StandingUnder' = [t \in Signatures |-> IF t = s THEN version
                          ELSE IF t \in withdrawn THEN None ELSE StandingUnder[t]]
  BY StandingIsCurrent DEF StandingUnder, SignaturesCurrent
<1>2. Terms!Sign(s)
  BY <1>1 DEF Terms!Sign
<1> QED BY <1>2 DEF Terms!TermsNext

LEMMA ChangeStep ==
  ASSUME TypeOK, ~Shipped, InvalidateTerms, Shipped' = Shipped
  PROVE  Terms!TermsNext
<1>1. Standing' = {}
  BY DEF Standing, InvalidateTerms, TypeOK, StatusTypes
<1>2. StandingUnder' = [s \in Signatures |-> None]
  BY <1>1 DEF StandingUnder
<1>3. Terms!Change
  BY <1>2 DEF Terms!Change, InvalidateTerms
<1> QED BY <1>3 DEF Terms!TermsNext

LEMMA ShipStep ==
  ASSUME SignaturesCurrent, ApprovedTerms, UNCHANGED <<termsVars, version>>, Shipped'
  PROVE  Terms!TermsNext
<1>1. Standing = Signatures
  BY DEF ApprovedTerms, Standing, Signatures
<1>2. Terms!Complete
  BY <1>1, StandingIsCurrent DEF Terms!Complete
<1>3. StandingUnder' = StandingUnder
  BY DEF StandingUnder, Standing, termsVars
<1>4. Terms!Hand
  BY <1>2, <1>3 DEF Terms!Hand
<1> QED BY <1>4 DEF Terms!TermsNext

LEMMA CaregiverTerms ==
  ASSUME SignaturesCurrent, SignaturesCurrent', NEW c, NEW seen,
         CaregiverAction(c, seen)
  PROVE  Terms!TermsNext
<1>1. ~Shipped
  BY DEF CaregiverAction, RequestCoapproval, ApproveCoapproval, Terminal, Shipped
<1>2. version' = version /\ Shipped' = Shipped
  BY DEF CaregiverAction, RequestCoapproval, ApproveCoapproval, Shipped, goodsVars, changeVars
<1>3. CASE RequestCoapproval(c, seen)
  <2>1. Standing' = (Standing \cup {"REQUEST"}) \ {"APPROVAL"}
    BY <1>3 DEF RequestCoapproval, Standing
  <2> QED BY <1>1, <1>2, <2>1, SignStep DEF Signatures
<1>4. CASE ApproveCoapproval(c, seen)
  <2>1. Standing' = (Standing \cup {"APPROVAL"}) \ {}
    BY <1>4 DEF ApproveCoapproval, Standing
  <2> QED BY <1>1, <1>2, <2>1, SignStep DEF Signatures
<1> QED BY <1>3, <1>4 DEF CaregiverAction

LEMMA CaseTerms ==
  ASSUME TypeOK, SignaturesCurrent, SignaturesCurrent', NEW seen, CaseAction(seen)
  PROVE  Terms!TermsNext \/ Quiet
<1>1. Shipped' = Shipped
  BY DEF CaseAction, RequestChange, ReportDeliveryIssue, RequestCancellation,
     ReviewPolicy, RecordConsent, QueueException, ResolveException, Shipped, goodsVars
<1>2. CASE RequestChange(seen)
  BY <1>1, <1>2, ChangeStep DEF RequestChange, Terminal, Shipped
<1>3. CASE ReviewPolicy(seen)
  <2>1. Standing' = (Standing \cup {"REVIEW"}) \ {}
    BY <1>3 DEF ReviewPolicy, Standing
  <2> QED BY <1>1, <1>3, <2>1, SignStep DEF ReviewPolicy, Signatures, changeVars
<1>4. CASE RecordConsent(seen)
  <2>1. Standing' = (Standing \cup {"CONSENT"}) \ {}
    BY <1>4 DEF RecordConsent, Standing
  <2> QED BY <1>1, <1>4, <2>1, SignStep DEF RecordConsent, Signatures, changeVars
<1>5. CASE UNCHANGED <<termsVars, version>>
  BY <1>1, <1>5, QuietStep
<1> QED
  BY <1>2, <1>3, <1>4, <1>5 DEF CaseAction, ReportDeliveryIssue, RequestCancellation,
     QueueException, ResolveException, changeVars

LEMMA MerchantTerms ==
  ASSUME TypeOK, SignaturesCurrent, NEW seen, MerchantAction(seen)
  PROVE  Terms!TermsNext \/ Quiet
<1>1. CASE ProposeSubstitution(seen)
  BY <1>1, ChangeStep DEF ProposeSubstitution, Shipped
<1>2. CASE RegisterShipment(seen)
  BY <1>2, ShipStep DEF RegisterShipment, Fulfil, Shipped, changeVars
<1>3. CASE AcknowledgeOrder(seen) \/ MarkOutOfStock(seen) \/ MarkPreparing(seen)
           \/ AcceptCancellation(seen) \/ MarkRefunded(seen)
  <2>1. UNCHANGED <<termsVars, version>> /\ Shipped' = Shipped
    BY <1>3 DEF AcknowledgeOrder, MarkOutOfStock, MarkPreparing, AcceptCancellation,
       MarkRefunded, Fulfil, Shipped, changeVars
  <2> QED BY <2>1, QuietStep
<1> QED BY <1>1, <1>2, <1>3 DEF MerchantAction

LEMMA NextTerms ==
  ASSUME TypeOK, WorkflowInv, WorkflowInv', [Next]_vars
  PROVE  [Terms!TermsNext]_<<version, StandingUnder, Shipped>>
<1>1. SignaturesCurrent /\ SignaturesCurrent'
  BY DEF WorkflowInv
<1>2. CASE CaseOrdered \/ UNCHANGED vars
  <2>1. UNCHANGED <<termsVars, version>> /\ Shipped' = Shipped
    BY <1>2 DEF CaseOrdered, vars, goodsVars, changeVars, Shipped
  <2> QED BY <2>1, QuietStep DEF Quiet
<1>3. ASSUME NEW c, NEW seen, CaregiverAction(c, seen) PROVE Terms!TermsNext
  BY <1>1, <1>3, CaregiverTerms
<1>4. ASSUME NEW seen, CaseAction(seen) \/ MerchantAction(seen)
      PROVE  Terms!TermsNext \/ Quiet
  BY <1>1, <1>4, CaseTerms, MerchantTerms
<1> QED BY <1>2, <1>3, <1>4 DEF Next, Quiet

(***************************************************************************)
(* The workflow implements the signatures: goods ship only under four      *)
(* signatures of the terms in force, each given on those terms             *)
(* (requireApprovedTerms, invalidateTerms, the expected revision).         *)
(***************************************************************************)
THEOREM WorkflowKeepsSignatures == Spec => KeepsSignatures
<1>1. Init => Terms!TermsInit
  BY DEF Init, Terms!TermsInit, StandingUnder, Standing, Shipped
<1>2. TypeOK /\ WorkflowInv /\ WorkflowInv' /\ [Next]_vars
        => [Terms!TermsNext]_<<version, StandingUnder, Shipped>>
  BY NextTerms
<1> QED
  BY <1>1, <1>2, WorkflowInvariant, PTL DEF Spec, KeepsSignatures, Terms!TermsSpec
-----------------------------------------------------------------------------
(***************************************************************************)
(* A finished order is closed: after shipment, cancellation or refund the  *)
(* agreement and the goods stay as they are, but for the refund of a       *)
(* cancelled order (the terminal checks of applyCaregiver and applyOps,    *)
(* the state checks of applyMerchant).                                     *)
(***************************************************************************)
ClosedStep ==
  Terminal =>
    /\ UNCHANGED <<consent, coApproval, requestedBy, approvedBy, shipment, substitution>>
    /\ fulfillment' # fulfillment => fulfillment = "CANCELLED" /\ fulfillment' = "REFUNDED"

THEOREM OrdersClose == Spec => ClosedOrder
<1>1. [Next]_vars => [ClosedStep]_vars
  <2> SUFFICES ASSUME Next PROVE ClosedStep
    OBVIOUS
  <2>1. ASSUME NEW c, NEW seen, CaregiverAction(c, seen) PROVE ClosedStep
    BY <2>1 DEF CaregiverAction, RequestCoapproval, ApproveCoapproval, ClosedStep
  <2>2. ASSUME NEW seen, CaseAction(seen) PROVE ClosedStep
    BY <2>2 DEF CaseAction, RequestChange, ReportDeliveryIssue, RequestCancellation,
       ReviewPolicy, RecordConsent, QueueException, ResolveException, ClosedStep,
       termsVars, goodsVars
  <2>3. ASSUME NEW seen, MerchantAction(seen) PROVE ClosedStep
    BY <2>3 DEF MerchantAction, AcknowledgeOrder, MarkOutOfStock, MarkPreparing,
       RegisterShipment, ProposeSubstitution, AcceptCancellation, MarkRefunded, Fulfil,
       ClosedStep, Terminal, termsVars
  <2> QED
    BY <2>1, <2>2, <2>3 DEF Next, CaseOrdered, ClosedStep, termsVars, goodsVars
<1> QED BY <1>1, PTL DEF Spec, ClosedOrder, ClosedStep

-----------------------------------------------------------------------------
(***************************************************************************)
(* The desk.  What its variables and its calls may hold.                   *)
(***************************************************************************)
Statuses == {None, "PENDING"} \cup Decided
Outcomes == {"SUBMITTED", "RECONCILIATION_REQUIRED", "FAILED"}
Verdicts == {"ACCEPTED", "REJECTED"}
RoleActions == {"REVIEW_POLICY", "RECORD_CONSENT", "RESOLVE_EXCEPTION", "QUEUE_EXCEPTION"}

Copies ==
  [revision : 0 .. MaxRevision, policyReview : {"PENDING", "REVIEWED"},
   consent : {"NONE", "RECORDED", "INVALIDATED"}, exception : {"NONE", "OPEN", "RESOLVED"},
   fulfillment : Fulfillment]

Items == [Requests -> Statuses] \cup [{Photo} -> Statuses]
Slots == [requested : BOOLEAN, loading : BOOLEAN, error : BOOLEAN, items : Items]
Lives == [ops : Copies \cup {None}, requested : BOOLEAN, loading : BOOLEAN, error : BOOLEAN]
Executions ==
  [request : Requests \cup {None}, confirming : BOOLEAN, running : BOOLEAN, error : BOOLEAN,
   result : Statuses, of : Requests \cup {None}]

\* What a call under way carries depends on its kind and on how far it is.
Asked(kinds) ==
  [kind : kinds, step : {"asked"}, paper : {None}, want : {None}, answer : {None}, deaf : {FALSE}]
Messages ==
  [kind : {"idle"}, step : {"idle"}, paper : {None}, want : {None}, answer : {None}, deaf : {FALSE}]
    \cup Asked(Lists \cup {"overview"})
    \cup [kind : Lists, step : {"served"}, paper : {None}, want : {None}, answer : Items,
          deaf : {FALSE}]
    \cup [kind : {"overview"}, step : {"served"}, paper : {None}, want : {None}, answer : Copies,
          deaf : {FALSE}]
    \cup [kind : {"act"}, step : {"asked", "served", "refused"}, paper : {None},
          want : RoleActions, answer : Copies \cup {None}, deaf : BOOLEAN]
    \cup [kind : {"execute"}, step : {"asked", "ordering", "ordered"}, paper : Requests,
          want : {None}, answer : {None}, deaf : BOOLEAN]
    \cup [kind : {"execute"}, step : {"recording"}, paper : Requests, want : Outcomes,
          answer : {None}, deaf : BOOLEAN]
    \cup [kind : {"execute"}, step : {"served"}, paper : Requests, want : Outcomes \cup {None},
          answer : Statuses, deaf : BOOLEAN]
    \cup [kind : {"review"}, step : {"asked", "served"}, paper : {None}, want : Verdicts,
          answer : {None}, deaf : BOOLEAN]

\* A list of papers says nothing of papers that are not there, and nothing undecided
\* of a paper this desk was told is decided.
ListOK(list, items, st, told) ==
  /\ items \in [Of(list) -> Statuses]
  /\ \A p \in Of(list) :
       /\ items[p] # None => st[p] # None
       /\ p \in told => items[p] \in Decided \cup {None}

SlotOK(list, s, st, told) ==
  /\ s.loading => s.requested /\ ~s.error
  /\ ListOK(list, s.items, st, told)

\* A request is executed that was there; an answered call says what has been decided.
CallOK(m, st, told) ==
  /\ m.kind \in Lists /\ m.step = "served" => ListOK(m.kind, m.answer, st, told)
  /\ m.kind = "execute" => /\ st[m.paper] # None
                           /\ m.step = "served" => st[m.paper] \in Decided
  /\ m.kind = "review" /\ m.step = "served" => st[Photo] \in Decided

ScreenTypes ==
  /\ token \in {"none", "read", "act"} /\ live \in Lives
  /\ open \in BOOLEAN /\ busy \in BOOLEAN
  /\ exec \in Executions /\ clicks \in 0 .. MaxClicks

PaperTypes == status \in [Papers -> Statuses] /\ answered \subseteq Papers

Told == \A p \in answered : status[p] \in Decided
SlotsOK == slots \in [Lists -> Slots] /\ \A l \in Lists : SlotOK(l, slots[l], status, answered)
CallsOK == calls \in [Calls -> Messages] /\ \A c \in Calls : CallOK(calls[c], status, answered)

(***************************************************************************)
(* The inductive invariant.                                                *)
(***************************************************************************)
DeskInv == ScreenTypes /\ PaperTypes /\ Told /\ SlotsOK /\ CallsOK

-----------------------------------------------------------------------------
(***************************************************************************)
(* The desk and the workflow: a step of the desk is a step of the roles or *)
(* changes nothing of their state.                                         *)
(***************************************************************************)
LEMMA AppliedIsNext ==
  ASSUME TypeOK, revision < MaxRevision, NEW action, NEW seen, Applied(action, seen)
  PROVE  Next
<1>1. CaseAction(seen)
  BY DEF Applied, CaseAction
<1>2. seen \in 0 .. revision
  BY DEF Applied, ReviewPolicy, RecordConsent, QueueException, ResolveException, Apply,
     TypeOK, StatusTypes
<1> QED BY <1>1, <1>2 DEF Next

LEMMA AcknowledgeIsNext ==
  ASSUME TypeOK, revision < MaxRevision, AcknowledgeOrder(revision)
  PROVE  Next
<1>1. MerchantAction(revision)
  BY DEF MerchantAction
<1>2. revision \in 0 .. revision
  BY DEF TypeOK, StatusTypes
<1> QED BY <1>1, <1>2 DEF Next

LEMMA ServedWorkflow ==
  ASSUME TypeOK, NEW c \in Calls, Served(c)
  PROVE  [Next]_vars
<1>1. CASE ServeAction(c)
  BY <1>1, AppliedIsNext DEF ServeAction
<1>2. CASE SubmitOrder(c)
  BY <1>2 DEF SubmitOrder, Next
<1>3. CASE AcknowledgeExecuted(c)
  BY <1>3, AcknowledgeIsNext DEF AcknowledgeExecuted
<1>4. CASE \/ ServeList(c) \/ ListAnswered(c) \/ ListFails(c)
           \/ ServeOverview(c) \/ OverviewAnswered(c) \/ OverviewFails(c)
           \/ ActionAnswered(c) \/ ActionFails(c)
  BY <1>4 DEF ServeList, ListAnswered, ListFails, ServeOverview, OverviewAnswered,
     OverviewFails, ActionAnswered, ActionFails
<1>5. CASE \/ ServeExecution(c) \/ RecordExecution(c)
           \/ ExecutionAnswered(c) \/ \E d \in Calls : ExecutionFails(c, d)
           \/ ServeReview(c) \/ ReviewAnswered(c) \/ ReviewFails(c) \/ Unheard(c)
  BY <1>5 DEF ServeExecution, RecordExecution, ExecutionAnswered, ExecutionFails,
     ServeReview, ReviewAnswered, ReviewFails, Unheard
<1> QED BY <1>1, <1>2, <1>3, <1>4, <1>5 DEF Served

LEMMA DeskWorkflow ==
  ASSUME TypeOK, [DeskNext]_<<vars, deskVars>>
  PROVE  [Next]_vars
<1>1. CASE UNCHANGED <<vars, deskVars>> \/ (Next /\ UNCHANGED deskVars) \/ Elsewhere
  BY <1>1 DEF Elsewhere
<1>2. CASE \E c \in Calls : Served(c)
  BY <1>2, ServedWorkflow
<1>3. CASE Rendered
  BY <1>3 DEF Rendered, LoadOverview, LoadList
<1>4. CASE Clicked
  BY <1>4 DEF Clicked, RunOpsAction, ExecuteApproval, ReviewEvidence, RetryList,
     RetryOverview, Connect, OpenConfirm, CancelConfirm, Navigate
<1> QED BY <1>1, <1>2, <1>3, <1>4 DEF DeskNext

(***************************************************************************)
(* The desk sends actions of the roles' workflow and nothing else, so what *)
(* holds of the workflow holds while somebody is at the desk: an action    *)
(* sent from a stale overview, an order executed and acknowledged here     *)
(* (runOpsAction, executeApproval and the rollup behind approval-execute). *)
(***************************************************************************)
THEOREM DeskUsesWorkflow == DeskSpec => Spec
<1>1. DeskInit => Init /\ TypeOK
  BY InitTypes DEF DeskInit
<1>2. TypeOK /\ [DeskNext]_<<vars, deskVars>> => TypeOK' /\ [Next]_vars
  BY DeskWorkflow, NextTypes
<1> QED BY <1>1, <1>2, PTL DEF DeskSpec, Spec

(***************************************************************************)
(* ... goods ship only under the four signatures of the terms in force.    *)
(***************************************************************************)
THEOREM DeskKeepsSignatures == DeskSpec => KeepsSignatures
BY DeskUsesWorkflow, WorkflowKeepsSignatures, PTL

(***************************************************************************)
(* ... and what the desk and the server do together neither approves for   *)
(* two, nor refunds what was shipped, nor reopens what is finished.        *)
(***************************************************************************)
THEOREM DeskKeepsOrders ==
  DeskSpec => []IndependentApproval /\ []RefundedNeverShipped /\ ClosedOrder
BY DeskUsesWorkflow, CoapprovalIsIndependent, RefundsAreUnshipped, OrdersClose, PTL

-----------------------------------------------------------------------------
(***************************************************************************)
(* Lists, slots and calls, in any state.                                   *)
(***************************************************************************)
\* The statuses of papers only move forward.
Forward(st, new) ==
  \A p \in Papers : /\ st[p] \in Decided => new[p] \in Decided
                    /\ st[p] # None => new[p] # None

LEMMA PapersOf ==
  /\ \A l \in Lists : Of(l) \subseteq Papers
  /\ \A l \in Lists, k \in Lists : l # k => Of(l) \cap Of(k) = {}
  /\ Requests \subseteq Papers /\ Photo \in Papers
BY DeskAssumption DEF Lists, Of, Papers

LEMMA PaperMoves ==
  ASSUME NEW st \in [Papers -> Statuses], NEW p \in Papers, NEW s \in Statuses, s # None,
         st[p] \in Decided => s \in Decided
  PROVE  LET new == [st EXCEPT ![p] = s]
         IN new \in [Papers -> Statuses] /\ Forward(st, new) /\ new[p] = s
<1> DEFINE new == [st EXCEPT ![p] = s]
<1>1. new \in [Papers -> Statuses] /\ new[p] = s
  OBVIOUS
<1>2. \A q \in Papers : q # p => new[q] = st[q]
  OBVIOUS
<1> HIDE DEF new
<1>3. Forward(st, new)
  BY <1>1, <1>2 DEF Forward
<1> QED BY <1>1, <1>3 DEF new

LEMMA ListMoves ==
  ASSUME NEW l \in Lists, NEW items, NEW st, NEW new, NEW told,
         ListOK(l, items, st, told), Forward(st, new)
  PROVE  ListOK(l, items, new, told)
BY PapersOf DEF ListOK, Forward

\* Another paper that is told of is in another list, or the list has been forgotten.
LEMMA ListHears ==
  ASSUME NEW l \in Lists, NEW items, NEW st, NEW told, NEW more, more \cap Of(l) = {},
         ListOK(l, items, st, told)
  PROVE  ListOK(l, items, st, told \cup more)
BY DEF ListOK

LEMMA CallMoves ==
  ASSUME NEW m \in Messages, NEW st, NEW new, NEW told, CallOK(m, st, told), Forward(st, new)
  PROVE  CallOK(m, new, told)
<1>1. ASSUME m.kind \in Lists, m.step = "served" PROVE ListOK(m.kind, m.answer, new, told)
  BY <1>1, ListMoves DEF CallOK
<1>2. m.kind = "execute" => m.paper \in Papers
  BY PapersOf DEF Messages, Asked, Lists
<1> QED BY <1>1, <1>2, PapersOf DEF CallOK, Forward

LEMMA SlotMoves ==
  ASSUME NEW l \in Lists, NEW s, NEW st, NEW new, NEW told, SlotOK(l, s, st, told),
         Forward(st, new)
  PROVE  SlotOK(l, s, new, told)
BY ListMoves DEF SlotOK

\* A slot that holds no list: not asked for, being loaded, or failed.
Blank(l) ==
  {EmptySlot(l), [EmptySlot(l) EXCEPT !.requested = TRUE, !.loading = TRUE],
   [EmptySlot(l) EXCEPT !.requested = TRUE, !.error = TRUE]}

LEMMA BlankOK ==
  ASSUME NEW l \in Lists, NEW s \in Blank(l), NEW st, NEW told
  PROVE  s \in Slots /\ SlotOK(l, s, st, told)
<1>1. [p \in Of(l) |-> None] \in Items
  BY DEF Items, Of, Statuses
<1>2. ListOK(l, [p \in Of(l) |-> None], st, told)
  BY DEF ListOK, Statuses
<1>3. CASE s = EmptySlot(l)
  BY <1>1, <1>2, <1>3 DEF EmptySlot, Slots, SlotOK
<1>4. CASE s = [EmptySlot(l) EXCEPT !.requested = TRUE, !.loading = TRUE]
  <2>1. s = [requested |-> TRUE, loading |-> TRUE, error |-> FALSE, items |-> [p \in Of(l) |-> None]]
    BY <1>4 DEF EmptySlot
  <2> QED BY <1>1, <1>2, <2>1 DEF Slots, SlotOK
<1>5. CASE s = [EmptySlot(l) EXCEPT !.requested = TRUE, !.error = TRUE]
  <2>1. s = [requested |-> TRUE, loading |-> FALSE, error |-> TRUE, items |-> [p \in Of(l) |-> None]]
    BY <1>5 DEF EmptySlot
  <2> QED BY <1>1, <1>2, <2>1 DEF Slots, SlotOK
<1> QED BY <1>3, <1>4, <1>5 DEF Blank

LEMMA IdleOK ==
  ASSUME NEW st, NEW told
  PROVE  /\ Idle \in Messages /\ CallOK(Idle, st, told)
         /\ \A kind \in Lists \cup {"overview"} :
              Call(kind) \in Messages /\ CallOK(Call(kind), st, told)
BY DEF Idle, Call, Messages, Asked, CallOK, Lists

\* Calls of the kinds that do not wait for a list say the same however they end.
LEMMA DeafOK ==
  ASSUME NEW m \in Messages, m.kind \in {"act", "execute", "review"}, NEW st, NEW told,
         CallOK(m, st, told)
  PROVE  LET d == [m EXCEPT !.deaf = TRUE]
         IN d \in Messages /\ CallOK(d, st, told) /\ d.kind = m.kind
BY DEF Messages, Asked, Lists, CallOK

\* A list is loaded anew: what was under way for it says nothing any more.
LEMMA LoadAgainOK ==
  ASSUME NEW l \in Lists, NEW c \in Calls, NEW cs \in [Calls -> Messages],
         NEW st, NEW told, NEW more, more \subseteq Of(l),
         slots \in [Lists -> Slots], \A k \in Lists : SlotOK(k, slots[k], st, told),
         \A k \in Calls : CallOK(cs[k], st, told),
         LoadAgain(l, c, cs)
  PROVE  /\ slots' \in [Lists -> Slots]
         /\ \A k \in Lists : SlotOK(k, slots'[k], st, told \cup more)
         /\ calls' \in [Calls -> Messages]
         /\ \A k \in Calls : CallOK(calls'[k], st, told \cup more)
<1>1. PICK s \in Blank(l), m \in {Idle, Call(l)} :
        slots' = [slots EXCEPT ![l] = s] /\ calls' = [Forgotten(l, cs) EXCEPT ![c] = m]
  BY DEF LoadAgain, Blank
<1>2. s \in Slots /\ SlotOK(l, s, st, told \cup more)
  BY BlankOK
<1>3. m \in Messages /\ CallOK(m, st, told \cup more)
  <2>1. CASE m = Idle
    BY <2>1, IdleOK
  <2>2. CASE m = Call(l)
    BY <2>2, IdleOK
  <2> QED BY <2>1, <2>2
<1>4. ASSUME NEW k \in Lists, k # l PROVE SlotOK(k, slots[k], st, told \cup more)
  <2>1. more \cap Of(k) = {}
    BY <1>4, PapersOf
  <2> QED BY <1>4, <2>1, ListHears DEF SlotOK
<1>5. Forgotten(l, cs) \in [Calls -> Messages]
  BY IdleOK DEF Forgotten
<1>6. ASSUME NEW k \in Calls PROVE CallOK(Forgotten(l, cs)[k], st, told \cup more)
  <2>1. CASE cs[k].kind = l
    BY <2>1, IdleOK DEF Forgotten
  <2>2. CASE cs[k].kind # l
    <3>1. CallOK(cs[k], st, told \cup more)
      <4>1. ASSUME cs[k].kind \in Lists, cs[k].step = "served"
            PROVE  ListOK(cs[k].kind, cs[k].answer, st, told \cup more)
        <5>1. more \cap Of(cs[k].kind) = {}
          BY <2>2, <4>1, PapersOf
        <5> QED BY <4>1, <5>1, ListHears DEF CallOK
      <4> QED BY <4>1 DEF CallOK
    <3> QED BY <2>2, <3>1 DEF Forgotten
  <2> QED BY <2>1, <2>2
<1> QED BY <1>1, <1>2, <1>3, <1>4, <1>5, <1>6
-----------------------------------------------------------------------------
(***************************************************************************)
(* What the handlers do to the invariant, in four shapes.                  *)
(***************************************************************************)
\* Nothing of the papers, the lists and the calls changes.
LEMMA StillStep ==
  ASSUME DeskInv, ScreenTypes', UNCHANGED <<status, slots, calls, answered>>
  PROVE  DeskInv'
BY DEF DeskInv, PaperTypes, Told, SlotsOK, CallsOK

\* A call goes on or ends, and papers may have moved.
LEMMA CallStep ==
  ASSUME DeskInv, ScreenTypes', status' \in [Papers -> Statuses], Forward(status, status'),
         answered' = answered, slots' = slots, NEW c \in Calls, NEW m \in Messages,
         CallOK(m, status', answered), calls' = [calls EXCEPT ![c] = m]
  PROVE  DeskInv'
<1>1. PaperTypes' /\ Told'
  BY DEF DeskInv, PaperTypes, Told, Forward
<1>2. SlotsOK'
  BY SlotMoves DEF DeskInv, SlotsOK
<1>3. calls' \in [Calls -> Messages]
  BY DEF DeskInv, CallsOK
<1>4. ASSUME NEW k \in Calls PROVE CallOK(calls'[k], status', answered)
  <2>1. CASE k = c
    BY <2>1 DEF DeskInv, CallsOK
  <2>2. CASE k # c
    <3>1. calls'[k] = calls[k] /\ calls[k] \in Messages /\ CallOK(calls[k], status, answered)
      BY <2>2 DEF DeskInv, CallsOK
    <3> QED BY <3>1, CallMoves
  <2> QED BY <2>1, <2>2
<1> QED BY <1>1, <1>2, <1>3, <1>4 DEF DeskInv, CallsOK

\* Papers move with no call of this desk.
LEMMA PaperStep ==
  ASSUME DeskInv, ScreenTypes', status' \in [Papers -> Statuses], Forward(status, status'),
         answered' = answered, slots' = slots, calls' = calls
  PROVE  DeskInv'
<1>1. PaperTypes' /\ Told'
  BY DEF DeskInv, PaperTypes, Told, Forward
<1>2. SlotsOK'
  BY SlotMoves DEF DeskInv, SlotsOK
<1>3. CallsOK'
  BY CallMoves DEF DeskInv, CallsOK
<1> QED BY <1>1, <1>2, <1>3 DEF DeskInv

\* The answer to a list arrives in its slot.
LEMMA SlotStep ==
  ASSUME DeskInv, ScreenTypes', UNCHANGED <<status, answered>>, NEW c \in Calls,
         NEW l \in Lists, NEW s \in Slots, SlotOK(l, s, status, answered),
         slots' = [slots EXCEPT ![l] = s], calls' = [calls EXCEPT ![c] = Idle]
  PROVE  DeskInv'
<1>1. PaperTypes' /\ Told'
  BY DEF DeskInv, PaperTypes, Told
<1>2. SlotsOK'
  BY DEF DeskInv, SlotsOK
<1>3. CallsOK'
  BY IdleOK DEF DeskInv, CallsOK
<1> QED BY <1>1, <1>2, <1>3 DEF DeskInv

\* A list is loaded again, and the desk may have been told of papers on it.
LEMMA LoadStep ==
  ASSUME DeskInv, ScreenTypes', status' = status, NEW l \in Lists, NEW c \in Calls,
         NEW cs \in [Calls -> Messages], \A k \in Calls : CallOK(cs[k], status, answered),
         NEW more \in SUBSET Of(l), \A p \in more : status[p] \in Decided,
         answered' = answered \cup more, LoadAgain(l, c, cs)
  PROVE  DeskInv'
<1>1. PaperTypes' /\ Told'
  BY PapersOf DEF DeskInv, PaperTypes, Told
<1>2. /\ slots' \in [Lists -> Slots]
      /\ \A k \in Lists : SlotOK(k, slots'[k], status, answered \cup more)
      /\ calls' \in [Calls -> Messages]
      /\ \A k \in Calls : CallOK(calls'[k], status, answered \cup more)
  BY LoadAgainOK DEF DeskInv, SlotsOK
<1> QED BY <1>1, <1>2 DEF DeskInv, SlotsOK, CallsOK

LEMMA SameScreen ==
  ASSUME ScreenTypes, UNCHANGED <<pageVars, clicks>> PROVE ScreenTypes'
BY DEF ScreenTypes, pageVars

LEMMA Unmoved == ASSUME NEW st PROVE Forward(st, st)
BY DEF Forward

LEMMA CallOf ==
  ASSUME DeskInv, NEW c \in Calls
  PROVE  calls[c] \in Messages /\ CallOK(calls[c], status, answered)
BY DEF DeskInv, CallsOK

\* A call ends.
LEMMA EndStep ==
  ASSUME DeskInv, ScreenTypes', UNCHANGED <<status, answered, slots>>, NEW c \in Calls,
         NEW m \in {Idle, Call("overview")}, calls' = [calls EXCEPT ![c] = m]
  PROVE  DeskInv'
<1>1. m \in Messages /\ CallOK(m, status, answered)
  <2>1. CASE m = Idle
    BY <2>1, IdleOK
  <2>2. CASE m = Call("overview")
    BY <2>2, IdleOK
  <2> QED BY <2>1, <2>2
<1> QED BY <1>1, CallStep, Unmoved DEF DeskInv, PaperTypes
-----------------------------------------------------------------------------
(***************************************************************************)
(* The lists and the overview.                                             *)
(***************************************************************************)
LEMMA LoadListKeeps ==
  ASSUME DeskInv, NEW l \in Lists, NEW c \in Calls, LoadList(l, c) PROVE DeskInv'
<1>1. ScreenTypes'
  BY DEF LoadList, DeskInv, ScreenTypes
<1>2. LoadAgain(l, c, calls) /\ status' = status /\ answered' = answered \cup {}
  BY DEF LoadList
<1>3. calls \in [Calls -> Messages] /\ \A k \in Calls : CallOK(calls[k], status, answered)
  BY DEF DeskInv, CallsOK
<1>4. {} \in SUBSET Of(l) /\ \A p \in {} : status[p] \in Decided
  OBVIOUS
<1> QED BY <1>1, <1>2, <1>3, <1>4, LoadStep

\* A question to the server carries nothing but its kind, and is served with an answer.
ServedCalls(kind, a) ==
  [kind : {kind}, step : {"served"}, paper : {None}, want : {None}, answer : {a}, deaf : {FALSE}]

LEMMA ServedCall ==
  ASSUME NEW m \in Messages, m.kind \in Lists \cup {"overview"}, m.step = "asked", NEW a
  PROVE  [m EXCEPT !.step = "served", !.answer = a] \in ServedCalls(m.kind, a)
<1>1. m \in Asked(Lists \cup {"overview"})
  BY DEF Messages, Asked, Lists
<1> QED BY <1>1 DEF Asked, ServedCalls

\* A list is served with what the server has by then.
LEMMA ServeListKeeps ==
  ASSUME DeskInv, NEW c \in Calls, ServeList(c) PROVE DeskInv'
<1> DEFINE l == calls[c].kind
           a == [p \in Of(l) |-> status[p]]
           m == [calls[c] EXCEPT !.step = "served", !.answer = a]
<1>1. l \in Lists /\ calls[c].step = "asked" /\ calls[c] \in Messages
  BY CallOf DEF ServeList
<1>2. a \in [Of(l) -> Statuses] /\ a \in Items
  <2>1. a \in [Of(l) -> Statuses]
    BY <1>1, PapersOf DEF DeskInv, PaperTypes
  <2>2. Of(l) = Requests \/ Of(l) = {Photo}
    BY DEF Of
  <2> QED BY <2>1, <2>2 DEF Items
<1>3. ListOK(l, a, status, answered)
  BY <1>1, <1>2, PapersOf DEF ListOK, DeskInv, Told
<1>4. calls' = [calls EXCEPT ![c] = m]
  BY DEF ServeList, DeskInv, CallsOK
<1>5. m \in ServedCalls(l, a)
  BY <1>1, ServedCall
<1>6. ScreenTypes' /\ status' = status /\ answered' = answered /\ slots' = slots
  BY SameScreen DEF ServeList, DeskInv, pageVars
<1> HIDE DEF l, a, m
<1>7. m \in Messages /\ CallOK(m, status, answered)
  BY <1>1, <1>2, <1>3, <1>5 DEF ServedCalls, Messages, CallOK, Lists
<1> QED BY <1>4, <1>6, <1>7, CallStep, Unmoved DEF DeskInv, PaperTypes

LEMMA ListAnsweredKeeps ==
  ASSUME DeskInv, NEW c \in Calls, ListAnswered(c) PROVE DeskInv'
<1> DEFINE l == calls[c].kind
           s == [slots[l] EXCEPT !.items = calls[c].answer, !.loading = FALSE]
<1>1. l \in Lists /\ calls[c].step = "served"
  BY DEF ListAnswered
<1>2. calls[c].answer \in Items /\ ListOK(l, calls[c].answer, status, answered)
  BY <1>1, CallOf DEF CallOK, Messages, Asked, Lists
<1>3. slots[l] \in Slots
  BY <1>1 DEF DeskInv, SlotsOK
<1>4. s \in Slots /\ s.loading = FALSE /\ s.items = calls[c].answer
  BY <1>2, <1>3 DEF Slots
<1>5. slots' = [slots EXCEPT ![l] = s]
  BY <1>1 DEF ListAnswered, DeskInv, SlotsOK
<1>6. ScreenTypes' /\ UNCHANGED <<status, answered>> /\ calls' = [calls EXCEPT ![c] = Idle]
  BY DEF ListAnswered, DeskInv, ScreenTypes
<1> HIDE DEF s
<1>7. SlotOK(l, s, status, answered)
  BY <1>2, <1>4 DEF SlotOK
<1> QED BY <1>1, <1>4, <1>5, <1>6, <1>7, SlotStep

LEMMA ListFailsKeeps ==
  ASSUME DeskInv, NEW c \in Calls, ListFails(c) PROVE DeskInv'
<1> DEFINE l == calls[c].kind
           s == [EmptySlot(l) EXCEPT !.requested = TRUE, !.error = TRUE]
<1>1. l \in Lists
  BY DEF ListFails
<1>2. s \in Slots /\ SlotOK(l, s, status, answered)
  BY <1>1, BlankOK DEF Blank
<1>3. ScreenTypes' /\ UNCHANGED <<status, answered>> /\ calls' = [calls EXCEPT ![c] = Idle]
      /\ slots' = [slots EXCEPT ![l] = s]
  BY DEF ListFails, DeskInv, ScreenTypes
<1> HIDE DEF s
<1> QED BY <1>1, <1>2, <1>3, SlotStep

LEMMA LoadingLive ==
  ASSUME NEW l \in Lives
  PROVE  Loading(l) \in Lives /\ Loading([l EXCEPT !.ops = None]) \in Lives
BY DEF Lives, Loading

LEMMA LoadOverviewKeeps ==
  ASSUME DeskInv, NEW c \in Calls, LoadOverview(c) PROVE DeskInv'
<1>1. ScreenTypes'
  BY LoadingLive DEF LoadOverview, DeskInv, ScreenTypes
<1> QED BY <1>1, EndStep DEF LoadOverview

\* The overview is a copy of the workflow of that moment.
LEMMA ServeOverviewKeeps ==
  ASSUME TypeOK, DeskInv, NEW c \in Calls, ServeOverview(c) PROVE DeskInv'
<1> DEFINE m == [calls[c] EXCEPT !.step = "served", !.answer = Copy]
<1>1. Copy \in Copies
  BY DEF TypeOK, StatusTypes, Copy, Copies
<1>2. m \in ServedCalls("overview", Copy)
  <2>1. calls[c] \in Messages /\ calls[c].kind = "overview" /\ calls[c].step = "asked"
    BY CallOf DEF ServeOverview
  <2> QED BY <2>1, ServedCall
<1>3. calls' = [calls EXCEPT ![c] = m]
  BY DEF ServeOverview, DeskInv, CallsOK
<1>4. ScreenTypes' /\ status' = status /\ answered' = answered /\ slots' = slots
  BY SameScreen DEF ServeOverview, DeskInv, pageVars
<1> HIDE DEF m
<1>5. m \in Messages /\ CallOK(m, status, answered)
  BY <1>1, <1>2 DEF ServedCalls, Messages, CallOK, Lists
<1> QED BY <1>3, <1>4, <1>5, CallStep, Unmoved DEF DeskInv, PaperTypes

LEMMA OverviewAnsweredKeeps ==
  ASSUME DeskInv, NEW c \in Calls, OverviewAnswered(c) PROVE DeskInv'
<1>1. calls[c].answer \in Copies
  BY CallOf DEF OverviewAnswered, Messages, Asked, Lists
<1>2. live' \in Lives
  BY <1>1 DEF OverviewAnswered, DeskInv, ScreenTypes, Lives
<1>3. ScreenTypes'
  BY <1>2 DEF OverviewAnswered, DeskInv, ScreenTypes
<1> QED BY <1>3, EndStep DEF OverviewAnswered

LEMMA OverviewFailsKeeps ==
  ASSUME DeskInv, NEW c \in Calls, OverviewFails(c) PROVE DeskInv'
<1>1. live' \in Lives
  BY DEF OverviewFails, DeskInv, ScreenTypes, Lives
<1>2. ScreenTypes'
  BY <1>1 DEF OverviewFails, DeskInv, ScreenTypes
<1> QED BY <1>2, EndStep DEF OverviewFails
-----------------------------------------------------------------------------
(***************************************************************************)
(* Actions of the roles' workflow.                                         *)
(***************************************************************************)
\* Calls that carry a decision of the operator, by kind.
Acts    == [kind : {"act"}, step : {"asked", "served", "refused"}, paper : {None},
            want : RoleActions, answer : Copies \cup {None}, deaf : BOOLEAN]
Reviews == [kind : {"review"}, step : {"asked", "served"}, paper : {None}, want : Verdicts,
            answer : {None}, deaf : BOOLEAN]

LEMMA ActCalls ==
  /\ Acts \subseteq Messages /\ Reviews \subseteq Messages
  /\ \A m \in Messages : /\ m.kind = "act" => m \in Acts
                         /\ m.kind = "review" => m \in Reviews
  /\ \A m \in Acts : \A st, told : CallOK(m, st, told)
<1>1. Acts \subseteq Messages /\ Reviews \subseteq Messages
  BY DEF Acts, Reviews, Messages
<1>2. ASSUME NEW m \in Messages
      PROVE  (m.kind = "act" => m \in Acts) /\ (m.kind = "review" => m \in Reviews)
  BY DEF Acts, Reviews, Messages, Asked, Lists
<1>3. ASSUME NEW m \in Acts, NEW st, NEW told PROVE CallOK(m, st, told)
  BY DEF Acts, CallOK, Lists
<1> QED BY <1>1, <1>2, <1>3

LEMMA RunOpsActionKeeps ==
  ASSUME DeskInv, NEW c \in Calls, NEW action \in RoleActions, RunOpsAction(c, action)
  PROVE  DeskInv'
<1> DEFINE m == [Call("act") EXCEPT !.want = action, !.answer = live.ops]
<1>1. live.ops \in Copies \cup {None}
  BY DEF DeskInv, ScreenTypes, Lives
<1>2. m \in Acts
  BY <1>1 DEF Call, Idle, Acts
<1>3. ScreenTypes' /\ UNCHANGED <<status, slots, answered>> /\ calls' = [calls EXCEPT ![c] = m]
  BY DeskAssumption DEF RunOpsAction, Click, DeskInv, ScreenTypes, pageVars
<1> HIDE DEF m
<1>4. m \in Messages /\ CallOK(m, status', answered)
  BY <1>2, ActCalls
<1> QED BY <1>3, <1>4, CallStep, Unmoved DEF DeskInv, PaperTypes

LEMMA ServeActionKeeps ==
  ASSUME DeskInv, NEW c \in Calls, ServeAction(c) PROVE DeskInv'
<1>1. PICK step \in {"served", "refused"} : calls' = [calls EXCEPT ![c].step = step]
  BY DEF ServeAction
<1> DEFINE m == [calls[c] EXCEPT !.step = step]
<1>2. calls[c] \in Acts
  BY CallOf, ActCalls DEF ServeAction
<1>3. m \in Acts /\ calls' = [calls EXCEPT ![c] = m]
  BY <1>1, <1>2 DEF Acts, DeskInv, CallsOK
<1>4. ScreenTypes' /\ status' = status /\ answered' = answered /\ slots' = slots
  BY SameScreen DEF ServeAction, DeskInv, pageVars
<1> HIDE DEF m
<1>5. m \in Messages /\ CallOK(m, status', answered)
  BY <1>3, ActCalls
<1> QED BY <1>3, <1>4, <1>5, CallStep, Unmoved DEF DeskInv, PaperTypes

LEMMA ActionAnsweredKeeps ==
  ASSUME DeskInv, NEW c \in Calls, ActionAnswered(c) PROVE DeskInv'
<1>1. ScreenTypes'
  BY LoadingLive DEF ActionAnswered, DeskInv, ScreenTypes
<1>2. \E m \in {Idle, Call("overview")} : calls' = [calls EXCEPT ![c] = m]
  BY DEF ActionAnswered
<1> QED BY <1>1, <1>2, EndStep DEF ActionAnswered

\* An answer nobody waits for any more: the call ends, or goes on unheard.
LEMMA LostStep ==
  ASSUME DeskInv, ScreenTypes', UNCHANGED <<status, slots, answered>>, NEW c \in Calls,
         calls[c].kind \in {"act", "execute", "review"},
         calls' = [calls EXCEPT ![c] = IF calls[c].step = "asked" THEN [@ EXCEPT !.deaf = TRUE]
                                       ELSE Idle]
  PROVE  DeskInv'
<1> DEFINE m == [calls[c] EXCEPT !.deaf = TRUE]
<1>1. m \in Messages /\ CallOK(m, status, answered)
  BY CallOf, DeafOK
<1>2. calls' = [calls EXCEPT ![c] = m] \/ calls' = [calls EXCEPT ![c] = Idle]
  BY DEF DeskInv, CallsOK
<1> HIDE DEF m
<1>3. CASE calls' = [calls EXCEPT ![c] = m]
  BY <1>1, <1>3, CallStep, Unmoved DEF DeskInv, PaperTypes
<1>4. CASE calls' = [calls EXCEPT ![c] = Idle]
  BY <1>4, EndStep
<1> QED BY <1>2, <1>3, <1>4

LEMMA ActionFailsKeeps ==
  ASSUME DeskInv, NEW c \in Calls, ActionFails(c) PROVE DeskInv'
<1>1. ScreenTypes'
  BY SameScreen DEF ActionFails, DeskInv
<1> QED BY <1>1, LostStep DEF ActionFails, pageVars
-----------------------------------------------------------------------------
(***************************************************************************)
(* An approval request is executed.                                        *)
(***************************************************************************)
\* Execution calls, by step.
Ordering  == [kind : {"execute"}, step : {"asked", "ordering", "ordered"}, paper : Requests,
              want : {None}, answer : {None}, deaf : BOOLEAN]
Recording == [kind : {"execute"}, step : {"recording"}, paper : Requests, want : Outcomes,
              answer : {None}, deaf : BOOLEAN]
Executed  == [kind : {"execute"}, step : {"served"}, paper : Requests,
              want : Outcomes \cup {None}, answer : Statuses, deaf : BOOLEAN]

LEMMA ExecutionCalls ==
  /\ Ordering \cup Recording \cup Executed \subseteq Messages
  /\ \A m \in Messages : m.kind = "execute" =>
       /\ m.step \in {"asked", "ordering", "ordered"} => m \in Ordering
       /\ m.step = "recording" => m \in Recording
       /\ m.step = "served" => m \in Executed
<1>1. Ordering \cup Recording \cup Executed \subseteq Messages
  BY DEF Ordering, Recording, Executed, Messages
<1>2. ASSUME NEW m \in Messages, m.kind = "execute"
      PROVE  /\ m.step \in {"asked", "ordering", "ordered"} => m \in Ordering
             /\ m.step = "recording" => m \in Recording
             /\ m.step = "served" => m \in Executed
  BY <1>2 DEF Ordering, Recording, Executed, Messages, Asked, Lists
<1> QED BY <1>1, <1>2

\* The button that was clicked was on a list, so the request is there.
LEMMA ExecuteApprovalKeeps ==
  ASSUME DeskInv, NEW r \in Requests, NEW c \in Calls, ExecuteApproval(r, c)
  PROVE  DeskInv'
<1> DEFINE m == [Call("execute") EXCEPT !.paper = r]
<1>1. slots["approvals"].items[r] = "PENDING"
  BY DEF ExecuteApproval, Confirming, Executable
<1>2. status[r] # None
  <2>1. SlotOK("approvals", slots["approvals"], status, answered)
    BY DEF DeskInv, SlotsOK, Lists
  <2> QED BY <1>1, <2>1, StatusAssumption DEF SlotOK, ListOK, Of
<1>3. m \in Ordering /\ m.paper = r /\ m.step = "asked"
  BY DEF Call, Idle, Ordering
<1>4. exec' \in Executions
  BY DEF ExecuteApproval, DeskInv, ScreenTypes, Executions
<1>5. ScreenTypes' /\ UNCHANGED <<status, slots, answered>> /\ calls' = [calls EXCEPT ![c] = m]
  BY <1>4, DeskAssumption DEF ExecuteApproval, Click, DeskInv, ScreenTypes
<1> HIDE DEF m
<1>6. m \in Messages /\ CallOK(m, status', answered)
  BY <1>2, <1>3, <1>5, ExecutionCalls DEF Ordering, CallOK, Lists
<1> QED BY <1>5, <1>6, CallStep, Unmoved DEF DeskInv, PaperTypes

\* An execution goes on for a request that is there.
LEMMA OrderingStep ==
  ASSUME DeskInv, NEW c \in Calls, calls[c].kind = "execute",
         UNCHANGED <<status, pageVars, clicks, answered>>,
         NEW m \in Ordering \cup Recording, m.paper = calls[c].paper,
         calls' = [calls EXCEPT ![c] = m]
  PROVE  DeskInv'
<1>1. status[calls[c].paper] # None
  BY CallOf DEF CallOK
<1>2. m \in Messages /\ CallOK(m, status, answered)
  BY <1>1, ExecutionCalls DEF CallOK, Ordering, Recording, Lists
<1>3. ScreenTypes'
  BY SameScreen DEF DeskInv
<1> QED BY <1>2, <1>3, CallStep, Unmoved DEF DeskInv, PaperTypes, pageVars

\* A request that is not pending any more has been decided.
LEMMA ServeExecutionKeeps ==
  ASSUME DeskInv, NEW c \in Calls, ServeExecution(c) PROVE DeskInv'
<1>1. calls[c] \in Ordering /\ calls[c].kind = "execute" /\ calls[c].paper \in Papers
  BY CallOf, ExecutionCalls, PapersOf DEF ServeExecution, Ordering
<1>2. status[calls[c].paper] # None /\ status[calls[c].paper] \in Statuses
  BY <1>1, CallOf DEF CallOK, DeskInv, PaperTypes
<1>3. CASE status[calls[c].paper] = "PENDING"
  <2> DEFINE m == [calls[c] EXCEPT !.step = "ordering"]
  <2>1. m \in Ordering /\ m.paper = calls[c].paper
    BY <1>1 DEF Ordering
  <2>2. calls' = [calls EXCEPT ![c] = m]
    BY <1>3 DEF ServeExecution, DeskInv, CallsOK
  <2> HIDE DEF m
  <2> QED BY <1>1, <2>1, <2>2, OrderingStep DEF ServeExecution
<1>4. CASE status[calls[c].paper] # "PENDING"
  <2> DEFINE m == [calls[c] EXCEPT !.step = "served", !.answer = status[calls[c].paper]]
  <2>1. m \in Executed /\ m.paper = calls[c].paper
    BY <1>1, <1>2 DEF Ordering, Executed
  <2>2. calls' = [calls EXCEPT ![c] = m]
    BY <1>4 DEF ServeExecution, DeskInv, CallsOK
  <2> HIDE DEF m
  <2>3. m \in Messages /\ CallOK(m, status, answered)
    BY <1>2, <1>4, <2>1, ExecutionCalls DEF CallOK, Executed, Lists, Statuses
  <2>4. ScreenTypes' /\ UNCHANGED <<status, answered, slots>>
    BY SameScreen DEF ServeExecution, DeskInv, pageVars
  <2> QED BY <2>2, <2>3, <2>4, CallStep, Unmoved DEF DeskInv, PaperTypes
<1> QED BY <1>3, <1>4

LEMMA SubmitOrderKeeps ==
  ASSUME DeskInv, NEW c \in Calls, SubmitOrder(c) PROVE DeskInv'
<1>1. calls[c] \in Ordering /\ calls[c].kind = "execute"
  BY CallOf, ExecutionCalls DEF SubmitOrder
<1>2. CASE calls' = [calls EXCEPT ![c].step = "ordered"]
  <2> DEFINE m == [calls[c] EXCEPT !.step = "ordered"]
  <2>1. m \in Ordering /\ m.paper = calls[c].paper
    BY <1>1 DEF Ordering
  <2>2. calls' = [calls EXCEPT ![c] = m]
    BY <1>2 DEF DeskInv, CallsOK
  <2> HIDE DEF m
  <2> QED BY <1>1, <2>1, <2>2, OrderingStep DEF SubmitOrder
<1>3. ASSUME NEW s \in {"RECONCILIATION_REQUIRED", "FAILED"},
             calls' = [calls EXCEPT ![c].step = "recording", ![c].want = s]
      PROVE  DeskInv'
  <2> DEFINE m == [calls[c] EXCEPT !.step = "recording", !.want = s]
  <2>1. m \in Recording /\ m.paper = calls[c].paper
    BY <1>1, <1>3 DEF Ordering, Recording, Outcomes
  <2>2. calls' = [calls EXCEPT ![c] = m]
    BY <1>3 DEF DeskInv, CallsOK
  <2> HIDE DEF m
  <2> QED BY <1>1, <2>1, <2>2, OrderingStep DEF SubmitOrder
<1> QED BY <1>2, <1>3 DEF SubmitOrder

LEMMA AcknowledgeExecutedKeeps ==
  ASSUME DeskInv, NEW c \in Calls, AcknowledgeExecuted(c) PROVE DeskInv'
<1> DEFINE m == [calls[c] EXCEPT !.step = "recording", !.want = "SUBMITTED"]
<1>1. calls[c] \in Ordering /\ calls[c].kind = "execute"
  BY CallOf, ExecutionCalls DEF AcknowledgeExecuted
<1>2. m \in Recording /\ m.paper = calls[c].paper
  BY <1>1 DEF Ordering, Recording, Outcomes
<1>3. calls' = [calls EXCEPT ![c] = m]
  BY DEF AcknowledgeExecuted, DeskInv, CallsOK
<1> HIDE DEF m
<1> QED BY <1>1, <1>2, <1>3, OrderingStep DEF AcknowledgeExecuted

\* The outcome is written over PENDING, and decided is what the desk will be told.
LEMMA RecordExecutionKeeps ==
  ASSUME DeskInv, NEW c \in Calls, RecordExecution(c) PROVE DeskInv'
<1> DEFINE r == calls[c].paper
           m == [calls[c] EXCEPT !.step = "served", !.answer = calls[c].want]
<1>1. calls[c] \in Recording /\ r \in Papers /\ calls[c].want \in Outcomes
  BY CallOf, ExecutionCalls, PapersOf DEF RecordExecution, Recording
<1>2. m \in Executed /\ m.paper = r
  BY <1>1 DEF Recording, Executed, Outcomes, Statuses, Decided
<1>3. calls' = [calls EXCEPT ![c] = m] /\ status' = [status EXCEPT ![r] = calls[c].want]
      /\ status[r] = "PENDING"
  BY DEF RecordExecution, DeskInv, CallsOK
<1>4. status' \in [Papers -> Statuses] /\ Forward(status, status') /\ status'[r] \in Decided
  <2>1. calls[c].want \in Decided
    BY <1>1 DEF Outcomes, Decided
  <2>2. status \in [Papers -> Statuses]
    BY DEF DeskInv, PaperTypes
  <2> QED BY <1>1, <1>3, <2>1, <2>2, PaperMoves, StatusAssumption DEF Statuses
<1>5. ScreenTypes' /\ UNCHANGED <<answered, slots>>
  BY SameScreen DEF RecordExecution, DeskInv, pageVars
<1> HIDE DEF m, r
<1>6. m \in Messages /\ CallOK(m, status', answered)
  BY <1>2, <1>4, ExecutionCalls, StatusAssumption DEF CallOK, Executed, Lists
<1> QED BY <1>3, <1>4, <1>5, <1>6, CallStep

\* The desk is told of a decided request, and forgets every list it had of it.
LEMMA ExecutionAnsweredKeeps ==
  ASSUME DeskInv, NEW c \in Calls, ExecutionAnswered(c) PROVE DeskInv'
<1> DEFINE more == {calls[c].paper}
<1>1. calls[c] \in Executed /\ status[calls[c].paper] \in Decided
  BY CallOf, ExecutionCalls DEF ExecutionAnswered, CallOK
<1>2. calls[c].paper \in Requests /\ calls[c].answer \in Statuses
  BY <1>1 DEF Executed
<1>3. more \in SUBSET Of("approvals") /\ \A p \in more : status[p] \in Decided
  BY <1>1, <1>2 DEF Of
<1>4. exec' \in Executions
  BY <1>2 DEF ExecutionAnswered, DeskInv, ScreenTypes, Executions
<1>5. ScreenTypes' /\ status' = status /\ answered' = answered \cup more
      /\ LoadAgain("approvals", c, calls)
  BY <1>4 DEF ExecutionAnswered, DeskInv, ScreenTypes
<1>6. calls \in [Calls -> Messages] /\ \A k \in Calls : CallOK(calls[k], status, answered)
  BY DEF DeskInv, CallsOK
<1> HIDE DEF more
<1> QED BY <1>3, <1>5, <1>6, LoadStep DEF Lists

LEMMA ExecutionFailsKeeps ==
  ASSUME DeskInv, NEW c \in Calls, NEW d \in Calls, ExecutionFails(c, d) PROVE DeskInv'
<1> DEFINE m == [calls[c] EXCEPT !.deaf = TRUE]
<1>1. exec' \in Executions
  BY DEF ExecutionFails, DeskInv, ScreenTypes, Executions, Statuses
<1>2. ScreenTypes' /\ status' = status /\ answered' = answered \cup {}
  BY <1>1 DEF ExecutionFails, DeskInv, ScreenTypes
<1>3. calls \in [Calls -> Messages] /\ \A k \in Calls : CallOK(calls[k], status, answered)
  BY DEF DeskInv, CallsOK
<1>4. m \in Messages /\ CallOK(m, status, answered)
  BY CallOf, DeafOK DEF ExecutionFails
<1>5. [calls EXCEPT ![c].deaf = TRUE] = [calls EXCEPT ![c] = m]
  BY <1>3
<1> HIDE DEF m
<1>6. PICK cs \in {calls, [calls EXCEPT ![c] = m]} : LoadAgain("approvals", d, cs)
  BY <1>5 DEF ExecutionFails
<1>7. cs \in [Calls -> Messages] /\ \A k \in Calls : CallOK(cs[k], status, answered)
  BY <1>3, <1>4
<1>8. {} \in SUBSET Of("approvals") /\ \A p \in {} : status[p] \in Decided
  OBVIOUS
<1> QED BY <1>2, <1>6, <1>7, <1>8, LoadStep DEF Lists
-----------------------------------------------------------------------------
(***************************************************************************)
(* The photograph is reviewed, and the rest of the screen.                 *)
(***************************************************************************)
\* A call that reviews says nothing before it is served.
LEMMA ReviewEvidenceKeeps ==
  ASSUME DeskInv, NEW c \in Calls, NEW verdict \in Verdicts, ReviewEvidence(c, verdict)
  PROVE  DeskInv'
<1> DEFINE m == [Call("review") EXCEPT !.want = verdict]
<1>1. m \in Reviews /\ m.step = "asked"
  BY DEF Call, Idle, Reviews
<1>2. ScreenTypes' /\ UNCHANGED <<status, slots, answered>> /\ calls' = [calls EXCEPT ![c] = m]
  BY DeskAssumption DEF ReviewEvidence, Click, DeskInv, ScreenTypes
<1> HIDE DEF m
<1>3. m \in Messages /\ CallOK(m, status', answered)
  BY <1>1, ActCalls DEF Reviews, CallOK, Lists
<1> QED BY <1>2, <1>3, CallStep, Unmoved DEF DeskInv, PaperTypes

\* A review decides whatever was decided before.
LEMMA ReviewMoves ==
  ASSUME DeskInv, NEW verdict \in Verdicts, Review(verdict)
  PROVE  status' \in [Papers -> Statuses] /\ Forward(status, status') /\ status'[Photo] \in Decided
<1>1. verdict \in Decided
  BY DEF Verdicts, Decided
<1>2. status \in [Papers -> Statuses] /\ Photo \in Papers
  BY PapersOf DEF DeskInv, PaperTypes
<1>3. status' = [status EXCEPT ![Photo] = verdict]
  BY DEF Review
<1> QED BY <1>1, <1>2, <1>3, PaperMoves, StatusAssumption DEF Statuses

LEMMA ServeReviewKeeps ==
  ASSUME DeskInv, NEW c \in Calls, ServeReview(c) PROVE DeskInv'
<1> DEFINE m == [calls[c] EXCEPT !.step = "served"]
<1>1. calls[c] \in Reviews /\ calls[c].want \in Verdicts
  BY CallOf, ActCalls DEF ServeReview, Reviews
<1>2. m \in Reviews
  BY <1>1 DEF Reviews
<1>3. calls' = [calls EXCEPT ![c] = m]
  BY DEF ServeReview, DeskInv, CallsOK
<1>4. status' \in [Papers -> Statuses] /\ Forward(status, status') /\ status'[Photo] \in Decided
  BY <1>1, ReviewMoves DEF ServeReview
<1>5. ScreenTypes' /\ UNCHANGED <<answered, slots>>
  BY SameScreen DEF ServeReview, DeskInv, pageVars
<1> HIDE DEF m
<1>6. m \in Messages /\ CallOK(m, status', answered)
  BY <1>2, <1>4, ActCalls DEF Reviews, CallOK, Lists
<1> QED BY <1>3, <1>4, <1>5, <1>6, CallStep

LEMMA ReviewAnsweredKeeps ==
  ASSUME DeskInv, NEW c \in Calls, ReviewAnswered(c) PROVE DeskInv'
<1> DEFINE more == {Photo}
<1>1. more \in SUBSET Of("evidence") /\ \A p \in more : status[p] \in Decided
  BY CallOf DEF ReviewAnswered, CallOK, Of
<1>2. ScreenTypes' /\ status' = status /\ answered' = answered \cup more
      /\ LoadAgain("evidence", c, calls)
  BY DEF ReviewAnswered, DeskInv, ScreenTypes
<1>3. calls \in [Calls -> Messages] /\ \A k \in Calls : CallOK(calls[k], status, answered)
  BY DEF DeskInv, CallsOK
<1> HIDE DEF more
<1> QED BY <1>1, <1>2, <1>3, LoadStep DEF Lists

LEMMA ReviewFailsKeeps ==
  ASSUME DeskInv, NEW c \in Calls, ReviewFails(c) PROVE DeskInv'
<1>1. ScreenTypes'
  BY DEF ReviewFails, DeskInv, ScreenTypes
<1> QED BY <1>1, LostStep DEF ReviewFails

LEMMA UnheardKeeps ==
  ASSUME DeskInv, NEW c \in Calls, Unheard(c) PROVE DeskInv'
<1>1. ScreenTypes'
  BY SameScreen DEF Unheard, DeskInv
<1> QED BY <1>1, EndStep DEF Unheard, pageVars

LEMMA ServedKeeps ==
  ASSUME TypeOK, DeskInv, NEW c \in Calls, Served(c) PROVE DeskInv'
BY ServeListKeeps, ListAnsweredKeeps, ListFailsKeeps, ServeOverviewKeeps,
   OverviewAnsweredKeeps, OverviewFailsKeeps, ServeActionKeeps, ActionAnsweredKeeps,
   ActionFailsKeeps, ServeExecutionKeeps, SubmitOrderKeeps, AcknowledgeExecutedKeeps,
   RecordExecutionKeeps, ExecutionAnsweredKeeps, ExecutionFailsKeeps, ServeReviewKeeps,
   ReviewAnsweredKeeps, ReviewFailsKeeps, UnheardKeeps
   DEF Served

\* Clicks that only change the screen.
LEMMA ScreenKeeps ==
  ASSUME DeskInv, (\E r \in Requests : OpenConfirm(r)) \/ CancelConfirm \/ Navigate
  PROVE  DeskInv'
<1>1. exec \in Executions
  BY DEF DeskInv, ScreenTypes
<1>2. CASE \E r \in Requests : OpenConfirm(r)
  <2>1. exec' \in Executions
    BY <1>1, <1>2 DEF OpenConfirm, Executions, Statuses
  <2> QED BY <1>2, <2>1, StillStep DEF OpenConfirm, DeskInv, ScreenTypes
<1>3. CASE CancelConfirm
  <2>1. exec' \in Executions
    BY <1>1, <1>3 DEF CancelConfirm, Executions
  <2> QED BY <1>3, <2>1, StillStep DEF CancelConfirm, DeskInv, ScreenTypes
<1>4. CASE Navigate
  <2>1. exec' \in Executions
    BY <1>4 DEF Navigate, EmptyExec, Executions, Statuses
  <2> QED BY <1>4, <2>1, StillStep DEF Navigate, DeskInv, ScreenTypes
<1> QED BY <1>2, <1>3, <1>4

LEMMA RetryListKeeps ==
  ASSUME DeskInv, NEW l \in Lists, NEW c \in Calls, RetryList(l, c) PROVE DeskInv'
<1>1. ScreenTypes'
  BY DeskAssumption DEF RetryList, Click, DeskInv, ScreenTypes
<1>2. LoadAgain(l, c, calls) /\ status' = status /\ answered' = answered \cup {}
  BY DEF RetryList
<1>3. calls \in [Calls -> Messages] /\ \A k \in Calls : CallOK(calls[k], status, answered)
  BY DEF DeskInv, CallsOK
<1>4. {} \in SUBSET Of(l) /\ \A p \in {} : status[p] \in Decided
  OBVIOUS
<1> QED BY <1>1, <1>2, <1>3, <1>4, LoadStep

LEMMA RetryOverviewKeeps ==
  ASSUME DeskInv, NEW c \in Calls, RetryOverview(c) PROVE DeskInv'
<1>1. ScreenTypes'
  <2>1. clicks' \in 0 .. MaxClicks
    BY DeskAssumption DEF RetryOverview, Click, DeskInv, ScreenTypes
  <2> QED BY <2>1, LoadingLive DEF RetryOverview, DeskInv, ScreenTypes
<1> QED BY <1>1, EndStep DEF RetryOverview

LEMMA ConnectKeeps ==
  ASSUME DeskInv, NEW c \in Calls, NEW d \in Calls, Connect(c, d) PROVE DeskInv'
<1>1. ScreenTypes'
  BY LoadingLive, DeskAssumption DEF Connect, Click, DeskInv, ScreenTypes
<1>2. Call("overview") \in Messages /\ CallOK(Call("overview"), status, answered)
  BY IdleOK
<1>3. CallsOK'
  BY <1>2 DEF Connect, DeskInv, CallsOK
<1> QED BY <1>1, <1>3 DEF Connect, DeskInv, PaperTypes, Told, SlotsOK

LEMMA ClickedKeeps == DeskInv /\ Clicked => DeskInv'
BY RunOpsActionKeeps, ExecuteApprovalKeeps, ReviewEvidenceKeeps, RetryListKeeps,
   RetryOverviewKeeps, ConnectKeeps, ScreenKeeps DEF Clicked, RoleActions, Verdicts

LEMMA RenderedKeeps == DeskInv /\ Rendered => DeskInv'
BY LoadOverviewKeeps, LoadListKeeps DEF Rendered

\* What others do to the papers moves them forward too.
LEMMA ElsewhereKeeps == DeskInv /\ Elsewhere => DeskInv'
<1> SUFFICES ASSUME DeskInv, Elsewhere PROVE DeskInv'
  OBVIOUS
<1>1. status \in [Papers -> Statuses]
  BY DEF DeskInv, PaperTypes
<1>2. ASSUME NEW p \in Papers, NEW s \in Statuses, status' = [status EXCEPT ![p] = s],
             s # None, status[p] \in Decided => s \in Decided
      PROVE  status' \in [Papers -> Statuses] /\ Forward(status, status')
  BY <1>1, <1>2, PaperMoves
<1>3. ASSUME NEW verdict \in Verdicts, Review(verdict)
      PROVE  status' \in [Papers -> Statuses] /\ Forward(status, status')
  BY <1>3, ReviewMoves
<1>4. ASSUME NEW r \in Requests, RequestApproval(r) \/ ConfirmRefresh(r) \/ Reconcile(r)
      PROVE  status' \in [Papers -> Statuses] /\ Forward(status, status')
  <2>1. r \in Papers
    BY PapersOf
  <2>2. PICK s \in {"PENDING", "REPLACED", "SUBMITTED"} :
          /\ status' = [status EXCEPT ![r] = s]
          /\ status[r] \in Decided => s \in Decided
    BY <1>4, StatusAssumption DEF RequestApproval, ConfirmRefresh, Reconcile, Decided
  <2>3. s \in Statuses /\ s # None
    BY <2>2, StatusAssumption DEF Statuses, Decided
  <2> QED BY <1>2, <2>1, <2>2, <2>3
<1>5. ASSUME Upload PROVE status' \in [Papers -> Statuses] /\ Forward(status, status')
  BY <1>2, <1>5, PapersOf, StatusAssumption DEF Upload, Statuses
<1>6. status' \in [Papers -> Statuses] /\ Forward(status, status')
  BY <1>3, <1>4, <1>5 DEF Elsewhere, Verdicts
<1>7. ScreenTypes'
  BY SameScreen DEF Elsewhere, DeskInv
<1> QED BY <1>6, <1>7, PaperStep DEF Elsewhere, pageVars
-----------------------------------------------------------------------------
(***************************************************************************)
(* The desk.                                                               *)
(***************************************************************************)
LEMMA DeskInitInv == DeskInit => DeskInv
<1> SUFFICES ASSUME DeskInit PROVE DeskInv
  OBVIOUS
<1>1. ScreenTypes
  <2>1. live \in Lives
    BY DEF DeskInit, Lives
  <2>2. exec \in Executions
    BY DEF DeskInit, EmptyExec, Executions, Statuses
  <2>3. 0 \in 0 .. MaxClicks
    BY DeskAssumption
  <2> QED BY <2>1, <2>2, <2>3 DEF DeskInit, ScreenTypes
<1>2. PaperTypes /\ Told
  BY DEF DeskInit, PaperTypes, Told, Statuses
<1>3. SlotsOK
  <2>1. \A l \in Lists : EmptySlot(l) \in Slots /\ SlotOK(l, EmptySlot(l), status, answered)
    BY BlankOK DEF Blank
  <2> QED BY <2>1 DEF DeskInit, SlotsOK
<1>4. CallsOK
  BY IdleOK DEF DeskInit, CallsOK
<1> QED BY <1>1, <1>2, <1>3, <1>4 DEF DeskInv

LEMMA DeskNextInv ==
  ASSUME TypeOK, DeskInv, [DeskNext]_<<vars, deskVars>> PROVE DeskInv'
<1>1. CASE UNCHANGED deskVars
  <2>1. ScreenTypes'
    BY <1>1, SameScreen DEF deskVars, DeskInv
  <2> QED BY <1>1, <2>1, StillStep DEF deskVars, pageVars
<1> QED
  BY <1>1, ServedKeeps, ClickedKeeps, RenderedKeeps, ElsewhereKeeps DEF DeskNext

\* The types of the desk, what its calls carry, what its lists say.
THEOREM DeskInvariant == DeskSpec => [](TypeOK /\ DeskInv)
<1>1. DeskInit => TypeOK /\ DeskInv
  BY InitTypes, DeskInitInv DEF DeskInit
<1>2. TypeOK /\ DeskInv /\ [DeskNext]_<<vars, deskVars>> => (TypeOK /\ DeskInv)'
  BY DeskWorkflow, NextTypes, DeskNextInv
<1> QED BY <1>1, <1>2, PTL DEF DeskSpec

(***************************************************************************)
(* What an answer to this desk said is decided never comes back undecided  *)
(* on its lists, whichever lists were under way, lost or late: a request   *)
(* that was executed is not offered for execution again                    *)
(* (executeApproval, reviewEvidence and resetOpsCaseState in app.js).      *)
(***************************************************************************)
THEOREM DecidedStaysDecided == DeskSpec => []DecidedIsNotOffered
<1>1. DeskInv => DeskTypeOK
  <2> SUFFICES ASSUME DeskInv PROVE DeskTypeOK
    OBVIOUS
  <2>1. \A c \in Calls : calls[c] = Idle \/ calls[c].step # "idle"
    BY CallOf DEF Messages, Asked, Idle
  <2>2. \A l \in Lists : slots[l].loading => slots[l].requested /\ ~slots[l].error
    BY DEF DeskInv, SlotsOK, SlotOK
  <2>3. exec.request \in Requests \cup {None} /\ exec.of \in Requests \cup {None}
    BY DEF DeskInv, ScreenTypes, Executions
  <2> QED
    BY <2>1, <2>2, <2>3 DEF DeskInv, ScreenTypes, PaperTypes, Statuses, DeskTypeOK
<1>2. DeskInv => \A p \in answered : \A list \in Lists :
                   p \in Listed(list) => slots[list].items[p] \in Decided
  BY DEF DeskInv, SlotsOK, SlotOK, ListOK, Listed
<1>3. TypeOK /\ DeskInv => DecidedIsNotOffered
  BY <1>1, <1>2 DEF DecidedIsNotOffered
<1> QED BY <1>3, DeskInvariant, PTL
=============================================================================
