------------------------ MODULE CaseProcedureProofs ------------------------
(***************************************************************************)
(* What holds of a case procedure for every set of conditions, every       *)
(* number of invalidations and all times: its type invariant, the          *)
(* inductive invariant ProcInv, and from them the safety properties of     *)
(* module CaseProcedure.                                                   *)
(***************************************************************************)
EXTENDS CaseProcedure, TLAPS

USE NoneAssumption, BoundAssumption
USE DEF PHONE_CONNECTED, INTENT_INTERPRETED, POLICY_EVALUATED, USER_CONFIRMED,
        INSTITUTION_APPROVED, X402_REQUIRED, DEVNET_PROOF_FINALIZED,
        SUPPLIER_ORDER_SUBMITTED, SUPPLIER_CONFIRMED, SHIPPED, DELIVERED,
        RECIPIENT_CONFIRMED, RETRY_SCHEDULED, APPROVAL_INVALIDATED,
        POLICY_REEVALUATED, USER_RECONFIRMED, INSTITUTION_REAPPROVED, X402_REBOUND,
        DEVNET_PROOF_REFINALIZED, NoCase, CanonicalCaseState, EventType, Times,
        Revisions, Bindings, Unbound, Normal

\* The groups of applyAcceptedEvent, as a case split of an accepted event.
LEMMA ApplyCases ==
  ASSUME NEW type, NEW d, NEW u, Apply(type, d, u)
  PROVE  \/ EvidenceOnly(type) \/ PolicyRun(type, d) \/ UserConfirmation(type)
         \/ InstitutionApproval(type, d, u) \/ Invalidation(type)
         \/ PaymentRequirement(type, d) \/ PaymentProof(type, d)
         \/ SupplierOrder(type, d) \/ SupplierConfirmation(type)
  BY DEF Apply

\* An accepted event keeps every variable in its type.
LEMMA AcceptKeepsType ==
  ASSUME ProcTypeOK,
         NEW type \in EventType, NEW d \in Bindings, NEW u \in Times, NEW at \in Times,
         AcceptEvent(type, d, u, at)
  PROVE  ProcTypeOK'
<1>1. Moved(type)
  BY DEF AcceptEvent, Apply
<1>2. currentState' \in CanonicalCaseState \cup {NoCase} /\ revalidationStage' \in RevalidationStage
  BY <1>1 DEF Moved, StageAfter, ProcTypeOK, RevalidationStage
<1> USE <1>2 DEF ProcTypeOK, histVars
<1>3. CASE EvidenceOnly(type)
  BY <1>3 DEF EvidenceOnly
<1>4. CASE PolicyRun(type, d)
  BY <1>4 DEF PolicyRun
<1>5. CASE UserConfirmation(type)
  BY <1>5 DEF UserConfirmation
<1>6. CASE InstitutionApproval(type, d, u)
  <2>1. d.condition \in Conditions /\ d.revision \in Revisions
    OBVIOUS
  <2>2. approvals' \in Seq(Conditions)
    BY <1>6, <2>1 DEF InstitutionApproval
  <2> QED
    BY <1>6, <2>1, <2>2 DEF InstitutionApproval
<1>7. CASE Invalidation(type)
  BY <1>7 DEF Invalidation, AcceptEvent, WithinBound
<1>8. CASE PaymentRequirement(type, d)
  BY <1>8 DEF PaymentRequirement
<1>9. CASE PaymentProof(type, d)
  BY <1>9 DEF PaymentProof
<1>10. CASE SupplierOrder(type, d)
  BY <1>10 DEF SupplierOrder
<1>11. CASE SupplierConfirmation(type)
  BY <1>11 DEF SupplierConfirmation
<1> QED
  BY <1>3, <1>4, <1>5, <1>6, <1>7, <1>8, <1>9, <1>10, <1>11, ApplyCases DEF AcceptEvent

\* A case that was never opened is well typed.
LEMMA ProcInitTyped == ProcInit => ProcTypeOK
<1> SUFFICES ASSUME ProcInit PROVE ProcTypeOK
  OBVIOUS
<1>1. approvals \in Seq(Conditions)
  BY DEF ProcInit
<1>2. 0 \in Times /\ 0 \in Revisions /\ 0 \in 0 .. MaxInvalidations
  OBVIOUS
<1> QED
  BY <1>1, <1>2 DEF ProcInit, ProcTypeOK, RevalidationStage

\* Type correctness of the aggregate, for every behaviour of the procedure.
THEOREM ProcTypeCorrect == ProcSpec => []ProcTypeOK
<1>1. ProcInit => ProcTypeOK
  BY ProcInitTyped
<1>2. ProcTypeOK /\ [ProcNext]_procVars => ProcTypeOK'
  <2> SUFFICES ASSUME ProcTypeOK, [ProcNext]_procVars PROVE ProcTypeOK'
    OBVIOUS
  <2>1. CASE UNCHANGED procVars
    BY <2>1 DEF procVars, caseVars, histVars, ProcTypeOK
  <2>2. CASE ProcNext
    BY <2>2, AcceptKeepsType DEF ProcNext
  <2> QED
    BY <2>1, <2>2
<1> QED
  BY <1>1, <1>2, PTL DEF ProcSpec
-----------------------------------------------------------------------------
\* An accepted event keeps the inductive invariant: one step per group of
\* events, and under it what the group does and then the parts of ProcInv.
LEMMA AcceptKeepsInv ==
  ASSUME ProcTypeOK, ProcInv,
         NEW type \in EventType, NEW d \in Bindings, NEW u \in Times, NEW at \in Times,
         AcceptEvent(type, d, u, at)
  PROVE  ProcInv'
<1>0. currentState \in -1 .. 11 /\ conditionHash \in Conditions \cup {None}
  BY DEF ProcTypeOK
<1>1. Moved(type) /\ Admitted(type, d, u, at)
  BY DEF AcceptEvent, Apply
<1>2. CASE EvidenceOnly(type)
  <2>1. UNCHANGED <<approvalInvalidated, conditionHash, userConfirmed, approvalRevision, x402,
       devnet, confirmedCondition, approvals, ordered>>
        /\ revalidationStage' = revalidationStage
    BY <1>1, <1>2 DEF EvidenceOnly, Moved, StageAfter, Admitted, NormalAdmitted,
         AuxiliaryAdmitted, histVars
  <2>2. \/ currentState' = currentState
        \/ currentState' = currentState + 1 /\ currentState \in {-1, 0, 8, 9, 10}
    BY <1>1, <1>2, <1>0 DEF EvidenceOnly, Moved, StageAfter, Admitted, NormalAdmitted,
         AuxiliaryAdmitted, histVars
  <2>3. StageAgrees'
    BY <2>1, <2>2 DEF ProcTypeOK, ProcInv, StageAgrees
  <2>4. ApprovalsCounted'
    BY <2>1, <2>2 DEF ProcTypeOK, ProcInv, ApprovalsCounted
  <2>5. ConsentCurrent'
    BY <2>1, <2>2 DEF ProcTypeOK, ProcInv, ConsentCurrent
  <2>6. ApprovalCurrent'
    BY <2>1, <2>2 DEF ProcTypeOK, ProcInv, ApprovalCurrent
  <2>7. BindingsMatchApprovals'
    BY <2>1, <2>2 DEF ProcTypeOK, ProcInv, BindingsMatchApprovals
  <2>8. ProofAfterRequirement'
    BY <2>1, <2>2 DEF ProcTypeOK, ProcInv, ProofAfterRequirement
  <2>9. OrderBound'
    BY <2>1, <2>2 DEF ProcTypeOK, ProcInv, OrderBound
  <2> QED
    BY <2>3, <2>4, <2>5, <2>6, <2>7, <2>8, <2>9 DEF ProcInv
<1>3. CASE PolicyRun(type, d)
  <2>1. UNCHANGED <<approvalInvalidated, userConfirmed, approvalRevision, x402, devnet,
       confirmedCondition, approvals, ordered>> /\ conditionHash' = d.condition
    BY <1>1, <1>3 DEF PolicyRun, Moved, StageAfter, Admitted, NormalAdmitted, AuxiliaryAdmitted,
         histVars
  <2>2. \/ /\ currentState = INTENT_INTERPRETED /\ currentState' = POLICY_EVALUATED
           /\ revalidationStage' = revalidationStage
        \/ /\ revalidationStage = "INVALIDATED" /\ revalidationStage' = "POLICY"
           /\ currentState' = currentState
    BY <1>1, <1>3, <1>0 DEF PolicyRun, Moved, StageAfter, Admitted, NormalAdmitted,
         AuxiliaryAdmitted, histVars
  <2>3. StageAgrees'
    BY <2>1, <2>2 DEF ProcTypeOK, ProcInv, StageAgrees
  <2>4. ApprovalsCounted'
    BY <2>1, <2>2 DEF ProcTypeOK, ProcInv, ApprovalsCounted
  <2>5. ConsentCurrent'
    BY <2>1, <2>2 DEF ProcTypeOK, ProcInv, ConsentCurrent
  <2>6. ApprovalCurrent'
    BY <2>1, <2>2 DEF ProcTypeOK, ProcInv, ApprovalCurrent, StageAgrees, ApprovalsCounted
  <2>7. BindingsMatchApprovals'
    BY <2>1, <2>2 DEF ProcTypeOK, ProcInv, BindingsMatchApprovals
  <2>8. ProofAfterRequirement'
    BY <2>1, <2>2 DEF ProcTypeOK, ProcInv, ProofAfterRequirement
  <2>9. OrderBound'
    BY <2>1, <2>2 DEF ProcTypeOK, ProcInv, OrderBound, StageAgrees
  <2> QED
    BY <2>3, <2>4, <2>5, <2>6, <2>7, <2>8, <2>9 DEF ProcInv
<1>4. CASE UserConfirmation(type)
  <2>1. UNCHANGED <<approvalInvalidated, conditionHash, approvalRevision, x402, devnet,
       approvals, ordered>> /\ confirmedCondition' = conditionHash
    BY <1>1, <1>4 DEF UserConfirmation, Moved, StageAfter, Admitted, NormalAdmitted,
         AuxiliaryAdmitted, histVars
  <2>2. \/ /\ currentState = POLICY_EVALUATED /\ currentState' = USER_CONFIRMED
           /\ revalidationStage' = revalidationStage
        \/ /\ revalidationStage = "POLICY" /\ revalidationStage' = "USER"
           /\ currentState' = currentState
    BY <1>1, <1>4, <1>0 DEF UserConfirmation, Moved, StageAfter, Admitted, NormalAdmitted,
         AuxiliaryAdmitted, histVars
  <2>3. StageAgrees'
    BY <2>1, <2>2 DEF ProcTypeOK, ProcInv, StageAgrees
  <2>4. ApprovalsCounted'
    BY <2>1, <2>2 DEF ProcTypeOK, ProcInv, ApprovalsCounted
  <2>5. ConsentCurrent'
    BY <2>1, <2>2 DEF ProcTypeOK, ProcInv, ConsentCurrent
  <2>6. ApprovalCurrent'
    BY <2>1, <2>2 DEF ProcTypeOK, ProcInv, ApprovalCurrent
  <2>7. BindingsMatchApprovals'
    BY <2>1, <2>2 DEF ProcTypeOK, ProcInv, BindingsMatchApprovals
  <2>8. ProofAfterRequirement'
    BY <2>1, <2>2 DEF ProcTypeOK, ProcInv, ProofAfterRequirement
  <2>9. OrderBound'
    BY <2>1, <2>2 DEF ProcTypeOK, ProcInv, OrderBound
  <2> QED
    BY <2>3, <2>4, <2>5, <2>6, <2>7, <2>8, <2>9 DEF ProcInv
<1>5. CASE InstitutionApproval(type, d, u)
  <2>a. \/ /\ type = INSTITUTION_APPROVED /\ currentState = USER_CONFIRMED
           /\ ApprovalDataMatches(d, u, at, 1)
        \/ /\ type = INSTITUTION_REAPPROVED /\ revalidationStage = "USER"
           /\ ApprovalDataMatches(d, u, at, approvalRevision + 1)
    BY <1>1, <1>5, <1>0 DEF InstitutionApproval, Admitted, NormalAdmitted, AuxiliaryAdmitted
  <2>b. d.condition = conditionHash /\ conditionHash \in Conditions
    BY <2>a DEF ApprovalDataMatches
  <2>1. /\ UNCHANGED <<x402, devnet, confirmedCondition, ordered, conditionHash>>
        /\ approvalInvalidated' = FALSE /\ approvalRevision' = d.revision
        /\ approvals' = Append(approvals, conditionHash)
        /\ conditionHash \in Conditions
    BY <1>5, <2>b DEF InstitutionApproval
  <2>2. \/ /\ currentState = USER_CONFIRMED /\ currentState' = INSTITUTION_APPROVED
           /\ revalidationStage' = "NONE" /\ d.revision = 1
        \/ /\ revalidationStage = "USER" /\ revalidationStage' = "INSTITUTION"
           /\ currentState' = currentState /\ d.revision = approvalRevision + 1
    BY <1>1, <2>a, <1>0 DEF Moved, StageAfter, ApprovalDataMatches
  <2>3. StageAgrees'
    BY <2>1, <2>2 DEF ProcTypeOK, ProcInv, StageAgrees
  <2>4. ApprovalsCounted'
    BY <2>1, <2>2 DEF ProcTypeOK, ProcInv, ApprovalsCounted, StageAgrees, ApprovalsCounted
  <2>5. ConsentCurrent'
    BY <2>1, <2>2 DEF ProcTypeOK, ProcInv, ConsentCurrent, StageAgrees, ApprovalsCounted
  <2>6. ApprovalCurrent'
    BY <2>1, <2>2 DEF ProcTypeOK, ProcInv, ApprovalCurrent, StageAgrees, ApprovalsCounted
  <2>7. BindingsMatchApprovals'
    BY <2>1, <2>2 DEF ProcTypeOK, ProcInv, BindingsMatchApprovals, StageAgrees, ApprovalsCounted
  <2>8. ProofAfterRequirement'
    BY <2>1, <2>2 DEF ProcTypeOK, ProcInv, ProofAfterRequirement, StageAgrees, ApprovalsCounted
  <2>9. OrderBound'
    BY <2>1, <2>2 DEF ProcTypeOK, ProcInv, OrderBound, StageAgrees, ApprovalsCounted
  <2> QED
    BY <2>3, <2>4, <2>5, <2>6, <2>7, <2>8, <2>9 DEF ProcInv
<1>6. CASE Invalidation(type)
  <2>1. UNCHANGED <<conditionHash, userConfirmed, approvalRevision, x402, devnet,
       confirmedCondition, approvals, ordered>>
        /\ approvalInvalidated' = TRUE /\ revalidationStage' = "INVALIDATED"
        /\ currentState' = currentState
    BY <1>1, <1>6 DEF Invalidation, Moved, StageAfter, Admitted, NormalAdmitted,
         AuxiliaryAdmitted, Invalidable
  <2>2. currentState \in INSTITUTION_APPROVED .. DEVNET_PROOF_FINALIZED
    BY <1>1, <1>6, <1>0 DEF Invalidation, Moved, StageAfter, Admitted, NormalAdmitted,
         AuxiliaryAdmitted, Invalidable
  <2>3. StageAgrees'
    BY <2>1, <2>2 DEF ProcTypeOK, ProcInv, StageAgrees
  <2>4. ApprovalsCounted'
    BY <2>1, <2>2 DEF ProcTypeOK, ProcInv, ApprovalsCounted
  <2>5. ConsentCurrent'
    BY <2>1, <2>2 DEF ProcTypeOK, ProcInv, ConsentCurrent
  <2>6. ApprovalCurrent'
    BY <2>1, <2>2 DEF ProcTypeOK, ProcInv, ApprovalCurrent
  <2>7. BindingsMatchApprovals'
    BY <2>1, <2>2 DEF ProcTypeOK, ProcInv, BindingsMatchApprovals
  <2>8. ProofAfterRequirement'
    BY <2>1, <2>2 DEF ProcTypeOK, ProcInv, ProofAfterRequirement
  <2>9. OrderBound'
    BY <2>1, <2>2 DEF ProcTypeOK, ProcInv, OrderBound
  <2> QED
    BY <2>3, <2>4, <2>5, <2>6, <2>7, <2>8, <2>9 DEF ProcInv
<1>7. CASE PaymentRequirement(type, d)
  <2>1. UNCHANGED <<approvalInvalidated, conditionHash, userConfirmed, approvalRevision, devnet,
       confirmedCondition, approvals, ordered>> /\ x402' = d
        /\ d = [revision |-> approvalRevision, condition |-> conditionHash]
    BY <1>1, <1>7 DEF PaymentRequirement, Moved, StageAfter, Admitted, NormalAdmitted,
         AuxiliaryAdmitted, histVars, ApprovalReferenceMatches, ApprovalActive
  <2>2. \/ /\ currentState = INSTITUTION_APPROVED /\ currentState' = X402_REQUIRED
           /\ revalidationStage' = revalidationStage /\ ~approvalInvalidated
        \/ /\ revalidationStage = "INSTITUTION" /\ revalidationStage' = "X402"
           /\ currentState' = currentState
    BY <1>1, <1>7, <1>0 DEF PaymentRequirement, Moved, StageAfter, Admitted, NormalAdmitted,
         AuxiliaryAdmitted, histVars, ApprovalReferenceMatches, ApprovalActive
  <2>3. StageAgrees'
    BY <2>1, <2>2 DEF ProcTypeOK, ProcInv, StageAgrees
  <2>4. ApprovalsCounted'
    BY <2>1, <2>2 DEF ProcTypeOK, ProcInv, ApprovalsCounted
  <2>5. ConsentCurrent'
    BY <2>1, <2>2 DEF ProcTypeOK, ProcInv, ConsentCurrent, StageAgrees
  <2>6. ApprovalCurrent'
    BY <2>1, <2>2 DEF ProcTypeOK, ProcInv, ApprovalCurrent, StageAgrees
  <2>a. approvalRevision >= 1 /\ ~approvalInvalidated
    BY <2>2, <1>0 DEF ProcTypeOK, ProcInv, ApprovalsCounted, StageAgrees
  <2>b. approvalRevision \in 1 .. Len(approvals) /\ conditionHash = approvals[approvalRevision]
    BY <2>a DEF ProcTypeOK, ProcInv, ApprovalsCounted, ApprovalCurrent
  <2>7. BindingsMatchApprovals'
    BY <2>1, <2>b DEF ProcInv, BindingsMatchApprovals
  <2>8. ProofAfterRequirement'
    BY <2>1, <2>2 DEF ProcTypeOK, ProcInv, ProofAfterRequirement, ApprovalsCounted,
         BindingsMatchApprovals, StageAgrees
  <2>9. OrderBound'
    BY <2>1, <2>2 DEF ProcTypeOK, ProcInv, OrderBound
  <2> QED
    BY <2>3, <2>4, <2>5, <2>6, <2>7, <2>8, <2>9 DEF ProcInv
<1>8. CASE PaymentProof(type, d)
  <2>1. UNCHANGED <<approvalInvalidated, conditionHash, userConfirmed, approvalRevision, x402,
       confirmedCondition, approvals, ordered>> /\ devnet' = d /\ x402 = d
    BY <1>1, <1>8 DEF PaymentProof, Moved, StageAfter, Admitted, NormalAdmitted,
         AuxiliaryAdmitted, histVars, X402Matches
  <2>2. \/ /\ currentState = X402_REQUIRED /\ currentState' = DEVNET_PROOF_FINALIZED
           /\ revalidationStage' = revalidationStage
        \/ /\ revalidationStage = "X402" /\ revalidationStage' = "NONE"
           /\ currentState' = currentState
    BY <1>1, <1>8, <1>0 DEF PaymentProof, Moved, StageAfter, Admitted, NormalAdmitted,
         AuxiliaryAdmitted, histVars, X402Matches
  <2>3. StageAgrees'
    BY <2>1, <2>2 DEF ProcTypeOK, ProcInv, StageAgrees
  <2>4. ApprovalsCounted'
    BY <2>1, <2>2 DEF ProcTypeOK, ProcInv, ApprovalsCounted
  <2>5. ConsentCurrent'
    BY <2>1, <2>2 DEF ProcTypeOK, ProcInv, ConsentCurrent
  <2>6. ApprovalCurrent'
    BY <2>1, <2>2 DEF ProcTypeOK, ProcInv, ApprovalCurrent
  <2>7. BindingsMatchApprovals'
    BY <2>1, <2>2 DEF ProcTypeOK, ProcInv, BindingsMatchApprovals
  <2>8. ProofAfterRequirement'
    BY <2>1, <2>2 DEF ProcTypeOK, ProcInv, ProofAfterRequirement
  <2>9. OrderBound'
    BY <2>1, <2>2 DEF ProcTypeOK, ProcInv, OrderBound
  <2> QED
    BY <2>3, <2>4, <2>5, <2>6, <2>7, <2>8, <2>9 DEF ProcInv
<1>9. CASE SupplierOrder(type, d)
  <2>1. UNCHANGED <<approvalInvalidated, conditionHash, userConfirmed, approvalRevision, x402,
       devnet, confirmedCondition, approvals>> /\ ordered' = d
        /\ d = [revision |-> approvalRevision, condition |-> conditionHash] /\ devnet = d
    BY <1>1, <1>9 DEF SupplierOrder, Moved, StageAfter, Admitted, NormalAdmitted,
         AuxiliaryAdmitted, SupplierBindingMatches, ApprovalActive, ApprovalReferenceMatches
  <2>2. /\ currentState = DEVNET_PROOF_FINALIZED /\ currentState' = SUPPLIER_ORDER_SUBMITTED
        /\ revalidationStage' = revalidationStage /\ ~approvalInvalidated
    BY <1>1, <1>9, <1>0 DEF SupplierOrder, Moved, StageAfter, Admitted, NormalAdmitted,
         AuxiliaryAdmitted, SupplierBindingMatches, ApprovalActive, ApprovalReferenceMatches
  <2>3. StageAgrees'
    BY <2>1, <2>2 DEF ProcTypeOK, ProcInv, StageAgrees
  <2>4. ApprovalsCounted'
    BY <2>1, <2>2 DEF ProcTypeOK, ProcInv, ApprovalsCounted
  <2>5. ConsentCurrent'
    BY <2>1, <2>2 DEF ProcTypeOK, ProcInv, ConsentCurrent
  <2>6. ApprovalCurrent'
    BY <2>1, <2>2 DEF ProcTypeOK, ProcInv, ApprovalCurrent
  <2>7. BindingsMatchApprovals'
    BY <2>1, <2>2 DEF ProcTypeOK, ProcInv, BindingsMatchApprovals
  <2>8. ProofAfterRequirement'
    BY <2>1, <2>2 DEF ProcTypeOK, ProcInv, ProofAfterRequirement
  <2>9. OrderBound'
    BY <2>1, <2>2 DEF ProcTypeOK, ProcInv, OrderBound, ApprovalsCounted, BindingsMatchApprovals,
         ProofAfterRequirement
  <2> QED
    BY <2>3, <2>4, <2>5, <2>6, <2>7, <2>8, <2>9 DEF ProcInv
<1>10. CASE SupplierConfirmation(type)
  <2>1. UNCHANGED <<approvalInvalidated, conditionHash, userConfirmed, approvalRevision, x402,
       devnet, confirmedCondition, approvals, ordered>>
    BY <1>1, <1>10 DEF SupplierConfirmation, Moved, StageAfter, Admitted, NormalAdmitted,
         AuxiliaryAdmitted, histVars
  <2>2. /\ currentState = SUPPLIER_ORDER_SUBMITTED /\ currentState' = SUPPLIER_CONFIRMED
        /\ revalidationStage' = revalidationStage
    BY <1>1, <1>10, <1>0 DEF SupplierConfirmation, Moved, StageAfter, Admitted, NormalAdmitted,
         AuxiliaryAdmitted, histVars
  <2>3. StageAgrees'
    BY <2>1, <2>2 DEF ProcTypeOK, ProcInv, StageAgrees
  <2>4. ApprovalsCounted'
    BY <2>1, <2>2 DEF ProcTypeOK, ProcInv, ApprovalsCounted
  <2>5. ConsentCurrent'
    BY <2>1, <2>2 DEF ProcTypeOK, ProcInv, ConsentCurrent
  <2>6. ApprovalCurrent'
    BY <2>1, <2>2 DEF ProcTypeOK, ProcInv, ApprovalCurrent
  <2>7. BindingsMatchApprovals'
    BY <2>1, <2>2 DEF ProcTypeOK, ProcInv, BindingsMatchApprovals
  <2>8. ProofAfterRequirement'
    BY <2>1, <2>2 DEF ProcTypeOK, ProcInv, ProofAfterRequirement
  <2>9. OrderBound'
    BY <2>1, <2>2 DEF ProcTypeOK, ProcInv, OrderBound
  <2> QED
    BY <2>3, <2>4, <2>5, <2>6, <2>7, <2>8, <2>9 DEF ProcInv
<1> QED
  BY <1>2, <1>3, <1>4, <1>5, <1>6, <1>7, <1>8, <1>9, <1>10, ApplyCases DEF AcceptEvent
\* The inductive invariant, for every behaviour of the procedure.
THEOREM ProcInvariant == ProcSpec => []ProcInv
<1>1. ProcInit => ProcInv
  BY DEF ProcInit, ProcInv, StageAgrees, ApprovalsCounted, ConsentCurrent, ApprovalCurrent,
         BindingsMatchApprovals, ProofAfterRequirement, OrderBound
<1>2. ProcTypeOK /\ ProcInv /\ [ProcNext]_procVars => ProcInv'
  <2> SUFFICES ASSUME ProcTypeOK, ProcInv, [ProcNext]_procVars PROVE ProcInv'
    OBVIOUS
  <2>1. CASE UNCHANGED procVars
    BY <2>1 DEF procVars, caseVars, histVars, ProcInv, StageAgrees, ApprovalsCounted,
       ConsentCurrent, ApprovalCurrent, BindingsMatchApprovals, ProofAfterRequirement, OrderBound
  <2>2. CASE ProcNext
    BY <2>2, AcceptKeepsInv DEF ProcNext
  <2> QED
    BY <2>1, <2>2
<1> QED
  BY <1>1, <1>2, ProcTypeCorrect, PTL DEF ProcSpec

\* Every payment requirement and proof is bound to what the institution approved
\* under that revision.
THEOREM BindingsAreApproved == ProcSpec => []BindingsMatchApprovals
<1>1. ProcInv => BindingsMatchApprovals
  BY DEF ProcInv
<1> QED
  BY <1>1, ProcInvariant, PTL

\* The supplier is asked for what the recipient confirmed, the institution last
\* approved and the finalized proof is bound to.
THEOREM OrdersAreAgreed == ProcSpec => []OrderedAsAgreed
<1>1. ProcTypeOK /\ ProcInv => OrderedAsAgreed
  <2> SUFFICES ASSUME ProcTypeOK, ProcInv, ordered # Unbound
               PROVE  /\ ordered.revision = Len(approvals)
                      /\ ordered.condition = approvals[Len(approvals)]
                      /\ ordered.condition = confirmedCondition
                      /\ x402 = ordered /\ devnet = ordered
    BY DEF OrderedAsAgreed
  <2>1. /\ ordered.revision = approvalRevision /\ ordered.condition = conditionHash
        /\ x402 = ordered /\ devnet = ordered
        /\ currentState >= SUPPLIER_ORDER_SUBMITTED
    BY DEF ProcInv, OrderBound
  <2>2. /\ ~approvalInvalidated
        /\ revalidationStage \notin {"INVALIDATED", "POLICY"}
        /\ approvalRevision >= 1 /\ Len(approvals) = approvalRevision
    BY <2>1 DEF ProcTypeOK, ProcInv, StageAgrees, ApprovalsCounted
  <2>3. conditionHash = approvals[approvalRevision]
    BY <2>2 DEF ProcInv, ApprovalCurrent
  <2>4. conditionHash = confirmedCondition
    BY <2>1, <2>2 DEF ProcTypeOK, ProcInv, ConsentCurrent
  <2> QED
    BY <2>1, <2>2, <2>3, <2>4
<1> QED
  BY <1>1, ProcTypeCorrect, ProcInvariant, PTL

\* Once the supplier has the order, an accepted event leaves the terms alone.
LEMMA AcceptKeepsTerms ==
  ASSUME ProcTypeOK, ProcInv, ordered # Unbound,
         NEW type \in EventType, NEW d \in Bindings, NEW u \in Times, NEW at \in Times,
         AcceptEvent(type, d, u, at)
  PROVE  UNCHANGED Terms
<1>1. Admitted(type, d, u, at)
  BY DEF AcceptEvent
<1>2. currentState \in 7 .. 11 /\ currentState # NoCase
  BY DEF ProcTypeOK, ProcInv, OrderBound
<1>3. revalidationStage \notin {"INVALIDATED", "POLICY", "USER"}
  BY <1>2 DEF ProcTypeOK, ProcInv, StageAgrees
<1>4. /\ ordered = [revision |-> approvalRevision, condition |-> conditionHash]
      /\ x402 = ordered /\ devnet = ordered
  BY DEF ProcInv, OrderBound
<1>5. type \in {SUPPLIER_CONFIRMED, SHIPPED, DELIVERED, RECIPIENT_CONFIRMED, RETRY_SCHEDULED,
                X402_REBOUND, DEVNET_PROOF_REFINALIZED}
  BY <1>1, <1>2, <1>3 DEF Admitted, NormalAdmitted, AuxiliaryAdmitted, Invalidable
<1>6. CASE type = X402_REBOUND
  <2>1. PaymentRequirement(type, d) /\ d = ordered
    BY <1>1, <1>2, <1>4, <1>6 DEF AcceptEvent, Apply, Admitted, NormalAdmitted, AuxiliaryAdmitted,
       ApprovalReferenceMatches, EvidenceOnly, PolicyRun, UserConfirmation, InstitutionApproval,
       Invalidation, PaymentProof, SupplierOrder, SupplierConfirmation
  <2> QED
    BY <2>1, <1>4 DEF PaymentRequirement, Terms, histVars
<1>7. CASE type = DEVNET_PROOF_REFINALIZED
  <2>1. PaymentProof(type, d) /\ d = x402
    BY <1>1, <1>2, <1>4, <1>7 DEF AcceptEvent, Apply, Admitted, NormalAdmitted, AuxiliaryAdmitted,
       X402Matches, EvidenceOnly, PolicyRun, UserConfirmation, InstitutionApproval,
       Invalidation, PaymentRequirement, SupplierOrder, SupplierConfirmation
  <2> QED
    BY <2>1, <1>4 DEF PaymentProof, Terms, histVars
<1>8. CASE type \in {SUPPLIER_CONFIRMED, SHIPPED, DELIVERED, RECIPIENT_CONFIRMED, RETRY_SCHEDULED}
  <2>1. EvidenceOnly(type) \/ SupplierConfirmation(type)
    BY <1>8 DEF AcceptEvent, Apply, PolicyRun, UserConfirmation, InstitutionApproval,
       Invalidation, PaymentRequirement, PaymentProof, SupplierOrder
  <2> QED
    BY <2>1 DEF EvidenceOnly, SupplierConfirmation, Terms, histVars
<1> QED
  BY <1>5, <1>6, <1>7, <1>8

\* From the supplier order on, nothing changes what was agreed.
THEOREM TermsAreFrozen == ProcSpec => TermsFrozenOnceOrdered
<1>1. ProcTypeOK /\ ProcInv /\ [ProcNext]_procVars
        => [ordered # Unbound => UNCHANGED Terms]_procVars
  BY AcceptKeepsTerms DEF ProcNext
<1> QED
  BY <1>1, ProcTypeCorrect, ProcInvariant, PTL DEF ProcSpec, TermsFrozenOnceOrdered

\* An approval that is appended is of the condition the recipient confirmed.
LEMMA AcceptFollowsConsent ==
  ASSUME ProcTypeOK, ProcInv,
         NEW type \in EventType, NEW d \in Bindings, NEW u \in Times, NEW at \in Times,
         AcceptEvent(type, d, u, at)
  PROVE  approvals' # approvals => approvals'[Len(approvals')] = confirmedCondition
<1>1. currentState \in -1 .. 11 /\ Admitted(type, d, u, at)
  BY DEF ProcTypeOK, AcceptEvent
<1>2. CASE InstitutionApproval(type, d, u)
  <2>1. type \in {INSTITUTION_APPROVED, INSTITUTION_REAPPROVED}
    BY <1>2 DEF InstitutionApproval
  <2>2. \/ currentState = USER_CONFIRMED /\ ApprovalDataMatches(d, u, at, 1)
        \/ revalidationStage = "USER" /\ ApprovalDataMatches(d, u, at, approvalRevision + 1)
    BY <1>1, <2>1 DEF Admitted, NormalAdmitted, AuxiliaryAdmitted
  <2>3. d.condition = conditionHash /\ conditionHash \in Conditions
    BY <2>2 DEF ApprovalDataMatches
  <2>4. confirmedCondition = conditionHash
    BY <1>1, <2>2 DEF ProcInv, StageAgrees, ConsentCurrent
  <2>5. approvals' = Append(approvals, conditionHash) /\ approvals \in Seq(Conditions)
    BY <1>2, <2>3 DEF InstitutionApproval, ProcTypeOK
  <2> QED
    BY <2>3, <2>4, <2>5
<1>3. CASE ~InstitutionApproval(type, d, u)
  BY <1>3, ApplyCases DEF AcceptEvent, EvidenceOnly, PolicyRun, UserConfirmation, Invalidation,
     PaymentRequirement, PaymentProof, SupplierOrder, SupplierConfirmation, histVars
<1> QED
  BY <1>2, <1>3

\* The institution approves only what the recipient has confirmed.
THEOREM ApprovalsFollowConsent == ProcSpec => ApprovalAfterConsent
<1>1. ProcTypeOK /\ ProcInv /\ [ProcNext]_procVars
        => [approvals' # approvals => approvals'[Len(approvals')] = confirmedCondition]_procVars
  BY AcceptFollowsConsent DEF ProcNext
<1> QED
  BY <1>1, ProcTypeCorrect, ProcInvariant, PTL DEF ProcSpec, ApprovalAfterConsent
=============================================================================
