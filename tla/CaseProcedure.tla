--------------------------- MODULE CaseProcedure ---------------------------
(***************************************************************************)
(* The procedure of one benefit case, as the canonical case ledger of      *)
(* src/case-ledger/ledger.ts enforces it: twelve states passed in order,   *)
(* from the phone call to the recipient's confirmation of receipt, and the *)
(* auxiliary events that invalidate an approval and rebuild it (policy,    *)
(* recipient, institution, payment requirement, payment proof).            *)
(*                                                                         *)
(* A step accepts one event: Admitted is what transitionRejection lets     *)
(* through, Apply is what applyAcceptedEvent makes of the aggregate.  How  *)
(* commands come in (idempotency keys, stale tails, refused commands) is   *)
(* the business of module CaseLedger, which extends this one.              *)
(*                                                                         *)
(* A hash is a member of a small set: what matters is which condition an   *)
(* approval, a payment requirement or a proof is bound to.  `at', the time *)
(* a caller puts on its command, is data: no clock orders the commands.    *)
(***************************************************************************)
EXTENDS Integers, Sequences

CONSTANTS
  Conditions,        \* condition hashes: the priced terms a policy run produced
  None,              \* an undefined field
  MaxTime,           \* times are 0 .. MaxTime
  MaxInvalidations   \* bound: how often a case's approval may be invalidated

ASSUME NoneAssumption  == None \notin Conditions
ASSUME BoundAssumption == MaxTime \in Nat /\ MaxInvalidations \in Nat

(***************************************************************************)
(* Event types.  A state of the procedure is its place in                  *)
(* CANONICAL_CASE_STATES, so that NORMAL_INDEX is the identity.            *)
(***************************************************************************)
PHONE_CONNECTED          == 0
INTENT_INTERPRETED       == 1
POLICY_EVALUATED         == 2
USER_CONFIRMED           == 3
INSTITUTION_APPROVED     == 4
X402_REQUIRED            == 5
DEVNET_PROOF_FINALIZED   == 6
SUPPLIER_ORDER_SUBMITTED == 7
SUPPLIER_CONFIRMED       == 8
SHIPPED                  == 9
DELIVERED                == 10
RECIPIENT_CONFIRMED      == 11
RETRY_SCHEDULED          == 12
APPROVAL_INVALIDATED     == 13
POLICY_REEVALUATED       == 14
USER_RECONFIRMED         == 15
INSTITUTION_REAPPROVED   == 16
X402_REBOUND             == 17
DEVNET_PROOF_REFINALIZED == 18

NoCase             == -1      \* no aggregate yet
CanonicalCaseState == 0 .. 11
EventType          == 0 .. 18
Times              == 0 .. MaxTime

\* NORMAL_INDEX.has(type)
Normal(type) == type \in CanonicalCaseState

RevalidationStage == {"NONE", "INVALIDATED", "POLICY", "USER", "INSTITUTION", "X402"}

\* A binding: the approval revision and the condition hash an event refers to.
Revisions == 0 .. MaxInvalidations + 1
Bindings == [revision : Revisions, condition : Conditions]
Unbound  == [revision |-> 0, condition |-> None]

VARIABLES
  currentState,         \* NoCase, or the last normal state reached
  revalidationStage,    \* how far an invalidated approval has been rebuilt
  approvalInvalidated,
  conditionHash,        \* set with policySnapshotHash by every policy run
  userConfirmed,        \* userConfirmationHash is defined
  approvalRevision,     \* 0 while undefined
  approvalValidUntil,
  x402,                 \* x402ApprovalRevision and x402ConditionHash
  devnet,               \* devnetApprovalRevision and devnetConditionHash
  supplierConfirmed     \* supplierOrderId is defined

\* History, for the properties only: the condition the recipient was last
\* asked about, the conditions the institution approved by revision, what the
\* supplier order was bound to, and the invalidations so far.
VARIABLES confirmedCondition, approvals, ordered, invalidations

caseVars == <<currentState, revalidationStage, approvalInvalidated, conditionHash,
              userConfirmed, approvalRevision, approvalValidUntil, x402, devnet,
              supplierConfirmed>>
histVars == <<confirmedCondition, approvals, ordered, invalidations>>
procVars == <<caseVars, histVars>>

ProcTypeOK ==
  /\ currentState \in CanonicalCaseState \cup {NoCase}
  /\ revalidationStage \in RevalidationStage
  /\ approvalInvalidated \in BOOLEAN
  /\ conditionHash \in Conditions \cup {None}
  /\ userConfirmed \in BOOLEAN
  /\ approvalRevision \in Revisions
  /\ approvalValidUntil \in Times
  /\ x402 \in Bindings \cup {Unbound}
  /\ devnet \in Bindings \cup {Unbound}
  /\ supplierConfirmed \in BOOLEAN
  /\ confirmedCondition \in Conditions \cup {None}
  /\ approvals \in Seq(Conditions)
  /\ ordered \in Bindings \cup {Unbound}
  /\ invalidations \in 0 .. MaxInvalidations

ProcInit ==
  /\ currentState = NoCase
  /\ revalidationStage = "NONE"
  /\ approvalInvalidated = FALSE
  /\ conditionHash = None
  /\ userConfirmed = FALSE
  /\ approvalRevision = 0
  /\ approvalValidUntil = 0
  /\ x402 = Unbound
  /\ devnet = Unbound
  /\ supplierConfirmed = FALSE
  /\ confirmedCondition = None
  /\ approvals = <<>>
  /\ ordered = Unbound
  /\ invalidations = 0
-----------------------------------------------------------------------------
(***************************************************************************)
(* transitionRejection.  d is the binding in the command's data, u its     *)
(* approvalValidUntil and at its time.                                     *)
(***************************************************************************)
ApprovalDataMatches(d, u, at, expectedRevision) ==
  /\ d.revision = expectedRevision
  /\ u > at
  /\ d.condition = conditionHash
  /\ userConfirmed

ApprovalActive(at) == ~approvalInvalidated /\ approvalValidUntil > at

\* Mutant: the revision is compared, the condition is not.
ReferenceRevisionOnly(d) == d.revision = approvalRevision
ApprovalReferenceMatches(d) ==
  d = [revision |-> approvalRevision, condition |-> conditionHash]

X402Matches(d) == d = x402

\* Mutant: the order is compared with the approval, the proof is not.
SupplierUnproved(d, at) == ApprovalActive(at) /\ ApprovalReferenceMatches(d)
SupplierBindingMatches(d, at) ==
  /\ ApprovalActive(at)
  /\ ApprovalReferenceMatches(d)
  /\ devnet = [revision |-> approvalRevision, condition |-> conditionHash]

NormalAdmitted(type, d, u, at) ==
  /\ type = currentState + 1
  /\ type = USER_CONFIRMED => conditionHash # None
  /\ type = INSTITUTION_APPROVED => ApprovalDataMatches(d, u, at, 1)
  /\ type = X402_REQUIRED => ApprovalActive(at) /\ ApprovalReferenceMatches(d)
  /\ type = DEVNET_PROOF_FINALIZED => X402Matches(d)
  /\ type = SUPPLIER_ORDER_SUBMITTED => SupplierBindingMatches(d, at)

\* Mutant: off by one, an approval may still be withdrawn once it is ordered on.
InvalidableOnceOrdered ==
  currentState \in INSTITUTION_APPROVED .. SUPPLIER_ORDER_SUBMITTED
Invalidable == currentState \in INSTITUTION_APPROVED .. DEVNET_PROOF_FINALIZED

\* An invalidation is admitted at every stage, in the middle of a revalidation
\* too; a rebinding is not held back by the expiry of the approval.
AuxiliaryAdmitted(type, d, u, at) ==
  \/ type = RETRY_SCHEDULED
  \/ type = APPROVAL_INVALIDATED /\ Invalidable
  \/ type = POLICY_REEVALUATED /\ revalidationStage = "INVALIDATED"
  \/ type = USER_RECONFIRMED /\ revalidationStage = "POLICY"
  \/ /\ type = INSTITUTION_REAPPROVED /\ revalidationStage = "USER"
     /\ ApprovalDataMatches(d, u, at, approvalRevision + 1)
  \/ /\ type = X402_REBOUND /\ revalidationStage = "INSTITUTION"
     /\ ApprovalReferenceMatches(d)
  \/ /\ type = DEVNET_PROOF_REFINALIZED /\ revalidationStage = "X402"
     /\ X402Matches(d)

Admitted(type, d, u, at) ==
  \/ type = PHONE_CONNECTED /\ currentState = NoCase
  \/ /\ currentState # NoCase
     /\ \/ Normal(type) /\ NormalAdmitted(type, d, u, at)
        \/ AuxiliaryAdmitted(type, d, u, at)
-----------------------------------------------------------------------------
(***************************************************************************)
(* applyAcceptedEvent: one operator per group of events that write the     *)
(* same fields.                                                            *)
(***************************************************************************)
StageAfter(type) ==
  CASE type = APPROVAL_INVALIDATED   -> "INVALIDATED"
    [] type = POLICY_REEVALUATED     -> "POLICY"
    [] type = USER_RECONFIRMED       -> "USER"
    [] type = INSTITUTION_REAPPROVED -> "INSTITUTION"
    [] type = X402_REBOUND           -> "X402"
    [] type \in {INSTITUTION_APPROVED, DEVNET_PROOF_REFINALIZED} -> "NONE"
    [] OTHER -> revalidationStage

\* Mutant: a new policy run does not send the case back to the recipient.
MovedPastUser(type) ==
  /\ currentState' = IF Normal(type) THEN type ELSE currentState
  /\ revalidationStage' = IF type = POLICY_REEVALUATED THEN "USER" ELSE StageAfter(type)
\* Mutant: a renewed approval is taken for the end of the revalidation.
MovedPastPayment(type) ==
  /\ currentState' = IF Normal(type) THEN type ELSE currentState
  /\ revalidationStage' = IF type = INSTITUTION_REAPPROVED THEN "NONE" ELSE StageAfter(type)
Moved(type) ==
  /\ currentState' = IF Normal(type) THEN type ELSE currentState
  /\ revalidationStage' = StageAfter(type)

\* Events that record evidence and bind nothing.
EvidenceOnly(type) ==
  /\ type \in {PHONE_CONNECTED, INTENT_INTERPRETED, SHIPPED, DELIVERED,
               RECIPIENT_CONFIRMED, RETRY_SCHEDULED}
  /\ UNCHANGED <<approvalInvalidated, conditionHash, userConfirmed, approvalRevision,
                 approvalValidUntil, x402, devnet, supplierConfirmed, histVars>>

PolicyRun(type, d) ==
  /\ type \in {POLICY_EVALUATED, POLICY_REEVALUATED}
  /\ conditionHash' = d.condition
  /\ UNCHANGED <<approvalInvalidated, userConfirmed, approvalRevision, approvalValidUntil,
                 x402, devnet, supplierConfirmed, histVars>>

UserConfirmation(type) ==
  /\ type \in {USER_CONFIRMED, USER_RECONFIRMED}
  /\ userConfirmed' = TRUE
  /\ confirmedCondition' = conditionHash
  /\ UNCHANGED <<approvalInvalidated, conditionHash, approvalRevision, approvalValidUntil,
                 x402, devnet, supplierConfirmed, approvals, ordered, invalidations>>

\* Mutant: the revision written is the next one, not the approved one.
InstitutionApprovalNext(type, d, u) ==
  /\ type \in {INSTITUTION_APPROVED, INSTITUTION_REAPPROVED}
  /\ approvalRevision' = d.revision + 1
  /\ approvalValidUntil' = u
  /\ conditionHash' = d.condition
  /\ approvalInvalidated' = FALSE
  /\ approvals' = Append(approvals, d.condition)
  /\ UNCHANGED <<userConfirmed, x402, devnet, supplierConfirmed, confirmedCondition,
                 ordered, invalidations>>
InstitutionApproval(type, d, u) ==
  /\ type \in {INSTITUTION_APPROVED, INSTITUTION_REAPPROVED}
  /\ approvalRevision' = d.revision
  /\ approvalValidUntil' = u
  /\ conditionHash' = d.condition
  /\ approvalInvalidated' = FALSE
  /\ approvals' = Append(approvals, d.condition)
  /\ UNCHANGED <<userConfirmed, x402, devnet, supplierConfirmed, confirmedCondition,
                 ordered, invalidations>>

Invalidation(type) ==
  /\ type = APPROVAL_INVALIDATED
  /\ approvalInvalidated' = TRUE
  /\ invalidations' = invalidations + 1
  /\ UNCHANGED <<conditionHash, userConfirmed, approvalRevision, approvalValidUntil,
                 x402, devnet, supplierConfirmed, confirmedCondition, approvals, ordered>>

PaymentRequirement(type, d) ==
  /\ type \in {X402_REQUIRED, X402_REBOUND}
  /\ x402' = d
  /\ UNCHANGED <<approvalInvalidated, conditionHash, userConfirmed, approvalRevision,
                 approvalValidUntil, devnet, supplierConfirmed, histVars>>

PaymentProof(type, d) ==
  /\ type \in {DEVNET_PROOF_FINALIZED, DEVNET_PROOF_REFINALIZED}
  /\ devnet' = d
  /\ UNCHANGED <<approvalInvalidated, conditionHash, userConfirmed, approvalRevision,
                 approvalValidUntil, x402, supplierConfirmed, histVars>>

SupplierOrder(type, d) ==
  /\ type = SUPPLIER_ORDER_SUBMITTED
  /\ ordered' = d
  /\ UNCHANGED <<approvalInvalidated, conditionHash, userConfirmed, approvalRevision,
                 approvalValidUntil, x402, devnet, supplierConfirmed, confirmedCondition,
                 approvals, invalidations>>

SupplierConfirmation(type) ==
  /\ type = SUPPLIER_CONFIRMED
  /\ supplierConfirmed' = TRUE
  /\ UNCHANGED <<approvalInvalidated, conditionHash, userConfirmed, approvalRevision,
                 approvalValidUntil, x402, devnet, histVars>>

Apply(type, d, u) ==
  /\ Moved(type)
  /\ \/ EvidenceOnly(type)
     \/ PolicyRun(type, d)
     \/ UserConfirmation(type)
     \/ InstitutionApproval(type, d, u)
     \/ Invalidation(type)
     \/ PaymentRequirement(type, d)
     \/ PaymentProof(type, d)
     \/ SupplierOrder(type, d)
     \/ SupplierConfirmation(type)
-----------------------------------------------------------------------------
\* The bound on invalidations is the model's; the code has none.
WithinBound(type) == type = APPROVAL_INVALIDATED => invalidations < MaxInvalidations

AcceptEvent(type, d, u, at) ==
  /\ WithinBound(type)
  /\ Admitted(type, d, u, at)
  /\ Apply(type, d, u)

ProcNext == \E type \in EventType, d \in Bindings, u, at \in Times :
              AcceptEvent(type, d, u, at)

ProcSpec == ProcInit /\ [][ProcNext]_procVars
-----------------------------------------------------------------------------
(***************************************************************************)
(* Fairness: each party of the procedure (policy engine, recipient,        *)
(* institution, facilitator, chain, supplier, carrier) sends the command   *)
(* its step needs, and sends it while the approval is valid, as long as    *)
(* the ledger would accept it.  Nobody has to invalidate or to retry.      *)
(***************************************************************************)
ProgressTypes == EventType \ {RETRY_SCHEDULED, APPROVAL_INVALIDATED}

AcceptOfType(type) == \E d \in Bindings, u, at \in Times : AcceptEvent(type, d, u, at)

FairProcSpec == ProcSpec /\ \A type \in ProgressTypes : WF_procVars(AcceptOfType(type))
-----------------------------------------------------------------------------
(***************************************************************************)
(* Properties.                                                             *)
(***************************************************************************)

\* What the supplier is asked for is what everybody agreed to: the condition
\* the recipient last confirmed, the institution's latest approval, and the
\* payment requirement and the finalized proof of that same revision
\* (supplierBindingRejection, over every history of revalidations).
OrderedAsAgreed ==
  ordered # Unbound =>
    /\ ordered.revision = Len(approvals)
    /\ ordered.condition = approvals[Len(approvals)]
    /\ ordered.condition = confirmedCondition
    /\ x402 = ordered /\ devnet = ordered

\* Every payment requirement and every proof on record is bound to the very
\* condition the institution approved under that revision, superseded
\* revisions and invalidated approvals included.
BindingsMatchApprovals ==
  \A b \in {x402, devnet} \ {Unbound} :
    b.revision \in 1 .. Len(approvals) /\ b.condition = approvals[b.revision]

\* From the supplier order on no event changes what was agreed: not a late
\* invalidation, and not the rebinding that is still admitted when the normal
\* sequence overtook an unfinished revalidation.
Terms == <<conditionHash, confirmedCondition, approvals, approvalRevision,
           approvalValidUntil, approvalInvalidated, x402, devnet, ordered>>
TermsFrozenOnceOrdered == [][ordered # Unbound => UNCHANGED Terms]_procVars

\* The institution approves, at first and again, only a condition the
\* recipient has confirmed since it last changed.
ApprovalAfterConsent ==
  [][approvals' # approvals => approvals'[Len(approvals')] = confirmedCondition]_procVars

\* However often an approval is invalidated, and wherever the case stands, the
\* revalidation can be finished: the case reaches the recipient's confirmation.
CaseCompletes == <>(currentState = RECIPIENT_CONFIRMED)
-----------------------------------------------------------------------------
(***************************************************************************)
(* The inductive invariant behind them.  The stage says exactly whether    *)
(* the approval is invalidated, and that only happens between the          *)
(* institution's approval and the supplier order, so that no event that    *)
(* changes the condition is admitted once the order is out.                *)
(***************************************************************************)
StageAgrees ==
  /\ approvalInvalidated <=> revalidationStage \in {"INVALIDATED", "POLICY", "USER"}
  /\ approvalInvalidated => currentState \in INSTITUTION_APPROVED .. DEVNET_PROOF_FINALIZED
  /\ revalidationStage # "NONE" => currentState >= INSTITUTION_APPROVED

ApprovalsCounted ==
  /\ Len(approvals) = approvalRevision
  /\ approvalRevision >= 1 <=> currentState >= INSTITUTION_APPROVED

ConsentCurrent ==
  currentState >= USER_CONFIRMED /\ revalidationStage \notin {"INVALIDATED", "POLICY"}
    => confirmedCondition = conditionHash

ApprovalCurrent ==
  approvalRevision >= 1 /\ ~approvalInvalidated
    => conditionHash = approvals[approvalRevision]

ProofAfterRequirement == devnet.revision <= x402.revision

OrderBound ==
  /\ ordered # Unbound <=> currentState >= SUPPLIER_ORDER_SUBMITTED
  /\ ordered # Unbound =>
       /\ ordered = [revision |-> approvalRevision, condition |-> conditionHash]
       /\ devnet = ordered
       /\ x402 = ordered

ProcInv ==
  /\ StageAgrees
  /\ ApprovalsCounted
  /\ ConsentCurrent
  /\ ApprovalCurrent
  /\ BindingsMatchApprovals
  /\ ProofAfterRequirement
  /\ OrderBound
=============================================================================
