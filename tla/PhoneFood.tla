----------------------------- MODULE PhoneFood -----------------------------
(***************************************************************************)
(* A food order by telephone: src/food-support/phoneFoodCoordinator.ts and *)
(* the direct order src/app.ts gives it, composed with the canonical case  *)
(* ledger of module CaseLedger, for one call.                              *)
(*                                                                         *)
(* The voice agent sends webhooks (begin, interpret, select, confirm) that *)
(* may be repeated, late or concurrent.  A job is one of them; each action *)
(* takes it over one await, and it may stop for good before any of them    *)
(* (Stop): the process crashed, a service threw, a confirmation expired.   *)
(* It reads the phone record once, at the beginning, and its writes only   *)
(* succeed while the record has that revision; the case it reads anew for  *)
(* every transition.                                                       *)
(*                                                                         *)
(* Terms stand for goods, seller, quantity, price and policy snapshot      *)
(* together: what the policy event, the confirmation and the order all     *)
(* hash.  They and the utterances are the conditions of CaseLedger; every  *)
(* event type has one idempotency key, so a key is its type.               *)
(***************************************************************************)
EXTENDS CaseLedger

CONSTANTS
  Utterances,    \* what the caller may ask for, by hash
  Offers,        \* the terms the catalogue may offer for a selection, by hash
  CallId,        \* the call's id, by hash
  Jobs,
  MaxRevision    \* bound on the revisions of the phone record

ASSUME PhoneConditions == Utterances \cup Offers \cup {CallId} \subseteq Conditions
ASSUME PhoneKeys == Keys = {PHONE_CONNECTED, INTENT_INTERPRETED, POLICY_EVALUATED, USER_CONFIRMED}
ASSUME RevisionAssumption == MaxRevision \in Nat

VARIABLES
  case,          \* the case document, or None
  phone,         \* the phone record, or None
  execution,     \* the paid order's execution record, or None
  supplierOrder, \* external: whether the supplier has taken the order
  termsChanged,  \* whether the caller was told that the terms have changed
  job

docVars   == <<case, phone>>
orderVars == <<execution, supplierOrder, termsChanged>>
phoneVars == <<vars, docVars, orderVars, job>>

CaseState == {"CALL_CONNECTED", "NEEDS_CLARIFICATION", "POLICY_BLOCKED", "INTERPRETED",
  "AWAITING_CONFIRMATION", "USER_REJECTED", "CONFIRMED", "ORDER_SUBMITTING",
  "ORDER_REVIEW_REQUIRED", "ORDERED"}
PhoneStatus == {"STARTED", "NEEDS_CLARIFICATION", "BLOCKED", "CANDIDATES_READY",
  "AWAITING_CONFIRMATION", "ORDER_SUBMITTING", "ORDER_REVIEW_REQUIRED", "ORDERED",
  "CONFIRMED", "CANCELLED"}
Kinds == {"BEGIN", "INTERPRET", "SELECT", "CONFIRM", "CANCEL", "RECONCILE"}
Steps == {"open", "create", "enrol", "value", "consume", "hold", "advance", "execute", "conflict",
          "submit", "submitting", "preview", "claim", "post", "rollup", "record",
          "transition", "save"}

Case  == [state : CaseState, candidate : Offers \cup {None}, commitment : Offers \cup {None},
          ordered : BOOLEAN]
Phone == [revision : Nat, status : PhoneStatus, candidates : BOOLEAN, caller : BOOLEAN,
          ordered : BOOLEAN]
Execution == [terms : Offers, status : {"IN_FLIGHT", "COMPLETED"}]
\* revision, ordered: of the phone record as read; terms: the utterance or the
\* terms at hand; expected: the tail read; state, status: what is to be written.
Job == [kind : Kinds, step : Steps, revision : Nat, ordered : BOOLEAN,
        terms : Conditions \cup {None}, expected : Nat,
        state : CaseState, status : PhoneStatus]

ASSUME NoDocumentAssumption == None \notin Case \cup Phone \cup Execution \cup Job

PhoneTypeOK ==
  /\ LedgerTypeOK
  /\ case \in Case \cup {None}
  /\ phone \in Phone \cup {None}
  /\ execution \in Execution \cup {None}
  /\ supplierOrder \in BOOLEAN
  /\ termsChanged \in BOOLEAN
  /\ job \in [Jobs -> Job \cup {None}]

PhoneInit ==
  /\ Init
  /\ case = None
  /\ phone = None
  /\ execution = None
  /\ supplierOrder = FALSE
  /\ termsChanged = FALSE
  /\ job = [j \in Jobs |-> None]
-----------------------------------------------------------------------------
At(j, step)   == job[j] # None /\ job[j].step = step
Goto(j, step) == job' = [job EXCEPT ![j].step = step, ![j].expected = 0]
Done(j)       == job' = [job EXCEPT ![j] = None]

Start(kind, step, terms, state, status) ==
  \E j \in Jobs :
    /\ job[j] = None
    /\ job' = [job EXCEPT ![j] =
         [kind |-> kind, step |-> step, terms |-> terms, expected |-> 0,
          revision |-> IF phone = None THEN 0 ELSE phone.revision,
          ordered |-> phone # None /\ phone.ordered, state |-> state, status |-> status]]
    /\ UNCHANGED <<vars, docVars, orderVars>>

\* What is written at the end of a job that goes on from an answer.
Ending(j, step, state, status) ==
  job' = [job EXCEPT ![j].step = step, ![j].expected = 0, ![j].state = state,
                     ![j].status = status]
-----------------------------------------------------------------------------
(***************************************************************************)
(* The webhooks.                                                           *)
(***************************************************************************)
\* begin; a case that exists has its ledger open, and nothing is written.
Begin == case = None /\ Start("BEGIN", "open", None, "CALL_CONNECTED", "STARTED")

\* interpret: the catalogue has goods that may be ordered ...
GoodsFound ==
  \E u \in Utterances : Start("INTERPRET", "advance", u, "INTERPRETED", "CANDIDATES_READY")

\* ... or it has none, or the utterance is unclear or not to be served.
Interpret ==
  /\ phone # None
  /\ \/ Start("INTERPRET", "transition", None, "NEEDS_CLARIFICATION", "NEEDS_CLARIFICATION")
     \/ Start("INTERPRET", "transition", None, "POLICY_BLOCKED", "BLOCKED")
     \/ GoodsFound

\* select: approved at the terms of the moment ...
Approved ==
  \E t \in Offers :
    Start("SELECT", "advance", t, "AWAITING_CONFIRMATION", "AWAITING_CONFIRMATION")

\* ... or there is no budget, or the policy refuses.
Select ==
  /\ phone # None /\ phone.candidates
  /\ \/ Start("SELECT", "transition", None, "NEEDS_CLARIFICATION", "NEEDS_CLARIFICATION")
     \/ Start("SELECT", "transition", None, "POLICY_BLOCKED", "BLOCKED")
     \/ Approved

\* confirm, with digit 1 or 2.
Confirm ==
  /\ phone # None
  /\ \/ Start("CONFIRM", "value", None, "ORDERED", "ORDERED")
     \/ Start("CANCEL", "value", None, "USER_REJECTED", "CANCELLED")

\* order-reconcile-direct: the operator found the order at the supplier, or it
\* is already recorded.
ReconcileDirect ==
  /\ execution # None /\ supplierOrder
  /\ Start("RECONCILE", "rollup", None, "ORDERED", "ORDERED")

Stop(j) == job[j] # None /\ Done(j) /\ UNCHANGED <<vars, docVars, orderVars>>
-----------------------------------------------------------------------------
(***************************************************************************)
(* The steps that several webhooks share.                                  *)
(***************************************************************************)
\* Mutant: the patch of the selection goes with every transition.
TransitionPatched(j, next, then) ==
  /\ IF case.state = next THEN UNCHANGED case
     ELSE case' = [case EXCEPT !.state = next, !.candidate = job[j].terms]
  /\ Goto(j, then)
  /\ UNCHANGED <<vars, phone, orderVars>>
\* coordinator.transition: cases.transition compares only the state, which was
\* read just before; a case in another state by then makes it throw (Stop).  So
\* no state is refused, the case is taken on from wherever it is.  A transition
\* to the state the case is in compares the patch, and the candidate by object
\* identity: selecting once more always throws.  (A refusal also replaces the
\* case's policySnapshotHash; a confirmation after that conflicts in the ledger,
\* which is a Stop here.)
TransitionTo(j, next, then) ==
  /\ IF case.state = next
     THEN /\ IF next = "AWAITING_CONFIRMATION" THEN Done(j) ELSE Goto(j, then)
          /\ UNCHANGED case
     ELSE /\ case' = [case EXCEPT
               !.state = next,
               !.candidate = IF next = "AWAITING_CONFIRMATION" THEN job[j].terms ELSE @,
               !.ordered = @ \/ next = "ORDERED"]
          /\ Goto(j, then)
  /\ UNCHANGED <<vars, phone, orderVars>>

Transition(j) == At(j, "transition") /\ TransitionTo(j, job[j].state, "save")

\* Mutant: the revision that was read is not compared.
SaveBlindly(j, status) ==
  /\ phone' = [phone EXCEPT !.revision = @ + 1, !.status = status,
       !.candidates = status = "CANDIDATES_READY" \/ @,
       !.ordered = job[j].ordered \/ status = "ORDERED"]
  /\ UNCHANGED <<vars, case, orderVars>>
\* phoneCases.save of the record as read, with the next revision; throws unless
\* that is still the record's own.  An utterance that leads nowhere empties the
\* candidates, everything else keeps them.
SavePhone(j, status) ==
  /\ phone.revision = job[j].revision
  /\ phone' = [phone EXCEPT
       !.revision = @ + 1,
       !.status = status,
       !.candidates = status = "CANDIDATES_READY" \/ (@ /\ job[j].kind # "INTERPRET"),
       !.ordered = @ \/ status = "ORDERED"]
  /\ UNCHANGED <<vars, case, orderVars>>

\* The last write of every webhook.
Save(j) == At(j, "save") /\ SavePhone(j, job[j].status) /\ Done(j)

\* The ledger event of each webhook.
EventOf(j) == CASE job[j].kind = "INTERPRET" -> INTENT_INTERPRETED
                [] job[j].kind = "SELECT"    -> POLICY_EVALUATED
                [] OTHER                     -> USER_CONFIRMED
\* ... and whom the coordinator names as its origin; its own bridge, not the
\* model, interprets the words.
From(actor, source) == [actor |-> actor, source |-> source, attested |-> TRUE]
OriginOf(type) ==
  CASE type = PHONE_CONNECTED    -> From("PHONE_PROVIDER", "CLAWOPS")
    [] type = INTENT_INTERPRETED -> From("SYSTEM", "SYSTEM")
    [] type = POLICY_EVALUATED   -> From("POLICY_ENGINE", "DETERMINISTIC_POLICY")
    [] OTHER                     -> From("RECIPIENT", "DTMF")
Command(type, hash, expected) ==
  [type |-> type, key |-> type, data |-> [revision |-> 0, condition |-> hash], until |-> 0,
   at |-> 0, origin |-> OriginOf(type), expected |-> expected]

\* A caller who is not enrolled gets no order.
ConfirmedOnly(j) == Ending(j, "save", job[j].state, "CONFIRMED")

\* Where the job goes once its event is in the ledger.
AfterEvent(j) ==
  CASE job[j].kind # "CONFIRM"                   -> Goto(j, "transition")
    [] job[j].kind = "CONFIRM" /\ job[j].ordered -> Done(j)
    [] job[j].kind = "CONFIRM" /\ ~job[j].ordered /\ phone.caller -> Goto(j, "submit")
    [] OTHER -> ConfirmedOnly(j)

\* Mutant: an event that is already there is not compared.
AdvanceUncompared(j) ==
  /\ At(j, "advance")
  /\ IF currentState >= EventOf(j) THEN AfterEvent(j)
     ELSE job' = [job EXCEPT ![j].expected = LastEventHash, ![j].step = "execute"]
  /\ UNCHANGED <<vars, docVars, orderVars>>
\* advanceCanonicalOnce reads the aggregate: a case that is past the event must
\* have it with the same data (assertCanonicalEventMatches).
Advance(j) ==
  /\ At(j, "advance")
  /\ IF currentState >= EventOf(j)
     THEN IF \E i \in DOMAIN log : /\ Accepted(log[i]) /\ log[i].id.type = EventOf(j)
                                   /\ log[i].data.condition = job[j].terms
          THEN AfterEvent(j)
          ELSE Goto(j, "conflict")
     ELSE job' = [job EXCEPT ![j].expected = LastEventHash, ![j].step = "execute"]
  /\ UNCHANGED <<vars, docVars, orderVars>>

\* Mutant: a refused command is not told from an accepted one.
CommandTakenAlways(cmd) == TRUE
\* assertCanonicalAccepted: ACCEPTED, or REPLAYED, which is also the answer to a
\* command that was refused when it was first sent.
CommandTaken(cmd) ==
  IF Known(cmd.key) THEN idempotency[cmd.key].hash = SemanticHash(cmd) ELSE Acceptable(cmd)

\* ... and sends the command, which a later tail makes STALE_TAIL: refused, and
\* its key used up.
ExecuteCommand(j) ==
  LET cmd == Command(EventOf(j), job[j].terms, job[j].expected) IN
    /\ At(j, "execute")
    /\ Execute(cmd)
    /\ IF CommandTaken(cmd) THEN AfterEvent(j) ELSE Done(j)
    /\ UNCHANGED <<docVars, orderVars>>

\* 400, "conflicts with the existing case evidence".
Conflict(j) == At(j, "conflict") /\ Done(j) /\ UNCHANGED <<vars, docVars, orderVars>>
-----------------------------------------------------------------------------
(***************************************************************************)
(* begin.                                                                  *)
(***************************************************************************)
OpenCanonicalCase(j) ==
  /\ At(j, "open")
  /\ IF Opened THEN UNCHANGED vars
     ELSE Execute(Command(PHONE_CONNECTED, CallId, 0))
  /\ Goto(j, "create")
  /\ UNCHANGED <<docVars, orderVars>>

\* cases.create throws if the case is there by now.
Create(j) ==
  /\ At(j, "create") /\ case = None
  /\ case' = [state |-> "CALL_CONNECTED", candidate |-> None, commitment |-> None,
              ordered |-> FALSE]
  /\ Goto(j, "enrol")
  /\ UNCHANGED <<vars, phone, orderVars>>

\* The first phone record; the caller is enrolled or not.
Enrol(j) ==
  /\ At(j, "enrol")
  /\ \E caller \in BOOLEAN :
       phone' = [revision |-> 1, status |-> "STARTED", candidates |-> FALSE,
                 caller |-> caller, ordered |-> FALSE]
  /\ Done(j)
  /\ UNCHANGED <<vars, case, orderVars>>
-----------------------------------------------------------------------------
(***************************************************************************)
(* confirm.                                                                *)
(***************************************************************************)
\* The case is read after the phone record; what digit 1 confirms, and what is
\* ordered in the end, is its candidate as of now.
Value(j) ==
  /\ At(j, "value")
  /\ CASE job[j].kind = "CANCEL" /\ case.state = "AWAITING_CONFIRMATION" -> Goto(j, "transition")
       [] /\ job[j].kind = "CONFIRM" /\ case.candidate # None
          /\ case.state \in {"AWAITING_CONFIRMATION", "CONFIRMED", "ORDER_SUBMITTING"} ->
            job' = [job EXCEPT ![j].terms = case.candidate,
              ![j].step = IF case.state = "AWAITING_CONFIRMATION" THEN "consume" ELSE "advance"]
       [] OTHER -> Done(j)
  /\ UNCHANGED <<vars, docVars, orderVars>>

\* consumeConfirmation: once per case, whatever becomes of it.
ConsumeConfirmation(j) ==
  /\ At(j, "consume")
  /\ IF case.state = "AWAITING_CONFIRMATION" /\ case.commitment = None
     THEN /\ case' = [case EXCEPT !.state = "CONFIRMED", !.commitment = job[j].terms]
          /\ Goto(j, "hold")
     ELSE Done(j) /\ UNCHANGED case
  /\ UNCHANGED <<vars, phone, orderVars>>

Hold(j) ==
  /\ At(j, "hold")
  /\ SavePhone(j, "ORDER_SUBMITTING")
  /\ job' = [job EXCEPT ![j].revision = @ + 1, ![j].step = "advance"]

\* beforeSubmit: by the time the case is taken to ORDER_SUBMITTING it may have
\* left CONFIRMED.
Submit(j) ==
  /\ At(j, "submit")
  /\ Goto(j, IF case.state = "CONFIRMED" THEN "submitting" ELSE "preview")
  /\ UNCHANGED <<vars, docVars, orderVars>>
Submitting(j) == At(j, "submitting") /\ TransitionTo(j, "ORDER_SUBMITTING", "preview")

\* ORDER_TERMS_CHANGED: the caller is to choose again.
TellTermsChanged(j) ==
  /\ termsChanged' = TRUE
  /\ Ending(j, "transition", "NEEDS_CLARIFICATION", "NEEDS_CLARIFICATION")

\* submitConfirmedOrder previews the order anew, at the terms of the moment,
\* which must be the confirmed ones (phoneOrderTermsMatch); throws for an
\* ORDERED case.
Preview(j) ==
  /\ At(j, "preview") /\ case.state # "ORDERED"
  /\ \/ Goto(j, "claim") /\ UNCHANGED termsChanged
     \/ TellTermsChanged(j)
  /\ UNCHANGED <<vars, docVars, execution, supplierOrder>>

\* order-submit-direct, of which module PaidOrder has the details: one claim per
\* case.  Every preview makes another consent, so a second claim conflicts and
\* throws; within one millisecond it is IN_FLIGHT, and confirm ends as well.
Claim(j) ==
  /\ At(j, "claim")
  /\ IF execution = None
     THEN /\ execution' = [terms |-> job[j].terms, status |-> "IN_FLIGHT"]
          /\ Goto(j, "post")
     ELSE Done(j) /\ UNCHANGED execution
  /\ UNCHANGED <<vars, docVars, supplierOrder, termsChanged>>

\* What the webhook records of the order: it was taken, or nobody knows.
RecordOrdered(j) ==
  Ending(j, IF job[j].kind = "RECONCILE" THEN "record" ELSE "transition", "ORDERED", "ORDERED")
RecordReviewRequired(j) == Ending(j, "transition", "ORDER_REVIEW_REQUIRED", "ORDER_REVIEW_REQUIRED")

\* The supplier takes the order or not, and its answer arrives or not.
Post(j) ==
  /\ At(j, "post")
  /\ \/ /\ supplierOrder' = TRUE
        /\ execution' = [execution EXCEPT !.status = "COMPLETED"]
        /\ Goto(j, "rollup")
     \/ /\ supplierOrder' \in {supplierOrder, TRUE}
        /\ RecordReviewRequired(j)
        /\ UNCHANGED execution
  /\ UNCHANGED <<vars, docVars, termsChanged>>

\* The order handler takes the case to ORDERED, from whatever state it is in.
Rollup(j) ==
  /\ At(j, "rollup")
  /\ execution' = [execution EXCEPT !.status = "COMPLETED"]
  /\ case' = [case EXCEPT !.state = "ORDERED", !.ordered = TRUE]
  /\ RecordOrdered(j)
  /\ UNCHANGED <<vars, phone, supplierOrder, termsChanged>>

\* rollupReconciledOrder: then the phone record, as it is by now.
RecordReconciled(j) ==
  /\ At(j, "record")
  /\ phone' = IF phone.status = "ORDERED" THEN phone
              ELSE [phone EXCEPT !.revision = @ + 1, !.status = "ORDERED", !.ordered = TRUE]
  /\ Done(j)
  /\ UNCHANGED <<vars, case, orderVars>>
-----------------------------------------------------------------------------
\* A bound of the model: no webhook comes once a counter is at its limit.
Webhook == /\ phone # None => phone.revision < MaxRevision
           /\ Len(log) < MaxLog
           /\ Begin \/ Interpret \/ Select \/ Confirm \/ ReconcileDirect

Work(j) ==
  \/ OpenCanonicalCase(j) \/ Create(j) \/ Enrol(j) \/ Value(j) \/ ConsumeConfirmation(j) \/ Hold(j)
  \/ Advance(j) \/ ExecuteCommand(j) \/ Submit(j) \/ Submitting(j) \/ Preview(j) \/ Claim(j)
  \/ Post(j) \/ Rollup(j) \/ RecordReconciled(j) \/ Transition(j) \/ Save(j) \/ Conflict(j)

PhoneNext == Webhook \/ \E j \in Jobs : Work(j) \/ Stop(j)

PhoneSpec == PhoneInit /\ [][PhoneNext]_phoneVars
-----------------------------------------------------------------------------
(***************************************************************************)
(* Properties.                                                             *)
(***************************************************************************)
\* However webhooks repeat, race and stop: once a case has a candidate it never
\* has another one, and it is confirmed once, for that candidate.  Transitions
\* and consumeConfirmation guard neither; what does is that a case has one
\* policy key, so all selections that pass the ledger carry the same terms.
AgreementIsFinal ==
  [][case # None =>
       /\ case.candidate # None => case'.candidate = case.candidate
       /\ case.commitment # None => case'.commitment = case.commitment
       /\ case'.commitment # case.commitment => case'.commitment = case'.candidate]_phoneVars

\* What is claimed for payment is what the caller confirmed, what the case says
\* and what the ledger's policy key stands for, though the coordinator reads the
\* case, confirms and orders in separate steps.
OrderedAsConfirmed ==
  execution # None =>
    /\ case.commitment = execution.terms /\ case.candidate = execution.terms
    /\ Known(POLICY_EVALUATED)
    /\ idempotency[POLICY_EVALUATED].hash.data.condition = execution.terms
    /\ Known(USER_CONFIRMED)
    /\ idempotency[USER_CONFIRMED].hash.data.condition = execution.terms

\* An order that reached the phone record or the case is never lost from it
\* again, though every webhook writes back the whole record it read (status
\* answers supplierOrderExecuted from it), and neither has one the supplier has
\* not taken.
OrderNeverForgotten ==
  [][/\ phone # None /\ phone.ordered => phone'.ordered
     /\ case # None /\ case.ordered => case'.ordered
     /\ phone' # None /\ phone'.ordered => supplierOrder' /\ case'.ordered]_phoneVars

\* After ORDER_TERMS_CHANGED the caller is told to choose the product again
\* (confirm, "please choose the product again"): a selection that began on the
\* record that says so is not refused for contradicting what was chosen before.
MayChooseAgain ==
  \A j \in Jobs :
    /\ At(j, "conflict") /\ job[j].kind = "SELECT"
    /\ termsChanged /\ phone.status = "NEEDS_CLARIFICATION"
    => job[j].revision # phone.revision

=============================================================================
