----------------------------- MODULE PaidOrder -----------------------------
(***************************************************************************)
(* Ordering a case's food from the supplier with the beneficiary's budget: *)
(* the handlers of src/http/specialOfferOrderRoutes.ts, the order adapter  *)
(* and its execution store, the approval inbox, the rollup into the case,  *)
(* and the budget ledger of module BudgetLedger.                           *)
(*                                                                         *)
(* Any number of requests for a case run at the same time.  A job is one   *)
(* of them; it goes from await to await, each step being one read or one   *)
(* transaction, and it may stop for good before any of them (Stop): the    *)
(* process crashed, or a service it called threw.  The stores survive.     *)
(*                                                                         *)
(* An offer is the terms the supplier gives for the case's product: goods, *)
(* quantity, price, hence the policy snapshot and the budget fingerprint.  *)
(* A consent is one preview of an offer: its commitment covers the expiry, *)
(* so each preview makes another one, and the fingerprint of an order      *)
(* covers the consent.  That a consent, an approval or a session expires   *)
(* only makes a job stop.                                                  *)
(*                                                                         *)
(* The supplier's orders are one space of ids for the whole account: those *)
(* of this case, of other cases, and those placed in another way.  Of the  *)
(* case's state it matters whether it is ORDERED, which is all that the    *)
(* duplicate check reads; the phone moves its cases out of it again.       *)
(***************************************************************************)
EXTENDS BudgetLedger, Sequences

CONSTANTS
  Offers,
  Price,         \* the total of an offer
  Allocation,    \* remainingKrw of the cases' budget
  Jobs,
  Requests,      \* ids of approval requests
  OtherOrders,   \* external: the account's orders that are of none of the cases
  MaxConsents    \* bound: previews per case

ASSUME OfferAssumption == Offers = Fingerprints /\ Price \in [Offers -> Nat \ {0}]
ASSUME BoundAssumption == MaxConsents \in Nat /\ Allocation \in Nat

VARIABLES
  offer,       \* what the supplier offers for the case's product now
  consents,    \* the offers of the consents minted for the case
  execution,   \* the record of the execution store, or None
  orders,      \* external: the orders the supplier has taken for the case
  approvals,   \* the approval inbox, None for an id not in use
  candidate,   \* the offer the case was confirmed for, or None
  state,       \* whether the case is ORDERED or in another state
  phone,       \* the cases that came from the phone
  caseOrder,   \* providerOrderId: the supplier order the case names, or None
  acknowledged,\* the merchant's workflow has acknowledged the order
  job

caseVars  == <<candidate, state, phone, caseOrder, acknowledged>>
storeVars == <<consents, execution, orders, approvals, caseVars>>
orderVars == <<offer, storeVars, job>>
vars      == <<budgetVars, orderVars>>

Kinds == {"SUBMIT", "DIRECT", "REQUEST", "EXECUTE", "REFRESH", "RECONCILE", "RECONCILE_DIRECT"}
Steps == {"prepare", "check", "reserve", "claim", "post", "complete", "commit", "rollup",
          "acknowledge", "phone", "create", "replace", "lookup", "reprepare", "settle",
          "submitted", "review", "failed"}
ApprovalStatus == {"PENDING", "SUBMITTED", "RECONCILIATION_REQUIRED", "FAILED", "REPLACED"}

\* ExternalOrderReadback: the case it was placed for is not among what the
\* supplier tells of an order (parseOrderReadback), and no handler reads it.
Orders == [of : Cases \cup {None}, no : Nat, terms : Offers]
\* offer: the terms the job prepared; order: the supplier order it knows of.
Job == [kind : Kinds, case : Cases, consent : Nat, offer : Offers \cup {None},
        order : Orders \cup {None}, request : Requests \cup {None}, step : Steps]
Executions == [consent : Nat, status : {"IN_FLIGHT", "COMPLETED"}, order : Orders \cup {None}]
Approvals  == [case : Cases, consent : Nat, status : ApprovalStatus]
ASSUME PaidNoneAssumption ==
  None \notin Cases \cup Offers \cup Orders \cup Job \cup Executions \cup Approvals
ASSUME OtherOrdersAssumption == OtherOrders \subseteq [of : {None}, no : Nat, terms : Offers]

PaidTypeOK ==
  /\ BudgetTypeOK
  /\ offer \in [Cases -> Offers]
  /\ consents \in [Cases -> Seq(Offers)]
  /\ execution \in [Cases -> Executions \cup {None}]
  /\ orders \in [Cases -> Seq(Offers)]
  /\ approvals \in [Requests -> Approvals \cup {None}]
  /\ candidate \in [Cases -> Offers \cup {None}]
  /\ state \in [Cases -> {"OPEN", "ORDERED"}]
  /\ phone \in SUBSET Cases
  /\ caseOrder \in [Cases -> Orders \cup {None}]
  /\ acknowledged \in [Cases -> BOOLEAN]
  /\ job \in [Jobs -> Job \cup {None}]

\* Cases come from the phone, with a confirmed candidate, or from the web.
Init ==
  /\ BudgetInit
  /\ offer \in [Cases -> Offers]
  /\ consents = [c \in Cases |-> <<>>]
  /\ execution = [c \in Cases |-> None]
  /\ orders = [c \in Cases |-> <<>>]
  /\ approvals = [r \in Requests |-> None]
  /\ candidate \in [Cases -> Offers \cup {None}]
  /\ phone = {c \in Cases : candidate[c] # None}
  /\ state = [c \in Cases |-> "OPEN"]
  /\ caseOrder = [c \in Cases |-> None]
  /\ acknowledged = [c \in Cases |-> FALSE]
  /\ job = [j \in Jobs |-> None]
-----------------------------------------------------------------------------
\* The job's control: it is at a step, goes on to another, or is done.
At(j, step)   == job[j] # None /\ job[j].step = step
Goto(j, step) == job' = [job EXCEPT ![j].step = step]
Done(j)       == job' = [job EXCEPT ![j] = None]
Knows(j, order, step) == job' = [job EXCEPT ![j].order = order, ![j].step = step]

\* isDuplicateCase.
Ordered(c)  == state[c] = "ORDERED"
Agreed(j)   == consents[job[j].case][job[j].consent]

\* The supplier's orders: each case's, and the others of the account.
OrdersOf(c)    == {[of |-> c, no |-> n, terms |-> orders[c][n]] : n \in DOMAIN orders[c]}
SupplierOrders == OtherOrders \cup UNION {OrdersOf(c) : c \in Cases}

\* 409 from order-submit: approval-execute takes it for a failure.
Refuse(j) == IF job[j].kind = "EXECUTE" THEN Goto(j, "failed") ELSE Done(j)
\* ORDER_RECONCILIATION_REQUIRED, which never asks for a retry.
Review(j) == IF job[j].kind = "EXECUTE" THEN Goto(j, "review") ELSE Done(j)

Start(kind, c, n, r, step) ==
  \E j \in Jobs :
    /\ job[j] = None
    /\ job' = [job EXCEPT ![j] =
         [kind |-> kind, case |-> c, consent |-> n, offer |-> None, order |-> None,
          request |-> r, step |-> step]]
-----------------------------------------------------------------------------
(***************************************************************************)
(* The requests.  order-preview, and approval-refresh-preview, mint a      *)
(* consent for the offer of the moment; every other request brings a       *)
(* consent that was minted for its case (previewProof).                    *)
(***************************************************************************)
Preview(c) ==
  /\ ~Ordered(c)
  /\ Len(consents[c]) < MaxConsents
  /\ consents' = [consents EXCEPT ![c] = Append(@, offer[c])]
  /\ UNCHANGED <<budgetVars, offer, execution, orders, approvals, caseVars, job>>

\* validPreviewProof: what was minted for this case and nothing else.
Minted(c, n) == n \in DOMAIN consents[c]

Submit(c, n) ==
  /\ Minted(c, n) /\ Start("SUBMIT", c, n, None, "prepare")
  /\ UNCHANGED <<budgetVars, offer, storeVars>>

\* The phone orders directly, and only what its caller confirmed.
SubmitDirect(c, n) ==
  /\ c \in phone /\ Minted(c, n) /\ candidate[c] = consents[c][n]
  /\ Start("DIRECT", c, n, None, "prepare")
  /\ UNCHANGED <<budgetVars, offer, storeVars>>

RequestApproval(c, n) ==
  /\ Minted(c, n) /\ Start("REQUEST", c, n, None, "prepare")
  /\ UNCHANGED <<budgetVars, offer, storeVars>>

Pending(r) == approvals[r] # None /\ approvals[r].status = "PENDING"

\* approval-execute, approval-refresh-preview and approval-refresh-confirm.
Execute(r) ==
  /\ Pending(r)
  /\ Start("EXECUTE", approvals[r].case, approvals[r].consent, r, "prepare")
  /\ UNCHANGED <<budgetVars, offer, storeVars>>

RefreshPreview(r) == Pending(r) /\ Preview(approvals[r].case)

Refresh(r, n) ==
  /\ Pending(r) /\ Minted(approvals[r].case, n)
  /\ Start("REFRESH", approvals[r].case, n, r, "prepare")
  /\ UNCHANGED <<budgetVars, offer, storeVars>>

\* order-reconcile, on a request that awaits it, and order-reconcile-direct.
Reconcile(r) ==
  /\ approvals[r] # None /\ approvals[r].status = "RECONCILIATION_REQUIRED"
  /\ Start("RECONCILE", approvals[r].case, approvals[r].consent, r, "lookup")
  /\ UNCHANGED <<budgetVars, offer, storeVars>>

ReconcileDirect(c) ==
  /\ Start("RECONCILE_DIRECT", c, 0, None, "lookup")
  /\ UNCHANGED <<budgetVars, offer, storeVars>>

Stop(j) == job[j] # None /\ Done(j) /\ UNCHANGED <<budgetVars, offer, storeVars>>

\* External: the supplier changes what it offers.
OfferChanges(c) ==
  /\ \E o \in Offers \ {offer[c]} : offer' = [offer EXCEPT ![c] = o]
  /\ UNCHANGED <<budgetVars, storeVars, job>>
-----------------------------------------------------------------------------
(***************************************************************************)
(* order-submit and order-submit-direct, await by await.                   *)
(***************************************************************************)
\* prepareOrder and the comparison with the expected commitment and total; it
\* throws for a case that is already ordered (CASE_NOT_DUPLICATE).
Prepare(j) ==
  /\ At(j, "prepare") /\ ~Ordered(job[j].case)
  /\ IF offer[job[j].case] # Agreed(j)
     THEN Refuse(j)
     ELSE job' = [job EXCEPT
            ![j].offer = offer[job[j].case],
            ![j].step = IF job[j].kind \in {"SUBMIT", "EXECUTE"} THEN "check" ELSE "reserve"]
  /\ UNCHANGED <<budgetVars, offer, storeVars>>

\* Mutant: any reservation of the case will do.
CheckAny(j) ==
  /\ At(j, "check")
  /\ IF reservations[job[j].case] # None THEN Goto(j, "claim") ELSE Refuse(j)
  /\ UNCHANGED <<budgetVars, offer, storeVars>>
\* The case's reservation must be active and of the terms prepared.
Check(j) ==
  LET r == reservations[job[j].case] IN
    /\ At(j, "check")
    /\ IF r # None /\ r.status = "RESERVED" /\ r.fingerprint = job[j].offer
       THEN Goto(j, "claim") ELSE Refuse(j)
    /\ UNCHANGED <<budgetVars, offer, storeVars>>

\* Budget is reserved in the scope of the moment: a new month is a new scope.
ReserveBudget(j) ==
  LET c == job[j].case
      o == job[j].offer
  IN /\ At(j, "reserve")
     /\ \E s \in Scopes :
          /\ Reserve(c, s, Allocation, Price[o], o)
          /\ IF ReserveResult(c, s, Allocation, Price[o], o) \in {"RESERVED", "EXISTING"}
             THEN Goto(j, IF job[j].kind = "DIRECT" THEN "claim" ELSE "create")
             ELSE Done(j)
     /\ UNCHANGED <<offer, storeVars>>

\* executions.claim: one claim per case, for one consent, for ever.
ClaimResult(c, n) ==
  LET e == execution[c] IN
    CASE e = None -> "CLAIMED"
      [] e # None /\ e.consent # n -> "CONFLICT"
      [] OTHER -> e.status

InFlight(n) == [consent |-> n, status |-> "IN_FLIGHT", order |-> None]

\* Mutant: a claim in flight is taken over.
ClaimAgain(j) ==
  LET c == job[j].case IN
    /\ At(j, "claim")
    /\ execution' = [execution EXCEPT ![c] = InFlight(job[j].consent)]
    /\ Goto(j, "post")
    /\ UNCHANGED <<budgetVars, offer, consents, orders, approvals, caseVars>>
\* Mutant: a replayed submission is reported without what follows it.
ClaimReplayed(j) ==
  LET c == job[j].case
      e == execution[c]
  IN /\ At(j, "claim")
     /\ \/ /\ e = None
           /\ execution' = [execution EXCEPT ![c] = InFlight(job[j].consent)]
           /\ Goto(j, "post")
        \/ /\ e # None /\ e.status = "COMPLETED" /\ job[j].kind = "EXECUTE"
           /\ Goto(j, "submitted") /\ UNCHANGED execution
     /\ UNCHANGED <<budgetVars, offer, consents, orders, approvals, caseVars>>
\* submit: the supplier is asked once, by whoever has the claim.
Claim(j) ==
  LET c == job[j].case
      result == ClaimResult(c, job[j].consent)
  IN /\ At(j, "claim")
     /\ \/ /\ result = "CLAIMED"
           /\ execution' = [execution EXCEPT ![c] = InFlight(job[j].consent)]
           /\ Goto(j, "post")
        \/ result = "CONFLICT" /\ Done(j) /\ UNCHANGED execution
        \/ result = "IN_FLIGHT" /\ Review(j) /\ UNCHANGED execution
        \/ /\ result = "COMPLETED"
           /\ Knows(j, execution[c].order, "commit") /\ UNCHANGED execution
     /\ UNCHANGED <<budgetVars, offer, consents, orders, approvals, caseVars>>

\* matchesExpectation: the seller, the goods, the quantity and the total.
Matches(order, expected) == order.terms = expected

\* performSubmit: the POST names the goods and the quantity and no price, so an
\* order that is taken is taken at the offer of that moment.  Only an answer
\* with the agreed terms counts; a lost one, another one, a refusal: ambiguous.
Post(j) ==
  LET c == job[j].case
      x == [of |-> c, no |-> Len(orders[c]) + 1, terms |-> offer[c]]
  IN /\ At(j, "post")
     /\ \/ /\ orders' = [orders EXCEPT ![c] = Append(@, x.terms)]
           /\ \/ Matches(x, Agreed(j)) /\ Knows(j, x, "complete")
              \/ Review(j)
        \/ Review(j) /\ UNCHANGED orders
     /\ UNCHANGED <<budgetVars, offer, consents, execution, approvals, caseVars>>

\* executions.complete: a record that is already completed keeps its order.
Complete(j) ==
  LET c == job[j].case IN
    /\ At(j, "complete")
    /\ execution' = IF execution[c].status = "COMPLETED" THEN execution
                    ELSE [execution EXCEPT ![c].status = "COMPLETED", ![c].order = job[j].order]
    /\ Goto(j, CASE job[j].kind = "RECONCILE" -> "reprepare"
                 [] job[j].kind = "RECONCILE_DIRECT" -> "settle"
                 [] OTHER -> "commit")
    /\ UNCHANGED <<budgetVars, offer, consents, orders, approvals, caseVars>>

\* budgetLedger.commit, which throws unless the reservation is of these terms.
Commit(j) ==
  /\ At(j, "commit")
  /\ Settleable(job[j].case, job[j].offer, "COMMITTED")
  /\ Settle(job[j].case, job[j].offer, "COMMITTED")
  /\ Goto(j, "rollup")
  /\ UNCHANGED <<offer, storeVars>>

\* repo.transition to ORDERED with a supplier order, from whatever state; a case
\* that is ORDERED already must name this one.
BecomesOrdered(c, order) ==
  /\ Ordered(c) => caseOrder[c] = order
  /\ state' = [state EXCEPT ![c] = "ORDERED"]
  /\ caseOrder' = [caseOrder EXCEPT ![c] = order]

\* rollupSpecialOfferOrder and rollupReconciledSpecialOfferOrder: the case goes
\* to ORDERED with this order; the second wants the confirmed candidate.
RollupTo(j, order) ==
  LET c == job[j].case IN
    /\ job[j].kind = "RECONCILE_DIRECT" => candidate[c] = order.terms
    /\ candidate' = IF candidate[c] = None
                    THEN [candidate EXCEPT ![c] = job[j].offer] ELSE candidate
    /\ Goto(j, "acknowledge")
    /\ UNCHANGED <<budgetVars, offer, consents, execution, orders, approvals, phone, acknowledged>>

\* Mutant: the order an ORDERED case already names is not compared.
RollupUncompared(j) ==
  LET c == job[j].case IN
    /\ At(j, "rollup")
    /\ state' = [state EXCEPT ![c] = "ORDERED"]
    /\ caseOrder' = [caseOrder EXCEPT ![c] = job[j].order]
    /\ RollupTo(j, job[j].order)
Rollup(j) ==
  /\ At(j, "rollup")
  /\ BecomesOrdered(job[j].case, job[j].order)
  /\ RollupTo(j, job[j].order)

\* ... and then the merchant's workflow acknowledges a NEW order.
Acknowledge(j) ==
  /\ At(j, "acknowledge")
  /\ acknowledged' = [acknowledged EXCEPT ![job[j].case] = TRUE]
  /\ CASE job[j].kind \in {"EXECUTE", "RECONCILE"} -> Goto(j, "submitted")
       [] job[j].kind = "DIRECT" -> Goto(j, "phone")
       [] OTHER -> Done(j)
  /\ UNCHANGED <<budgetVars, offer, consents, execution, orders, approvals,
                 candidate, state, phone, caseOrder>>

\* The phone coordinator, which made the direct order, gets its answer and moves
\* the case itself.
PhoneOrdered(j) ==
  /\ At(j, "phone")
  /\ BecomesOrdered(job[j].case, job[j].order)
  /\ Done(j)
  /\ UNCHANGED <<budgetVars, offer, consents, execution, orders, approvals,
                 candidate, phone, acknowledged>>

\* interpret and select of the phone coordinator, and a late confirm, move the
\* case from any state, ORDERED too; providerOrderId stays, and the ledger's
\* policy event keeps the candidate (module PhoneFood).
PhoneMoves(c) ==
  /\ c \in phone /\ Ordered(c)
  /\ state' = [state EXCEPT ![c] = "OPEN"]
  /\ UNCHANGED <<budgetVars, offer, consents, execution, orders, approvals,
                 candidate, phone, caseOrder, acknowledged, job>>
-----------------------------------------------------------------------------
(***************************************************************************)
(* The approval inbox and the reconciliation with the supplier.            *)
(***************************************************************************)
\* createApproval, once the budget is reserved.
Create(j) ==
  /\ At(j, "create")
  /\ \E r \in Requests :
       /\ approvals[r] = None
       /\ approvals' = [approvals EXCEPT ![r] =
            [case |-> job[j].case, consent |-> job[j].consent, status |-> "PENDING"]]
  /\ IF job[j].kind = "REFRESH" THEN Goto(j, "replace") ELSE Done(j)
  /\ UNCHANGED <<budgetVars, offer, consents, execution, orders, caseVars>>

\* approvalRequests.update: throws unless the request has the expected status.
UpdateApproval(j, expected, status) ==
  /\ approvals[job[j].request].status = expected
  /\ approvals' = [approvals EXCEPT ![job[j].request].status = status]
  /\ Done(j)
  /\ UNCHANGED <<budgetVars, offer, consents, execution, orders, caseVars>>

Replace(j) == At(j, "replace") /\ UpdateApproval(j, "PENDING", "REPLACED")

\* The end of approval-execute and of order-reconcile.
Record(j) ==
  LET expected == IF job[j].kind = "RECONCILE" THEN "RECONCILIATION_REQUIRED" ELSE "PENDING"
  IN \/ At(j, "submitted") /\ UpdateApproval(j, expected, "SUBMITTED")
     \/ At(j, "review")    /\ UpdateApproval(j, expected, "RECONCILIATION_REQUIRED")
     \/ At(j, "failed")    /\ UpdateApproval(j, expected, "FAILED")

\* reconcile: the recorded order of a completed execution; for one in flight
\* whose lease has run out, the order the operator names, whichever of the
\* supplier's it is, if its terms are the ones that were claimed.  Anything else
\* changes nothing.
Found(j, order) == Knows(j, order, IF job[j].kind = "RECONCILE" THEN "reprepare" ELSE "settle")

\* Mutant: the order the operator names is taken without comparing its terms.
LookupUncompared(j) ==
  LET e == execution[job[j].case] IN
    /\ At(j, "lookup") /\ e # None
    /\ \/ e.status = "COMPLETED" /\ Found(j, e.order)
       \/ e.status = "IN_FLIGHT" /\ \E x \in SupplierOrders : Knows(j, x, "complete")
    /\ UNCHANGED <<budgetVars, offer, storeVars>>
Lookup(j) ==
  LET c == job[j].case
      e == execution[c]
  IN /\ At(j, "lookup")
     /\ \/ e # None /\ e.status = "COMPLETED" /\ Found(j, e.order)
        \/ /\ e # None /\ e.status = "IN_FLIGHT"
           /\ \E x \in SupplierOrders :
                Matches(x, consents[c][e.consent]) /\ Knows(j, x, "complete")
        \/ (e # None => e.status = "IN_FLIGHT") /\ Done(j)
     /\ UNCHANGED <<budgetVars, offer, storeVars>>

\* order-reconcile prepares the order anew, at the terms of the moment, which
\* nothing but the budget's fingerprint compares with the ones agreed.
RePrepare(j) ==
  /\ At(j, "reprepare") /\ ~Ordered(job[j].case)
  /\ job' = [job EXCEPT ![j].offer = offer[job[j].case], ![j].step = "commit"]
  /\ UNCHANGED <<budgetVars, offer, storeVars>>

\* order-reconcile-direct settles whatever terms the case has reserved.
SettleDirect(j) ==
  LET c == job[j].case
      r == reservations[c]
  IN /\ At(j, "settle")
     /\ r # None /\ r.status # "RELEASED"
     /\ Settleable(c, r.fingerprint, "COMMITTED")
     /\ Settle(c, r.fingerprint, "COMMITTED")
     /\ Goto(j, "rollup")
     /\ UNCHANGED <<offer, storeVars>>
-----------------------------------------------------------------------------
Next ==
  \/ \E c \in Cases :
       \/ Preview(c) \/ ReconcileDirect(c) \/ OfferChanges(c) \/ PhoneMoves(c)
       \/ \E n \in 1 .. MaxConsents : Submit(c, n) \/ SubmitDirect(c, n) \/ RequestApproval(c, n)
  \/ \E r \in Requests :
       \/ Execute(r) \/ Reconcile(r) \/ RefreshPreview(r)
       \/ \E n \in 1 .. MaxConsents : Refresh(r, n)
  \/ \E j \in Jobs :
       \/ Stop(j) \/ Prepare(j) \/ Check(j) \/ ReserveBudget(j) \/ Claim(j) \/ Post(j)
       \/ Complete(j) \/ Commit(j) \/ Rollup(j) \/ Acknowledge(j) \/ PhoneOrdered(j) \/ Create(j)
       \/ Replace(j) \/ Record(j) \/ Lookup(j) \/ RePrepare(j) \/ SettleDirect(j)

Spec == Init /\ [][Next]_vars
-----------------------------------------------------------------------------
(***************************************************************************)
(* Properties.                                                             *)
(***************************************************************************)
Claimed(c) == consents[c][execution[c].consent]

\* However often an order is submitted, executed, retried after a crash or
\* reconciled, by however many callers at once, and though the phone takes its
\* case out of ORDERED again, which disarms the duplicate check: the supplier
\* gets one paid order for a case.
OnePaidOrder == \A c \in Cases : Len(orders[c]) <= 1

\* Before anything is paid the budget holds the money for exactly the terms
\* the claimed consent agreed to, and it keeps holding it or has spent it.
PaidFromBudget ==
  /\ PaidTypeOK
  /\ \A c \in Cases : execution[c] # None =>
       /\ reservations[c] # None
       /\ reservations[c].status \in {"RESERVED", "COMMITTED"}
       /\ reservations[c].fingerprint = Claimed(c)

\* The order the execution records, and the one the case names, are orders the
\* supplier took, at the terms of the consent that was claimed, though the
\* supplier is asked without a price, its answers are lost or differ, and the
\* operator names which order it was.  That it was placed for this case is not
\* said: the code compares terms only, and another case's order of the same
\* terms passes.
OrderedAsConsented ==
  \A c \in Cases :
    /\ execution[c] # None /\ execution[c].status = "COMPLETED" =>
         execution[c].order \in SupplierOrders /\ execution[c].order.terms = Claimed(c)
    /\ caseOrder[c] # None =>
         /\ execution[c] # None
         /\ caseOrder[c] \in SupplierOrders /\ caseOrder[c].terms = Claimed(c)

\* The stores follow each other in the order they are written: budget is spent
\* only on a recorded order, a case names a supplier order (and is ORDERED) only
\* with its budget spent, and a request is SUBMITTED only for a case that names
\* one and is acknowledged, whichever handler got there and wherever others
\* stopped.
StoresInOrder ==
  /\ \A c \in Cases :
       /\ reservations[c] # None /\ reservations[c].status = "COMMITTED" =>
            execution[c] # None /\ execution[c].status = "COMPLETED"
       /\ caseOrder[c] # None => reservations[c] # None /\ reservations[c].status = "COMMITTED"
       /\ Ordered(c) => caseOrder[c] # None
  /\ \A r \in Requests : approvals[r] # None /\ approvals[r].status = "SUBMITTED" =>
       caseOrder[approvals[r].case] # None /\ acknowledged[approvals[r].case]

\* The recorded order of an execution is never replaced, a case that is ORDERED
\* is not given another order (two handlers may hold different ones, when an
\* operator named one while the answer of the supplier was on its way), and
\* one that named an order names one for good and keeps its candidate, even
\* when the phone moves it to another state.
OrderIsFinal ==
  [][\A c \in Cases :
       /\ Ordered(c) /\ Ordered(c)' => caseOrder'[c] = caseOrder[c]
       /\ caseOrder[c] # None => caseOrder'[c] # None /\ candidate'[c] = candidate[c]
       /\ execution[c] # None /\ execution[c].status = "COMPLETED" =>
            execution'[c] = execution[c]]_vars

\* A request that the approval inbox shows as failed has ordered nothing
\* (public/app.js shows FAILED with "the supplier order was not created", and
\* order-reconcile refuses such a request).
FailedOrderedNothing ==
  \A r \in Requests : approvals[r] # None /\ approvals[r].status = "FAILED" =>
    LET e == execution[approvals[r].case] IN
      ~(e # None /\ e.status = "COMPLETED" /\ e.consent = approvals[r].consent)
=============================================================================
