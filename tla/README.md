# malgyeol in TLA+

malgyeol lets a beneficiary of a food or assistance programme order by telephone:
a call becomes an intent, a deterministic policy check, the recipient's
confirmation, an institution's approval, a payment, a supplier order, and the
evidence of all of it. This directory models the parts of the code in which that
can go wrong in ways a unit test hardly reaches: callers that run at the same
time, repeat themselves or stop half way, suppliers whose answers are lost, and
long legal sequences of events.

* [Inventory](#inventory): what the system consists of
* [Modules](#modules): which module models what, and how it corresponds to the code
* [Runs](#runs): what TLC checks, with which bounds and which fairness
* [Proofs](#proofs): what TLAPS proves, from which assumptions
* [Findings](#findings): where the code and what it tells people disagree
* [Observations](#observations): what the models show and no document denies
* [Not modelled](#not-modelled): what is left out, and why
* [Plan](#plan): what is next

To check a module: `tlc -config MCX.cfg MCX`; to check its proofs: `tlapm XProofs.tla`.

## Inventory

The server runs in one Node process per Cloud Run instance, with any number of
instances; the pages run in browsers, the escrow on Solana. State lives in Firestore (or in memory, behind the same interfaces);
each repository method is one transaction, and what is between two `await`s is
atomic. Components call each other directly and share nothing but those stores.

| Component | State | Operations | Hard behaviour | What makes it correct |
|---|---|---|---|---|
| Canonical case ledger `src/case-ledger` | per case: aggregate, hash-chained event log, idempotency records | `openCase`, `advance`, `appendAuxiliary` | concurrent callers, repeated and conflicting commands, refused commands that are logged too, approvals invalidated and rebuilt | an order is bound to what everybody agreed to; a command is accepted once; no update is lost; log and aggregate agree |
| Food budget ledger `food-support/budgetLedger.ts` | per scope (beneficiary, programme, month) an account with running totals; per case one reservation | `reserve`, `commit`, `release`, `get` | concurrent reservations of one scope, repeated settlement, callers that disagree on the allocation | nothing is overspent; totals equal reservations |
| Paid supplier order `http/specialOfferOrderRoutes.ts`, `food-support/specialOffer.ts`, `approvalRequests.ts`, `orderRollup.ts`, `firestorePaidOrderExecutionStore.ts` | execution record per case, approval inbox, case state, budget, merchant workflow | preview, submit, direct submit, approval request / refresh / execute, reconcile, direct reconcile | five stores written one after the other, crash between any two, lost supplier answers, changing offers, two requests of one case at a time | one paid order per case, at the consented terms, from reserved money; the stores follow each other |
| Phone food coordinator `food-support/phoneFoodCoordinator.ts`, `http/phoneFoodAgentRoutes.ts` | case, phone record with revision, canonical ledger | `begin`, `interpret`, `select`, `confirm`, `status` | two documents and a ledger updated in turn, webhooks repeated, fixed idempotency keys | one confirmation, one order; case, phone record and ledger agree |
| Recorded-call coordinator `e2e/caseCoordinator.ts` | case with state machine and event log | `beginCall`, `capture`, `submitInterpretation`, `confirm`, `recoverOrder` | double confirmation, crash between payment and order | confirmed once, paid once, no order without payment |
| Role workflow `roles/workflow.ts`, `http/roleAccess.ts` | workflow per case with revision and events | caregiver, operations and merchant actions | roles acting on stale copies, approvals withdrawn by a change | goods ship only with review, consent and independent coapproval given after the last change |
| Benefit escrow `programs/benefit-escrow` | order account and vault on chain | `initialize_order`, `release`, `refund_timeout` | release racing refund at the expiry, surplus in the vault | conservation of tokens, one terminal outcome |
| x402 payment server `g4` | intents, journal, receipts in a trace repository | `handle` | crash between journal, receipt, intent and fulfilment | settled and fulfilled once per order |
| Escrow clients and payment adapter `g5`, `e2e/solanaDevnetEscrowPaymentAdapter.ts` | a wallet per payment, receipts in memory | open, fund, prove; release, refund | lost answers of paid requests, other payments into the vault | an institution pays once per consent, and a payment is proved by its own money |
| Mandate signing `g3` | reservations by nonce, spent total | `authorizeAndSign` | signer failing, store failing after signing | never more signed than the mandate allows |
| Merchant sandbox `merchant`, interpretation challenge `g2` | stored orders, nonces | submit, readback; challenge, answer | repeated submission | one order per intent |
| Food policy `food-support/policy.ts`, purchase policy `e2e/policyEngine.ts` | none | evaluate | boundaries of budget and quantities | agrees with a reference definition |
| Delivery evidence `delivery`, `g6` | evidence records | register, decide | evidence that contradicts itself | released only on two receipts |
| Beneficiary's page `public/app.js`, `http/foodSupportRoutes.ts` | order in the tab's storage, catalogue, personal data in memory | search, choose, quantity, deliver, review, invite, remove | answers that meet a page which has moved on, the timer that forgets, reloads | previews are of the terms shown; personal data is forgotten; nothing unverified is delivered |
| Institution's desk `public/app.js`, `http/roleAccess.ts`, `delivery/evidence.ts` | overview, lists, a running execution | connect, open a case, act, execute, review | lists answered late, overlapping loads, a workflow that moved on | a paid request is not offered again; nobody signs what he has not seen |
| Conversation, enrollment, tokens, voice, projections, wiring | sessions; otherwise none | | parsing and display | |

## Modules

An arrow points from what promises or is extended to what implements or extends it.

```text
CaseProcedure     SpendingLimit    SignedTerms      Escrow
   v implements      v implements     v implements     v implements
CaseLedger        BudgetLedger     RoleWorkflow     BenefitEscrow     WebOrder
   v extends         v extends        v extends        v extends
PhoneFood         PaidOrder        OpsDesk          CasePayment
```

Each `MC` module makes a small instance of the module it is named after. A
`Proofs` module holds the theorems about the module it is named after and about
the one that is extended there: `OpsDeskProofs` those of `RoleWorkflow`,
`CasePaymentProofs` those of `BenefitEscrow`.

### CaseProcedure, CaseLedger (src/case-ledger)

`CaseProcedure` is the procedure of one case: which event is admitted when
(`Admitted`, that is `transitionRejection`) and what it makes of the aggregate
(`Apply`, that is `applyAcceptedEvent`). Its variables are the aggregate's
fields; an approval revision with a condition hash is a *binding*
`[revision, condition]`. Event types are numbered so that a normal state is its
place in `CANONICAL_CASE_STATES`. `policySnapshotHash` and `conditionHash` are
written together by a policy run, so the first has no variable of its own.
Four history variables (`confirmedCondition`, `approvals`, `ordered`,
`invalidations`) exist for the properties; no guard but the bound reads them.

`CaseLedger` extends it with everything around it: commands of any caller, with
a key and the tail they were decided on, executed one transaction each. The
actions are the outcomes of `execute`: `Replay`, `KeyConflict`, `Reject`,
`Accept`, and `RejectUnhashable` for data that may not be hashed. `Reject`
computes the reason the code reports, since the reason is part of the failure
event's id. Whom a command comes from (`Origins`) is compared with the table of
authorities (`Authority`); the payloads `assertSafeEventData` refuses are the faults
a type's data can have (`DataFaults`), each with the reason it is reported with. A
value of the wrong type that passes that check (a revision that is a string) is no
fault there: reading it throws inside the transaction, which then stores nothing. An event hash is the event's position in the log (the chain is
linear), a semantic hash is the record of what it covers, an event id the record
of what it is derived from: distinct inputs have distinct hashes. Every case has
a ledger of its own (all keys are per case), so one case is enough. The ledger
accepts an event by `CaseProcedure`'s own action and leaves the case alone
otherwise, so that it implements the procedure shows in its definitions; the
theorem that says so (`LedgerImplementsProcedure`) only carries the procedure's
properties over. What the read-only projections take from log and aggregate is
there as operators, and `AggregateFollowsLog` says that the two agree on it,
whatever failures, replays and conflicts lie in the log.

### SpendingLimit, BudgetLedger (food-support/budgetLedger.ts)

`SpendingLimit` says what a budget is for, without accounts: a case claims money
of one scope once, a claim is spent or freed for good, and the live claims of a
scope stay within its limit, which its first claim fixes. `BudgetLedger` has the
accounts with their running totals and the reservations. `Reserve` is both
implementations of `reserve` (`ReserveResult` the answer, in their order of
checks), `Settle` guarded by `Settleable` is `commit` and `release`; where the
code throws, the action is not enabled. The check that an account found under
the hash of a scope has that scope is left out, as it always has.

### PaidOrder (http/specialOfferOrderRoutes.ts and what it calls)

A *job* is one HTTP request being handled. Its `step` is where it awaits next;
each action takes it over one await, that is one read or one transaction, so all
interleavings of two requests are there. `Stop` ends a job anywhere: the process
crashed, a service threw, a token or a consent expired. The handlers share most
of their steps, so there is one action per step and the job's kind says where it
goes on:

| Kind | Handler | Steps |
|---|---|---|
| SUBMIT | order-submit | prepare, check, claim, post, complete, commit, rollup, acknowledge |
| DIRECT | order-submit-direct (phone) | prepare, reserve, claim, post, complete, commit, rollup, acknowledge, phone |
| REQUEST | approval-request | prepare, reserve, create |
| REFRESH | approval-refresh-confirm | prepare, reserve, create, replace |
| EXECUTE | approval-execute, which calls order-submit | as SUBMIT, then submitted, review or failed |
| RECONCILE | order-reconcile | lookup, complete, reprepare, commit, rollup, acknowledge, submitted |
| RECONCILE_DIRECT | order-reconcile-direct | lookup, complete, settle, rollup, acknowledge |

`order-preview` and `approval-refresh-preview` are `Preview`: they write nothing
but hand out a signed consent, so minting one is their effect. An *offer* stands
for goods, seller, quantity and price together, hence for the budget fingerprint;
a consent is an offer plus an expiry, hence the order's fingerprint is the
consent. The supplier is external: it may change its offer at any time, takes an
order at the offer of that moment (the POST carries no price), and its answer may
be lost. When an operator reconciles he names any order of the supplier's account
(`SupplierOrders`): of this case, of another one, or placed in another way
(`OtherOrders`); `Lookup` compares what `matchesExpectation` does, which is terms
and not the case. Two handlers may so hold different orders of one case, and
`BecomesOrdered` is the comparison that keeps the second from replacing the first.

Of the case's state it matters whether it is ORDERED, which is what the duplicate
check reads (`Ordered`, `app.ts:220`). The rollup moves the case there from any
other state, and so does the phone once its direct order is answered
(`PhoneOrdered`). `interpret`, `select` and a late `confirm` of the phone take it out
again (`PhoneMoves`) and leave `providerOrderId` where it is; `PhoneFood` has them
step by step.

Left out: credential-gated answers (the wired provider reads a file once or
throws; the latter is `Stop`), hence also the release of a reservation after
`PAID_ACTION_REQUIRED`; order cancellation, which no handler calls; the read-only
handlers; authorisation.

### PhoneFood (food-support/phoneFoodCoordinator.ts)

The phone coordinator over the ledger of `CaseLedger`, for one call. A job is a
webhook (begin, interpret, select, confirm); it reads the phone record once and
its writes succeed only while the record has that revision, but it reads the case
anew for every transition. Each action is one await; `Stop` may end a job before
any of them. Ledger events have one idempotency key per type, so `Keys` are
types, and the ledger's actions are `CaseLedger`'s own. The direct order is
`Preview`, `Claim` and `Post`: accepted, lost, in flight already, or refused for
changed terms; `ReconcileDirect` is the operator's answer to a lost one, with the
order that was placed (`PaidOrder` has the operator who names another one).
Enrolment, catalogue, interpretation and policy are free choices. Left out: `status`, which only reads, and the wording spoken.

### WebOrder (public/app.js, beneficiary; http/foodSupportRoutes.ts)

The page is one thread. What interleaves are the answers to its calls, the timer,
reloads, and what the user does meanwhile; an action takes a call over one await
and reads the page as it is then. `render` starts checks and reviews by itself:
every action that renders does so too (`Render`). What the session storage
keeps survives `Reload`, the rest does not. A product stands for its price and
fee; what the server knows of stock, budgets and policy is a free choice of
answers. Left out: the sentence itself (it is never empty once a product is
chosen), a programme that fails to load (it closes the gate until asked again),
receipts, the read-back of orders, demonstration loaders, and two operations
nothing calls (`requestApproval`, `viewApproval`).

### Escrow, BenefitEscrow (programs/benefit-escrow)

`Escrow` is the promise: what was paid in stays until the order is settled, once,
with the agreed amount or nothing to the payee and everything else to the payer.
`BenefitEscrow` has the three instructions with what their account constraints
check, the clock, and vaults into which anybody may pay at any time, also before
the order account exists and after it was settled. The refinement maps a terminal
account to a settled order. Arithmetic is in naturals: `amount` is a u64 no token
supply exceeds, and the program uses checked or saturating operations throughout.

### CasePayment (e2e, g4, g5, g6, merchant)

A purchase by recorded call from the recording to the shop's money. Jobs are
requests to the agent routes; every change of a case is a `transition` from the
state the job expects (`Move`), and a job that finds another one stops. The
repository may also throw instead of answering, its transaction made or not
(`StoreThrows`, at the steps of `Stored`): no transition of `confirm` and
`submitOrder` is in a `try` that catches it, so the request ends. `Crash` ends all jobs, any number
of times; cases, journals, shop and chain survive both. `dropped` remembers
the cases whose purchase has lost its request in one of these ways. The payment is taken
apart into the escrow's opening, the wallet's funding, the 402 challenge with the
first reading of the vault, the paid requests (settled or not, and the answer lost
or not), journal and fulfilment, and the evidence with the second reading. The
escrow is `BenefitEscrow` itself: a case's commitment is an order there, and the
wallet, unlike a gift, is bounded by what the institution put in. The settlement
of `g6` compares two receipts with the order they are for (`Verified`) and
releases the escrow of whichever commitment its caller passes (`ReleaseDelivered`).
Left out: account derivation, byte layouts and signatures; the shop's
exports; the adapter's memory of finished and running payments, which the case's
state makes unreachable for a second call.

### SignedTerms, RoleWorkflow (roles/workflow.ts, http/roleAccess.ts)

`SignedTerms` says what approvals are for: the terms of an order have versions, a
signature is put under the version of the moment and does not survive a change,
and goods are handed over only while every signature stands. `RoleWorkflow` is
the workflow document of one case with one action per role action; each takes the
revision its sender has `seen`, any up to the present one, and `Apply` is the
comparison of `applyRoleAction`. A refused action writes nothing, so it is a
guard that fails. The merchant's actions carry the handler's test that the case
has a supplier order (`Fulfil`, `ProposeSubstitution`); the rollup of a placed
order sends ACKNOWLEDGE_ORDER after writing that order into the case
(`CaseOrdered`), so its acknowledgement is the same action.

The four signatures are the policy review, the recorded consent, the request for
a coapproval and its answer. Three history variables stand for the event log:
how often the terms changed, at which revision last, and for each signature the
version its signer saw (`Version(seen)`; an older reader saw an older version).
Refinement maps a standing signature to that version, so signing on a stale copy,
forgetting to withdraw one signature or shipping without asking again all break
`KeepsSignatures`. Reason codes, fingerprints, carriers and tracking numbers are
reduced to whether they are there. Role tokens are stateless and not modelled:
caregivers are told apart by their subject hash, the other roles need not be.

### OpsDesk (public/app.js, operator; http/roleAccess.ts, delivery/evidence.ts)

The institution's desk on one case, over the workflow the server keeps. The desk
holds an overview, lists of approval requests and of the delivery photograph, the
execution that is confirmed or running and the review that is busy; each call goes
from click to server and back, and its answer meets the desk as it is then. A list
belongs to the slot it was loaded into, which an execution or a review replaces,
so an answer may be for a slot nobody looks at (`deaf`). Role actions carry the
revision of the desk's overview, and the server's side of them is `RoleWorkflow`'s
action. An execution is the three steps of `approval-execute` that write: the
order, the workflow's acknowledgement, the request's status (`PaidOrder` has what
lies between them). Left out: a blocked case, the export, order links, details of
other cases, and the caregiver's and merchant's pages, whose actions the workflow
takes from anywhere.

## Runs

| Run | Module | Distinct states | Shows |
|---|---|---|---|
| `case_procedure` | MCCaseProcedure | 1 591 | over all histories: `OrderedAsAgreed`, `BindingsMatchApprovals`, `TermsFrozenOnceOrdered`, `ApprovalAfterConsent`; and that every case can be finished (`CaseCompletes`) |
| `case_ledger` | MCCaseLedger | 1.9 million | commands: `RecordsMatchLog`, `OneEventPerCommand`, `DecidedOnTail`, `AggregateFollowsLog` |
| `phone_food` | MCPhoneFood | 2.9 million | webhooks that repeat, race and stop: `AgreementIsFinal`, `OrderedAsConfirmed`, `OrderNeverForgotten` |
| `budget_ledger` | MCBudgetLedger | 2 021 | totals and reservations agree (`Balanced`); the ledger implements the limit (`KeepsLimit`) |
| `paid_order` | MCPaidOrder | 3.0 million | `OnePaidOrder`, `PaidFromBudget`, `OrderedAsConsented`, `StoresInOrder`, `OrderIsFinal` |
| `ops_desk` | MCOpsDesk | 1.0 million | the workflow, worked by roles and desk, implements the signatures (`KeepsSignatures`); `IndependentApproval`, `RefundedNeverShipped`, `ClosedOrder`; a request that is decided is not offered for execution again (`DecidedIsNotOffered`) |
| `benefit_escrow` | MCBenefitEscrow | 322 896 | the program implements the escrow (`KeepsPromise`); `OutcomeByExpiry`; funded orders are settled (`FundedOrdersSettle`) |
| `case_payment` | MCCasePayment | 543 762 | `PaysOncePerConsent`, `OrderedIsPaidFor`, `ShopPaidOnReceipt`; a confirmed case is decided unless its request is lost (`ConfirmedIsDecided`) |
| `web_order` | MCWebOrder | 758 746 | `PersonalDataTimed`, `VerifiedBeforeDelivery`; the page's own reviews end, and not too early (`ReviewsComeToRest`) |
| `paid_order_failed`, `phone_food_terms`, `web_order_terms` | | (counterexamples) | the [findings](#findings) |

The type invariants of the budget ledger, the paid order, the page and the desk are
conjuncts of `Balanced`, `PaidFromBudget`, `VerifiedBeforeDelivery` and
`DecidedIsNotOffered`.

**Bounds.**
`case_procedure`: two conditions, so that a new policy run may come back with the
old terms or with others; `MaxInvalidations = 2`, so that an invalidation can hit
a revalidation under way and the next approval has revision 3; times 0 to 2, so
that an approval can be valid, just expired and renewed. The proofs below hold
for any values.
`case_ledger`: commands differ in two places, and `MCNext` has both. From the
opening on, three fresh keys, the first three types and logs of at most four
events: enough for an acceptance, a failure between two acceptances and a stale
repetition, with any expected tail, with and without authority. And on a case
whose payment has been proved by seven events of their own keys (the paved path),
logs of up to ten events of the types that order, confirm, withdraw and evaluate
anew, under two conditions, at times 0 and 1, on the tail or just behind it, under
fresh keys or one used before. What the steps in between check is
`case_procedure`'s business. The log's bound is the model's, so deadlock is not
checked there.
`phone_food`: one call (calls share nothing), two jobs at a time and any number in
sequence, one utterance with candidates and two terms; five revisions of the phone
record and five ledger events, one more than an order takes. When they are used up
nothing is left to do, so deadlock is not checked.
`budget_ledger`: three cases and amounts 1 and 2 against allocations 2 and 4: two
reservations exceed the smaller one, three the larger.
`paid_order`: one case (cases share the account, which `budget_ledger` covers, and
the supplier's orders, of which there is one of each offer that is not of this case,
for the operator to name), two offers, two jobs at a time and any number in sequence, two consents
and two approval requests: enough for a refresh, for a second consent against the
first one's claim, and for any two handlers on the same stores. A case from the
phone orders directly and has a second consent or an approval request (`PhoneBound`,
a constraint), a case from the web has all of them. When a case has
used up its consents and requests nothing may be left to do, so deadlock is not
checked there.
`ops_desk`: two caregivers (a coapproval needs two, a third would only repeat one
of them), ten revisions and two changes of terms while nobody is at the desk:
enough to acknowledge, sign, change, sign again and ship. With somebody at the
desk two calls at a time and two clicks, one step of the other roles, and two
requests or a photograph: the desk's lists do not depend on how far the workflow
has come, and the workflow's actions do not depend on what the desk displays. The
code bounds none of it, so deadlock, which only the bounds cause, is not checked;
the proofs about the workflow hold for any bounds.
`benefit_escrow`: two orders of three parties in any role, amounts 1 and 2 and
vaults paid up to 3 (nothing, too little, exactly, a surplus), a clock to 3 with
durations up to 2, so that an expiry is met before, at and after. The clock stops
at its bound, so deadlock is not checked; the proofs hold for any values.
`case_payment`: one live case beside a second purchase that is ordered and
delivered, was refunded as its escrow expired meanwhile, and whose goods may be
received at any time, so that its true papers can be put to the escrow of the
live one; two overlapping jobs, two wishes, four paid requests as in the code, a
gift to the vault, any number of crashes and store errors, a clock that passes the
expiry.
Everything ends within these bounds, so deadlock is not checked.
`web_order`: two products, quantities 1 and 2, one recipient (whose presence
matters, not his name), two calls at a time, four user actions beside navigation
(search, choose, deliver, change), and time-outs and reloads at any moment. A
page whose actions are used up may rest, so deadlock is not checked.
**Symmetry** is used for fresh keys, cases, scopes, fingerprints, jobs, requests,
caregivers, calls and offers, which the modules only compare, and only in runs without liveness; the
prices of the two offers are equal in `MCPaidOrder`, so offers are interchangeable.

**Fairness.**
`case_procedure`: `FairProcSpec` assumes weak fairness of each event type that
takes a case forward: the party in charge (policy engine, recipient, institution,
facilitator, chain, supplier, carrier) eventually sends its command, with matching
data and a time within the approval's validity, as long as the ledger would accept
it. Each is a separate process or person waiting for exactly that step, so nothing
stronger is needed. Invalidations and retries are not fair: nobody has to
invalidate, and no more than `MaxInvalidations` times, which is the assumption that
institutions do not withdraw approvals for ever.
`benefit_escrow`: the chain's clock goes on, and an institution that can have its
money back sends the refund, which stays enabled until somebody settles the order.
`case_payment`: each job's next step (`Work(j)`): every await of the code is on a
call that answers or throws. Where the case repository throws, that is
`StoreThrows`, of which, as of requests, clock and crashes, nothing is assumed. So
`ConfirmedIsDecided` needs nobody's help, but it excepts the cases that a crash or
a store error has left (`dropped`), of which the code does not take care.
`web_order`: every call is answered or fails, which `fetch` does; users, timers and
reloads are not fair.
`phone_food`, `paid_order` and `ops_desk` have no liveness property: a webhook, a
request or a desk may stop anywhere, and nothing takes up what it left.

Every property has a mutant beside the definition it changes (`Mutant:` in the
modules): a plausible bug of that code under which TLC finds it violated.

## Proofs

`CaseProcedureProofs` proves, for any set of conditions, any times and any number
of invalidations, that the procedure keeps `ProcTypeOK` and that `ProcInv` is
inductive, and derives `OrderedAsAgreed`, `BindingsMatchApprovals` and the two
action properties `TermsFrozenOnceOrdered` and `ApprovalAfterConsent`.

`OrderedAsAgreed` alone is not inductive. What carries it is that the
revalidation stage says exactly whether the approval is invalidated, and that a
stage other than NONE only exists from the approval on (`StageAgrees`); that
revisions count approvals (`ApprovalsCounted`); that the confirmation is of the
current condition except between an invalidation and the reconfirmation
(`ConsentCurrent`); that an approval in force is of the current condition
(`ApprovalCurrent`); that a proof never overtakes its payment requirement
(`ProofAfterRequirement`); and that the order equals both (`OrderBound`). The
last three explain why the rebindings that remain admitted after the order was
submitted cannot change anything: they could only write what is there already.

`CaseLedgerProofs` proves that the ledger implements the procedure
(`LedgerImplementsProcedure`), that it is well typed, and that `LedgerInv` is
inductive: `RecordsMatchLog`, `OneEventPerCommand` and `DecidedOnTail`, with two
facts about how events come to be: each kind of event is explained by the record
of its key or by its own hash (`EventsExplained`), and a log exists exactly when
the case does (`LogOpensCase`). Through the refinement it inherits
`OrderedAsAgreed` (`LedgerOrdersAsAgreed`).

`OpsDeskProofs` first proves, for any caregivers and any bounds, that the role
workflow is well typed, that `WorkflowInv` is inductive, and from it
`IndependentApproval`, `RefundedNeverShipped` and the refinement
(`WorkflowKeepsSignatures`); `ClosedOrder` needs no invariant, only the guards.
The invariant adds to the two checked ones that a standing signature is under the
terms in force (`SignaturesCurrent`), which the refinement needs when goods ship,
and that a shipped order still has its approval (`ShippedApproved`). That an
applied action saw the present terms is the lemma `SeesPresentTerms`: the one
place where the expected revision is used.

`CasePaymentProofs` first proves, for any orders, parties, amounts and any clock, that
`EscrowInv` is inductive: types, `Conserved` (what came into a vault is what is in
it plus what the institution and the merchant, two distinct parties, got out of it,
and nobody else got any) and `OutcomeByExpiry`. Conservation is what the refinement
rests on: that a settlement hands out *everything deposited* follows from the
vault's holding exactly that while an order is locked. `ImplementsEscrow` then
proves the refinement step by step, `OutcomesFollowExpiry` that releases lie
before and refunds not before the expiry.

`PaidOrderProofs` proves, for any cases, jobs, requests, offers and prices and any
allocation, that `PaidInv` is inductive, and from it `OnePaidOrder`,
`PaidFromBudget`, `OrderedAsConsented`, `StoresInOrder` and `OrderIsFinal`. Nearly
all of the invariant is about the jobs (`JobOK`): a job reads a store, goes through
an await and writes another one, so what it read must still be so when it writes.
It is, because what matters of the stores is never taken back, and that is the
lemma structure too: every action is shown to satisfy `Grow` (consents, claims,
recorded orders, spent budget, candidate and acknowledgement of a case stay; it
goes on naming an order, the same one while it is ORDERED), and
`JobKept` says that `Grow` keeps what *any other* job knows. `PostingOK` is the one
exclusive fact: the job at the supplier is the one whose consent is in the claim,
there is no other one, and the supplier has no order of the case yet; hence
`OnePaidOrder`. It does not say that the claim is still in flight: a reconciliation
may complete it with another order meanwhile. `CaseOK` relates the stores of a case; that nothing in these
handlers releases a reservation is part of it.

`CasePaymentProofs` then proves, for any cases, wishes, jobs, parties, times and paid
requests, that `PayInv` is inductive, and from it `PaysOncePerConsent`,
`OrderedIsPaidFor` and `ShopPaidOnReceipt`. The heart is `OneOwner`: from the
consent on at most one job has the case, because only one job can consume the
confirmation and every later step of another one would need a transition from a
state the owner has. So what the owner knows (`JobOK`: nothing spent before the
funding, the wallet empty after the settlement, the journal written before the
evidence) cannot be changed by another job (`Still`), while what jobs without a
case know only rests on what nobody takes back (`Grow`). A recovery takes over a
case only after its owner has put it up for review. `MoveStep` proves every
transition at once; each use of it shows that the new value of the case fits its
money and the next step its state. The escrow's part is the lemmas about the
program, one per instruction, and they also give `PurchaseKeepsPromise`: though
jobs are repeated and stopped and anybody pays into the vaults, every step of the
purchase is a step of the abstract `Escrow` or leaves the chain alone.
`ReleasesAreEarned` needs that a release carries somebody's true papers
(`ReleaseOK`) and that an escrow is of a consented case, but nothing that relates
the two. A store error ends the one job that knew where the case was (`JobAlone`),
so the invariant survives it as it survives a crash. The theorems are about `Spec`,
whose cases all begin at the beginning; the run's second case starts ORDERED, a
state `PayInv` holds of.

The second half of `OpsDeskProofs` is the desk, for any requests, caregivers, clicks
and calls under way. `DeskUsesWorkflow` composes: what the server does for the desk
is an action of `RoleWorkflow` on the copy the desk sent, the rest leaves the
workflow alone, so the theorems about the workflow hold of the desk
(`DeskKeepsSignatures`, `DeskKeepsOrders`). `DecidedStaysDecided` is
`DecidedIsNotOffered`. Its invariant `DeskInv` follows a list from the server to the
screen: what a request's status is only moves forward (`Forward`); a list in a slot or
in an answer under way names only papers that exist and nothing undecided of a paper
the desk was told about (`ListOK`), because a list loaded anew forgets every earlier
call for it; a call that executes names a request that exists, since it was on such a
list; and an execution is only answered with what is decided on the server
(`CallOK`). The message types carry the rest: what a call holds depends on how far it
is.

`WebOrderProofs` proves, for any products, quantities, recipients and calls under
way, `PersonalDataTimed` and `VerifiedBeforeDelivery`. `PageInv` adds the types of
page, order and catalogue and of what calls carry. The lemmas are about what the
handlers share, since every one of them ends in `render`: that invalidating,
marking and erring hold no personal data that was not there under the same timer
(`Holds`), that a page touched is timed, that a recipient is only set behind the
gate and a product only together with its confirmation, and that a confirmation is
only withdrawn together with the product or with the whole page.

`BudgetLedgerProofs` proves, for any cases, scopes, allocations and amounts, that the
running totals are the sums of the reservations (`LedgerBalanced`) and that the
ledger implements the spending limit (`LedgerKeepsLimit`). Both rest on sums over
finite sets (`MapThenSumSet`): that a sum changes by one summand when a case enters
or leaves a set, and that it is monotone. The library's induction theorems cannot be
used (they take an operator), so those lemmas argue from a minimal counterexample:
the sizes at which the claim fails are a set of naturals, which has a least element
if it is not empty. `BudgetInv` is inductive: `Balanced` and, for every scope with an
account, that what is reserved and committed is within the allocation. In the
refinement a reservation with its status becomes a claim that is held, spent or
freed, and the sum of the live claims is what the account has reserved and
committed. `PaidOrderProofs` carries both over: every step of an order is a step of
the ledger's own specification (`OrdersUseTheLedger`), hence `OrdersKeepBalance` and
`OrdersKeepLimit`.

`AggregateIsTheLog` (in `CaseLedgerProofs`) is `AggregateFollowsLog`. Every step
either leaves the ledger alone or appends one event and changes the aggregate by
exactly what that event tells (`Tells`); what a type of event tells is a table of
three kinds of bindings and the state (`TellsState`, `TellsBindings`), and that the
code's `Apply` does that and no more is `AcceptTells`. The last event of some types
in the longer log is then either the new one or the same as before. Besides the
property the invariant only needs that no event is ahead of the case (`NoEventAhead`).

`PhoneFoodProofs` proves, for any conditions, any number of jobs and any bounds, that
`PhoneInv` is inductive, and from it `OrderedAsConfirmed`, `AgreementIsFinal` and
`OrderNeverForgotten`, and that the whole call implements `CaseProcedure`
(`CallImplementsProcedure`). The invariant has `CaseLedger`'s own (`LedgerInv`, whose
lemmas are used as they are, since the module sends its commands); that an accepted
event has its type as key (`KeysAreTypes`), so that there is one policy event and one
confirmation of a case (`Stands`); that the case's candidate is the one of that
event (`CaseAgrees`); that the documents follow each other (`DocsFollow`); and what
each job knows at each of its steps (`JobInv`). As in `PaidOrder`, a job keeps what
it knows because the rest only grows (`Grows`): events, the candidate once it is
agreed, the order. That two jobs never enrol at the same time (`OneEnrols`) is the
one exclusive fact.

The assumptions are the ones named in the modules: the distinguished value None
is no condition, no record, no offer, no job, no caregiver, no account, no wish,
no status of a paper and no case, the bounds and prices are naturals, callers send event types, and the
payment adapter was made of a configuration it accepts.
`TLC` evaluates them on every run.

Model-checked only: `CaseCompletes`, `FundedOrdersSettle`, `ConfirmedIsDecided` and
`ReviewsComeToRest`. They are liveness properties under fairness, which is beyond the
prover. Every safety property of a passing run, invariant, action property or
refinement, is also a theorem.

## Findings

`paid_order_failed`: the approval inbox shows a request as FAILED, and the
operator's page says of it that the supplier order was *not* created and that it
should be submitted again (`public/app.js:2137`). `approval-execute` records
FAILED for every refusal of order-submit
(`src/http/specialOfferOrderRoutes.ts:236`), including the ones it gets when the
order *was* placed: the first execution places the order, commits the budget and
stops (or is still busy) before it updates the request; the second finds the
reservation COMMITTED, or the offer changed, is refused with 409, and records
FAILED. `order-reconcile` then refuses the request because it is not
RECONCILIATION_REQUIRED. `OnePaidOrder` still holds: submitting again does not
order again; what is wrong is what the operator is told and that the request can
no longer be brought to SUBMITTED.

`phone_food_terms`: when the supplier's terms have changed, `confirm` tells the
caller to choose the product again (`phoneFoodCoordinator.ts:347`). But the choice
is recorded in the canonical ledger under one key per case, and the ledger has the
old terms under it: every later choice at other terms throws (line 482), and the
old terms are those the supplier no longer offers. The run shows a choice, made
after that message on the very record that carries it, being refused.

`web_order_terms`: "when any condition changes, preview and proof are dropped at
once" (`app.js:115`). `loadReview` sends the terms as they were before its calls
and stamps the answer with the terms as they are after them (`app.js:496`), so a
preview that was under way while the quantity changed counts as one of the new
quantity. The run ends at rest on the review page with a usable preview of
quantity 1 for an order of quantity 2; the proof is the server's, for quantity 1.

## Observations

What the models also show, and no document speaks against.

* Workflow: preparation is not repeated when terms change after it began and are
  signed again; a requested cancellation does not hold back a shipment; an order
  that is OUT_OF_STOCK can only be cancelled, whatever substitution is agreed.
* Paid order: the in-memory store's `complete` (`specialOffer.ts:326`) overwrites a
  COMPLETED record where Firestore's keeps it; the model follows Firestore. Budget
  reserved for a request that is never executed stays reserved. A reconciliation
  takes any order of the supplier's at the claimed terms, another case's too
  (`specialOffer.ts:428`), and writes this case's id into the record (429). When the
  supplier's answer comes after all, record and case may name different orders: the
  record keeps the first one completed, the case, while it is ORDERED, the first one
  rolled up, and the other handler fails. A phone case that was taken out of ORDERED again can be
  previewed, prepared and rolled up anew; what keeps it from a second order is the
  claim alone.
* Phone: a case has one policy key, which is what keeps its candidate (nothing else
  would); `interpret` can move an ORDERED case back, though not the order; digits 1
  and 2 may race, and the answer to 2 then says that nothing was ordered; a crash
  between case and phone record is never repaired (`phoneFoodCoordinator.ts:137`); a
  retried order previews anew and conflicts with its own claim (`app.ts:270`). With
  three or more overlapping jobs an order may be claimed on replays of refusals,
  without an accepted event.
* Escrow: a vault that holds less than its order's amount is neither released nor
  refunded; what arrives after the settlement stays in the re-created vault.
* Payment: a crash, or a transition the store fails (`caseCoordinator.ts:185`, 186,
  199, 200, 223, 225), leaves CONFIRMED, PAYMENT_AUTHORIZING, PAYMENT_REQUIRED, PAID
  or ORDER_SUBMITTING for good
  (`recoverOrder` starts from ORDER_REVIEW_REQUIRED and only tests call it); a gift
  between the two readings of the vault makes a funded payment fail; a settlement
  whose answer is lost ends as PAYMENT_FAILED with the vault funded, until the
  refund; money stays in the wallet if later steps fail; the commitment of a
  release is not tied to the order its authorisation names (`g6:124`): the papers of
  one purchase release the escrow of another, whose goods nobody has received, and
  `ShopPaidOnReceipt` says no more than that.
* Page: an older search may overwrite a newer one (354); a refused invitation
  removes its context but not the case it was for (458); an invitation starts two
  reviews (3658); products that arrive while a sentence is at the server are not
  shown.
* Desk: after its own execution the overview is not loaded again, so the table goes
  on naming the execution as next task; a cancelled order without consent stays
  under "to be handled" though neither page nor server offers anything for it; an
  answer to one execution is put under whichever request is being confirmed by then
  (1970-1990); reviews of a photograph overwrite each other without a look at the
  earlier verdict (`evidence.ts:69`); a RECONCILIATION_REQUIRED outcome is a 409,
  which the desk words as "already processed or terms changed".

## Not modelled

* Food policy and purchase policy: conjunctions of comparisons without state. Their
  answers are free choices of the models, which is more than the code does.
* Mandate signing (`g3`): one in-memory repository used by a demonstration.
* Interpretation challenge (`g2`): single-use nonces of another demonstration.
* Voice bridges, session and continuation tokens: stateless signatures and markup.
* Catalogue search, parsing, masking, conversation texts, projections' wording,
  exports, receipts and demonstration pages: conversions and display.
* The caregiver's and the merchant's pages: their actions reach the workflow from
  any revision in `RoleWorkflow`, which covers what such a page can have seen.

## Plan

1. *Done*: the four towers, the pages, and the proofs of all their safety properties.
2. `MandateSigning` (reserve, sign, mark, with a signer that fails in between)
   implementing a mandate that is never exceeded.
3. `FoodPolicy` against a reference definition.
