--------------------------- MODULE PaidOrderProofs ---------------------------
(***************************************************************************)
(* The paid order for any cases, offers, jobs, requests and budgets: its   *)
(* types, its inductive invariant, and what follows from it.               *)
(***************************************************************************)
EXTENDS PaidOrder, BudgetLedgerProofs

Reconciling == {"RECONCILE", "RECONCILE_DIRECT"}
Submitting  == {"SUBMIT", "DIRECT", "EXECUTE"}

Completed(c) == execution[c] # None /\ execution[c].status = "COMPLETED"
Committed(c) == reservations[c] # None /\ reservations[c].status = "COMMITTED"

\* The stores of a case.
CaseOK(c) ==
  /\ reservations[c] # None => reservations[c].status # "RELEASED"
  /\ execution[c] = None => Len(orders[c]) = 0
  /\ Len(orders[c]) <= 1
  /\ execution[c] # None =>
       /\ execution[c].consent \in DOMAIN consents[c]
       /\ reservations[c] # None /\ reservations[c].fingerprint = Claimed(c)
  /\ Completed(c) =>
       execution[c].order \in SupplierOrders /\ execution[c].order.terms = Claimed(c)
  /\ Committed(c) => Completed(c)
  /\ caseOrder[c] # None =>
       /\ Committed(c) /\ candidate[c] # None
       /\ caseOrder[c] \in SupplierOrders /\ caseOrder[c].terms = Claimed(c)
  /\ Ordered(c) => caseOrder[c] # None

RequestOK(r) ==
  approvals[r] # None =>
    LET c == approvals[r].case IN
      /\ approvals[r].consent \in DOMAIN consents[c]
      /\ approvals[r].status = "SUBMITTED" => caseOrder[c] # None /\ acknowledged[c]

\* Which steps a kind of job has.
StepOfKind(b) ==
  /\ b.step \in {"lookup", "reprepare", "settle"} => b.kind \in Reconciling
  /\ b.step \in {"prepare", "check", "reserve", "claim", "post", "create", "replace"} =>
       b.kind \notin Reconciling
  /\ b.step \in {"check", "claim", "post"} => b.kind \in Submitting
  /\ b.step = "reprepare" => b.kind = "RECONCILE"
  /\ b.step = "settle" => b.kind = "RECONCILE_DIRECT"
  /\ b.step = "replace" => b.kind = "REFRESH"
  /\ b.step = "phone" => b.kind = "DIRECT"
  /\ b.step \in {"submitted", "review", "failed"} => b.kind \in {"EXECUTE", "RECONCILE"}

\* What a job knows at its step is so.
JobOK(b) ==
  LET c == b.case IN
    /\ StepOfKind(b)
    /\ b.kind # "RECONCILE_DIRECT" => b.consent \in DOMAIN consents[c]
    /\ b.kind \in {"EXECUTE", "REFRESH", "RECONCILE"} =>
         b.request \in Requests /\ approvals[b.request] # None /\ approvals[b.request].case = c
    /\ b.step \in {"check", "reserve", "claim", "post"} => b.offer = consents[c][b.consent]
    /\ b.step \in {"claim", "post"} =>
         reservations[c] # None /\ reservations[c].fingerprint = b.offer
    /\ b.step = "complete" =>
         /\ execution[c] # None
         /\ b.order \in SupplierOrders /\ b.order.terms = Claimed(c)
    /\ b.step \in {"reprepare", "settle", "commit", "rollup", "acknowledge", "phone", "submitted"} =>
         /\ Completed(c)
         /\ b.order \in SupplierOrders /\ b.order.terms = Claimed(c)
    /\ b.step \in {"complete", "commit", "rollup"} /\ b.kind \notin Reconciling => b.offer \in Offers
    /\ b.step \in {"commit", "rollup"} /\ b.kind = "RECONCILE" => b.offer \in Offers
    /\ b.step \in {"rollup", "acknowledge", "phone", "submitted"} => Committed(c)
    /\ b.step \in {"acknowledge", "phone", "submitted"} => caseOrder[c] # None
    /\ b.step = "submitted" => acknowledged[c]

JobsOK == \A j \in Jobs, b \in Job : job[j] = b => JobOK(b)

\* Only the job that has the claim is at the supplier, and only once.
PostingOK ==
  \A j \in Jobs : At(j, "post") =>
    /\ execution[job[j].case] # None /\ execution[job[j].case].consent = job[j].consent
    /\ Len(orders[job[j].case]) = 0
    /\ \A k \in Jobs : At(k, "post") /\ job[k].case = job[j].case => k = j

PaidInv ==
  /\ PaidTypeOK
  /\ \A c \in Cases : CaseOK(c)
  /\ \A r \in Requests : RequestOK(r)
  /\ JobsOK
  /\ PostingOK

\* What no action takes back.
ReservationsGrow ==
  \A c \in Cases : reservations[c] # None =>
    /\ reservations'[c] # None /\ reservations'[c].fingerprint = reservations[c].fingerprint
    /\ reservations[c].status = "COMMITTED" => reservations'[c].status = "COMMITTED"

Grow ==
  /\ \A c \in Cases : \A n \in DOMAIN consents[c] :
       n \in DOMAIN consents'[c] /\ consents'[c][n] = consents[c][n]
  /\ ReservationsGrow
  /\ \A c \in Cases : execution[c] # None =>
       /\ execution'[c] # None /\ execution'[c].consent = execution[c].consent
       /\ execution[c].status = "COMPLETED" => execution'[c] = execution[c]
  /\ \A c \in Cases : \A n \in DOMAIN orders[c] :
       n \in DOMAIN orders'[c] /\ orders'[c][n] = orders[c][n]
  /\ \A c \in Cases : caseOrder[c] # None => caseOrder'[c] # None /\ candidate'[c] = candidate[c]
  /\ \A c \in Cases : Ordered(c) /\ Ordered(c)' => caseOrder'[c] = caseOrder[c]
  /\ \A c \in Cases : acknowledged[c] => acknowledged'[c]
  /\ \A r \in Requests : approvals[r] # None =>
       /\ approvals'[r] # None /\ approvals'[r].case = approvals[r].case
       /\ approvals'[r].consent = approvals[r].consent

-----------------------------------------------------------------------------
(* What the others rely on stays as it was.                                *)

\* What the supplier's orders are, and that it keeps them.
LEMMA SupplierTyped ==
  ASSUME PaidTypeOK
  PROVE  SupplierOrders \subseteq Orders /\ None \notin SupplierOrders
<1>1. SupplierOrders \subseteq Orders
  <2> SUFFICES ASSUME NEW x \in SupplierOrders PROVE x \in Orders OBVIOUS
  <2>1. CASE x \in OtherOrders BY <2>1, OtherOrdersAssumption DEF Orders
  <2>2. ASSUME NEW c \in Cases, x \in OrdersOf(c) PROVE x \in Orders
    <3>1. PICK s \in Seq(Offers) : s = orders[c] BY DEF PaidTypeOK
    <3>2. PICK n \in DOMAIN s : x = [of |-> c, no |-> n, terms |-> s[n]]
      BY <2>2, <3>1 DEF OrdersOf
    <3>3. n \in Nat /\ s[n] \in Offers BY <3>2
    <3> QED BY <3>2, <3>3 DEF Orders
  <2> QED BY <2>1, <2>2 DEF SupplierOrders
<1> QED BY <1>1, PaidNoneAssumption

LEMMA SupplierKept ==
  ASSUME Grow
  PROVE  SupplierOrders \subseteq SupplierOrders'
<1> SUFFICES ASSUME NEW x \in SupplierOrders PROVE x \in SupplierOrders' OBVIOUS
<1>1. CASE x \in OtherOrders BY <1>1 DEF SupplierOrders
<1>2. ASSUME NEW c \in Cases, x \in OrdersOf(c) PROVE x \in SupplierOrders'
  <2>1. PICK n \in DOMAIN orders[c] : x = [of |-> c, no |-> n, terms |-> orders[c][n]]
    BY <1>2 DEF OrdersOf
  <2>2. n \in DOMAIN orders'[c] /\ orders'[c][n] = orders[c][n]
    BY DEF Grow
  <2>3. x \in OrdersOf(c)'
    BY <2>1, <2>2 DEF OrdersOf
  <2> QED BY <2>3 DEF SupplierOrders
<1> QED BY <1>1, <1>2 DEF SupplierOrders

LEMMA JobKept ==
  ASSUME PaidInv, Grow
  PROVE  \A b \in Job : JobOK(b) => JobOK(b)'
<1> SUFFICES ASSUME NEW b \in Job, JobOK(b) PROVE JobOK(b)'
  OBVIOUS
<1>1. b.case \in Cases /\ CaseOK(b.case)
  BY DEF Job, PaidInv
<1>2. execution[b.case] # None => Claimed(b.case)' = Claimed(b.case)
  BY <1>1 DEF Grow, Claimed, CaseOK
<1>3. Completed(b.case) => Completed(b.case)'
  BY <1>1 DEF Grow, Completed
<1>4. Committed(b.case) => Committed(b.case)'
  BY <1>1 DEF Grow, ReservationsGrow, Committed
<1>5. b.kind # "RECONCILE_DIRECT" =>
        b.consent \in DOMAIN consents'[b.case] /\ consents'[b.case][b.consent] = consents[b.case][b.consent]
  BY <1>1 DEF Grow, JobOK
<1>6. b.step \in {"check", "reserve", "claim", "post"} => b.kind # "RECONCILE_DIRECT"
  BY DEF JobOK, StepOfKind, Reconciling
<1>7. b.step \in {"claim", "post"} =>
        reservations'[b.case] # None /\ reservations'[b.case].fingerprint = b.offer
  BY <1>1 DEF Grow, ReservationsGrow, JobOK
<1>8. b.step \in {"complete", "reprepare", "settle", "commit", "rollup", "acknowledge", "phone",
                  "submitted"} =>
        /\ execution'[b.case] # None
        /\ b.order \in SupplierOrders' /\ b.order.terms = Claimed(b.case)'
  <2>1. b.step \in {"complete", "reprepare", "settle", "commit", "rollup", "acknowledge", "phone",
                    "submitted"} =>
          /\ execution[b.case] # None
          /\ b.order \in SupplierOrders /\ b.order.terms = Claimed(b.case)
    BY DEF JobOK, Completed
  <2> QED BY <1>1, <1>2, <2>1, SupplierKept DEF Grow
<1>9. b.step \in {"acknowledge", "phone", "submitted"} => caseOrder'[b.case] # None
  BY <1>1 DEF Grow, JobOK
<1>10. b.step = "submitted" => acknowledged'[b.case]
  BY <1>1 DEF Grow, JobOK
<1>11. b.kind \in {"EXECUTE", "REFRESH", "RECONCILE"} =>
         b.request \in Requests /\ approvals'[b.request] # None /\ approvals'[b.request].case = b.case
  BY DEF Grow, JobOK
<1> QED BY <1>3, <1>4, <1>5, <1>6, <1>7, <1>8, <1>9, <1>10, <1>11 DEF JobOK

LEMMA CaseKept ==
  ASSUME PaidInv, Grow, NEW c \in Cases,
         reservations'[c] = reservations[c], execution'[c] = execution[c], orders'[c] = orders[c],
         candidate'[c] = candidate[c], caseOrder'[c] = caseOrder[c], Ordered(c)' => Ordered(c)
  PROVE  CaseOK(c)'
<1>1. CaseOK(c) BY DEF PaidInv
<1>2. execution[c] # None => Claimed(c)' = Claimed(c) /\ execution[c].consent \in DOMAIN consents'[c]
  BY <1>1 DEF Grow, Claimed, CaseOK
<1>3. /\ Completed(c)' = Completed(c) /\ Committed(c)' = Committed(c)
      /\ caseOrder[c] # None => execution[c] # None
  BY <1>1 DEF CaseOK, Completed, Committed
<1>4. Completed(c) => execution[c] # None BY DEF Completed
<1> QED BY <1>1, <1>2, <1>3, <1>4, SupplierKept DEF CaseOK

LEMMA RequestKept ==
  ASSUME PaidInv, Grow, NEW r \in Requests, approvals'[r] = approvals[r]
  PROVE  RequestOK(r)'
<1>1. RequestOK(r) BY DEF PaidInv
<1>2. approvals[r] # None => approvals[r].case \in Cases
  BY DEF PaidInv, PaidTypeOK, Approvals
<1> QED BY <1>1, <1>2 DEF RequestOK, Grow

\* One job moves: the invariant of the jobs is the mover's affair.
LEMMA JobsKept ==
  ASSUME PaidInv, Grow, NEW j \in Jobs, \A k \in Jobs \ {j} : job'[k] = job[k],
         \A b \in Job : job'[j] = b => JobOK(b)'
  PROVE  JobsOK'
<1> SUFFICES ASSUME NEW k \in Jobs, NEW b \in Job, job'[k] = b PROVE JobOK(b)'
  BY DEF JobsOK
<1>1. CASE k = j BY <1>1
<1>2. CASE k # j
  <2>1. job[k] = b BY <1>2
  <2>2. JobOK(b) BY <2>1 DEF PaidInv, JobsOK
  <2> QED BY <2>2, JobKept
<1> QED BY <1>1, <1>2

LEMMA PostingKept ==
  ASSUME PaidInv, Grow, NEW j \in Jobs, \A k \in Jobs \ {j} : job'[k] = job[k], ~At(j, "post")',
         \A k \in Jobs \ {j} : At(k, "post") => orders'[job[k].case] = orders[job[k].case]
  PROVE  PostingOK'
<1>1. \A k \in Jobs : At(k, "post") => job[k].case \in Cases
  BY DEF PaidInv, PaidTypeOK, Job, At
<1>2. \A k \in Jobs : At(k, "post")' => k # j /\ At(k, "post") /\ job'[k] = job[k]
  BY DEF At
<1> QED BY <1>1, <1>2 DEF PaidInv, PostingOK, Grow

-----------------------------------------------------------------------------
(* How a job moves, and what the steps of the budget do.                   *)

Moved(j, b) ==
  /\ job' \in [Jobs -> Job \cup {None}]
  /\ job'[j] = b
  /\ \A k \in Jobs \ {j} : job'[k] = job[k]

LEMMA DoneMoves ==
  ASSUME PaidTypeOK, NEW j \in Jobs, Done(j)
  PROVE  Moved(j, None)
BY DEF PaidTypeOK, Done, Moved

LEMMA GotoMoves ==
  ASSUME PaidTypeOK, NEW j \in Jobs, NEW a \in Job, job[j] = a, NEW s \in Steps, Goto(j, s)
  PROVE  Moved(j, [a EXCEPT !.step = s]) /\ [a EXCEPT !.step = s] \in Job
BY DEF PaidTypeOK, Goto, Moved, Job

LEMMA OfferMoves ==
  ASSUME PaidTypeOK, NEW j \in Jobs, NEW a \in Job, job[j] = a, NEW s \in Steps, NEW o \in Offers,
         job' = [job EXCEPT ![j].offer = o, ![j].step = s]
  PROVE  Moved(j, [a EXCEPT !.offer = o, !.step = s]) /\ [a EXCEPT !.offer = o, !.step = s] \in Job
BY DEF PaidTypeOK, Moved, Job

LEMMA OrderMoves ==
  ASSUME PaidTypeOK, NEW j \in Jobs, NEW a \in Job, job[j] = a, NEW s \in Steps,
         NEW x \in Orders \cup {None}, Knows(j, x, s)
  PROVE  Moved(j, [a EXCEPT !.order = x, !.step = s]) /\ [a EXCEPT !.order = x, !.step = s] \in Job
BY DEF PaidTypeOK, Knows, Moved, Job

\* A request is refused or is up for review: it ends, or records it.
LEMMA RefuseMoves ==
  ASSUME PaidTypeOK, NEW j \in Jobs, NEW a \in Job, job[j] = a, Refuse(j) \/ Review(j)
  PROVE  \/ Moved(j, None)
         \/ \E s \in {"review", "failed"} :
              /\ a.kind = "EXECUTE" /\ Moved(j, [a EXCEPT !.step = s])
              /\ [a EXCEPT !.step = s] \in Job
<1>1. {"review", "failed"} \subseteq Steps BY DEF Steps
<1>2. Done(j) \/ (a.kind = "EXECUTE" /\ \E s \in {"review", "failed"} : Goto(j, s))
  BY DEF Refuse, Review
<1> QED BY <1>1, <1>2, DoneMoves, GotoMoves

LEMMA ReserveTyped ==
  ASSUME BudgetTypeOK, NEW c \in Cases, NEW s \in Scopes, NEW amount \in Nat,
         NEW f \in Fingerprints, Allocation \in Nat, Reserve(c, s, Allocation, amount, f)
  PROVE  /\ BudgetTypeOK' /\ ReservationsGrow
         /\ \A d \in Cases \ {c} : reservations'[d] = reservations[d]
         /\ \/ reservations'[c] = reservations[c]
            \/ /\ reservations[c] = None
               /\ reservations'[c] # None /\ reservations'[c].status = "RESERVED"
         /\ ReserveResult(c, s, Allocation, amount, f) \in {"RESERVED", "EXISTING"} =>
              reservations'[c] # None /\ reservations'[c].fingerprint = f
<1> DEFINE new == [scope |-> s, amount |-> amount, fingerprint |-> f, status |-> "RESERVED"]
<1>1. CASE ReserveResult(c, s, Allocation, amount, f) # "RESERVED"
  <2>1. UNCHANGED budgetVars BY <1>1 DEF Reserve
  <2>2. ReserveResult(c, s, Allocation, amount, f) = "EXISTING" =>
          reservations[c] # None /\ reservations[c].fingerprint = f
    BY DEF ReserveResult, SameReservation
  <2> QED BY <1>1, <2>1, <2>2 DEF budgetVars, BudgetTypeOK, ReservationsGrow
<1>2. CASE ReserveResult(c, s, Allocation, amount, f) = "RESERVED"
  <2>1. reservations[c] = None
    BY <1>2 DEF ReserveResult
  <2>2. PICK account \in Accounts : account = AccountFor(s, Allocation)
    <3>1. [allocation |-> Allocation, reserved |-> 0, committed |-> 0] \in Accounts
      BY DEF Accounts
    <3>2. accounts[s] \in Accounts \cup {None}
      BY DEF BudgetTypeOK
    <3> QED BY <3>1, <3>2 DEF AccountFor
  <2>3. /\ accounts' = [accounts EXCEPT ![s] = [account EXCEPT !.reserved = @ + amount]]
        /\ reservations' = [reservations EXCEPT ![c] = new]
    BY <1>2, <2>2 DEF Reserve
  <2>4. [account EXCEPT !.reserved = @ + amount] \in Accounts
    BY DEF Accounts
  <2>5. new \in Reservations /\ new # None
    BY BudgetNoneAssumption DEF Reservations
  <2>6. reservations'[c] = new /\ \A d \in Cases \ {c} : reservations'[d] = reservations[d]
    BY <2>3 DEF BudgetTypeOK
  <2>7. BudgetTypeOK'
    BY <2>3, <2>4, <2>5 DEF BudgetTypeOK
  <2> QED BY <2>1, <2>5, <2>6, <2>7 DEF ReservationsGrow
<1> QED BY <1>1, <1>2

LEMMA SettleTyped ==
  ASSUME BudgetTypeOK, NEW c \in Cases, NEW f, Settleable(c, f, "COMMITTED"), Settle(c, f, "COMMITTED")
  PROVE  /\ BudgetTypeOK' /\ ReservationsGrow
         /\ \A d \in Cases \ {c} : reservations'[d] = reservations[d]
         /\ reservations'[c] # None /\ reservations'[c].status = "COMMITTED"
<1>1. PICK r \in Reservations : reservations[c] = r
  BY DEF Settleable, BudgetTypeOK
<1>2. CASE r.status = "COMMITTED"
  <2>1. UNCHANGED budgetVars BY <1>1, <1>2 DEF Settle
  <2> QED BY <1>1, <1>2, <2>1 DEF Settleable, budgetVars, BudgetTypeOK, ReservationsGrow
<1>3. CASE r.status # "COMMITTED"
  <2>1. PICK account \in Accounts :
          accounts[r.scope] = account /\ account.reserved >= r.amount
    BY <1>1, <1>3 DEF Settleable, BudgetTypeOK, Reservations
  <2>2. /\ accounts' = [accounts EXCEPT ![r.scope] =
             [account EXCEPT !.reserved = @ - r.amount, !.committed = @ + r.amount]]
        /\ reservations' = [reservations EXCEPT ![c] = [r EXCEPT !.status = "COMMITTED"]]
    BY <1>1, <1>3, <2>1 DEF Settle
  <2>3. [account EXCEPT !.reserved = @ - r.amount, !.committed = @ + r.amount] \in Accounts
    <3>1. account.reserved - r.amount \in Nat /\ account.committed + r.amount \in Nat
      BY <2>1 DEF Accounts, Reservations
    <3> QED BY <3>1 DEF Accounts
  <2>4. /\ [r EXCEPT !.status = "COMMITTED"] \in Reservations
        /\ [r EXCEPT !.status = "COMMITTED"] # None
        /\ [r EXCEPT !.status = "COMMITTED"].fingerprint = r.fingerprint
    BY BudgetNoneAssumption DEF Reservations
  <2>5. /\ reservations'[c] = [r EXCEPT !.status = "COMMITTED"]
        /\ \A d \in Cases \ {c} : reservations'[d] = reservations[d]
    BY <2>2 DEF BudgetTypeOK
  <2>6. BudgetTypeOK'
    BY <2>2, <2>3, <2>4 DEF BudgetTypeOK, Reservations
  <2> QED BY <1>1, <2>4, <2>5, <2>6 DEF ReservationsGrow, Reservations
<1> QED BY <1>2, <1>3

LEMMA NothingReserved ==
  ASSUME BudgetTypeOK, UNCHANGED budgetVars
  PROVE  BudgetTypeOK' /\ ReservationsGrow /\ \A c \in Cases : reservations'[c] = reservations[c]
BY DEF BudgetTypeOK, budgetVars, ReservationsGrow

-----------------------------------------------------------------------------
(* The steps that only move a job: requests, and what is read.             *)

LEMMA NothingGrows ==
  ASSUME PaidTypeOK, UNCHANGED <<budgetVars, storeVars>>
  PROVE  Grow
BY DEF Grow, ReservationsGrow, Ordered, budgetVars, storeVars, caseVars

LEMMA JobOnly ==
  ASSUME PaidInv, UNCHANGED <<budgetVars, storeVars>>, offer' \in [Cases -> Offers],
         NEW j \in Jobs, NEW b \in Job \cup {None}, Moved(j, b),
         b # None => b.step # "post" /\ JobOK(b)
  PROVE  PaidInv' /\ Grow
<1> USE DEF budgetVars, storeVars, caseVars
<1>1. PaidTypeOK BY DEF PaidInv
<1>2. Grow BY <1>1, NothingGrows
<1>3. PaidTypeOK'
  BY <1>1 DEF PaidTypeOK, BudgetTypeOK, Moved
<1>4. (\A c \in Cases : CaseOK(c)') /\ \A r \in Requests : RequestOK(r)'
  BY <1>2, CaseKept, RequestKept DEF Ordered
<1>5. JobsOK'
  <2>1. \A d \in Job : job'[j] = d => JobOK(d)'
    BY <1>2, JobKept, PaidNoneAssumption DEF Moved
  <2> QED BY <1>2, <2>1, JobsKept DEF Moved
<1>6. PostingOK'
  BY <1>2, PostingKept DEF Moved, At
<1> QED BY <1>2, <1>3, <1>4, <1>5, <1>6 DEF PaidInv

LEMMA StartMoves ==
  ASSUME PaidTypeOK, NEW kind \in Kinds, NEW c \in Cases, NEW n \in Nat,
         NEW r \in Requests \cup {None}, NEW step \in Steps, Start(kind, c, n, r, step)
  PROVE  \E j \in Jobs, b \in Job :
           /\ Moved(j, b)
           /\ b.kind = kind /\ b.case = c /\ b.consent = n /\ b.request = r /\ b.step = step
<1> DEFINE b == [kind |-> kind, case |-> c, consent |-> n, offer |-> None, order |-> None,
                 request |-> r, step |-> step]
<1>1. b \in Job BY DEF Job
<1>2. PICK j \in Jobs : job' = [job EXCEPT ![j] = b] BY DEF Start
<1>3. Moved(j, b) BY <1>1, <1>2 DEF Moved, PaidTypeOK
<1> QED BY <1>1, <1>3

\* What a request brings is a consent of its case, or nothing.
LEMMA Requested ==
  ASSUME PaidInv, UNCHANGED <<budgetVars, offer, storeVars>>,
         NEW kind \in Kinds, NEW c \in Cases, NEW n \in Nat, NEW r \in Requests \cup {None},
         Start(kind, c, n, r, IF kind \in Reconciling THEN "lookup" ELSE "prepare"),
         kind # "RECONCILE_DIRECT" => n \in DOMAIN consents[c],
         kind \in {"EXECUTE", "REFRESH", "RECONCILE"} =>
           r \in Requests /\ approvals[r] # None /\ approvals[r].case = c
  PROVE  PaidInv' /\ Grow
<1>1. PICK step \in Steps : step = IF kind \in Reconciling THEN "lookup" ELSE "prepare"
  BY DEF Steps
<1>2. PICK j \in Jobs, b \in Job :
        /\ Moved(j, b)
        /\ b.kind = kind /\ b.case = c /\ b.consent = n /\ b.request = r /\ b.step = step
  BY <1>1, StartMoves DEF PaidInv
<1>3. StepOfKind(b) BY <1>1, <1>2 DEF StepOfKind, Reconciling
<1>4. JobOK(b) /\ b.step # "post" BY <1>1, <1>2, <1>3 DEF JobOK
<1>5. offer' \in [Cases -> Offers] BY DEF PaidInv, PaidTypeOK
<1> QED BY <1>2, <1>4, <1>5, JobOnly

LEMMA CaseRequests ==
  ASSUME PaidInv, NEW c \in Cases, NEW n \in Nat,
         Submit(c, n) \/ SubmitDirect(c, n) \/ RequestApproval(c, n) \/ ReconcileDirect(c)
  PROVE  PaidInv' /\ Grow
<1>1. ASSUME Submit(c, n) PROVE PaidInv' /\ Grow
  BY <1>1, Requested DEF Submit, Minted, Kinds, Reconciling
<1>2. ASSUME SubmitDirect(c, n) PROVE PaidInv' /\ Grow
  BY <1>2, Requested DEF SubmitDirect, Minted, Kinds, Reconciling
<1>3. ASSUME RequestApproval(c, n) PROVE PaidInv' /\ Grow
  BY <1>3, Requested DEF RequestApproval, Minted, Kinds, Reconciling
<1>4. ASSUME ReconcileDirect(c) PROVE PaidInv' /\ Grow
  BY <1>4, Requested DEF ReconcileDirect, Kinds, Reconciling
<1> QED BY <1>1, <1>2, <1>3, <1>4

LEMMA InboxRequests ==
  ASSUME PaidInv, NEW r \in Requests, NEW n \in Nat, Execute(r) \/ Refresh(r, n) \/ Reconcile(r)
  PROVE  PaidInv' /\ Grow
<1>1. PICK a \in Approvals : approvals[r] = a
  BY DEF PaidInv, PaidTypeOK, Execute, Refresh, Reconcile, Pending
<1>2. a # None /\ a.case \in Cases /\ a.consent \in Nat /\ a.consent \in DOMAIN consents[a.case]
  BY <1>1, PaidNoneAssumption DEF PaidInv, RequestOK, Approvals
<1>3. ASSUME Execute(r) PROVE PaidInv' /\ Grow
  BY <1>1, <1>2, <1>3, Requested DEF Execute, Kinds, Reconciling
<1>4. ASSUME Refresh(r, n) PROVE PaidInv' /\ Grow
  BY <1>1, <1>2, <1>4, Requested DEF Refresh, Minted, Kinds, Reconciling
<1>5. ASSUME Reconcile(r) PROVE PaidInv' /\ Grow
  BY <1>1, <1>2, <1>5, Requested DEF Reconcile, Kinds, Reconciling
<1> QED BY <1>3, <1>4, <1>5

LEMMA NoJob ==
  ASSUME PaidInv, Grow, PaidTypeOK',
         UNCHANGED <<budgetVars, execution, orders, approvals, candidate, caseOrder, acknowledged, job>>,
         \A c \in Cases : Ordered(c)' => Ordered(c)
  PROVE  PaidInv'
<1> USE DEF budgetVars
<1>1. (\A c \in Cases : CaseOK(c)') /\ \A r \in Requests : RequestOK(r)'
  BY CaseKept, RequestKept
<1>2. JobsOK'
  BY JobKept DEF JobsOK, PaidInv
<1>3. PostingOK'
  BY DEF PaidInv, PostingOK, At
<1> QED BY <1>1, <1>2, <1>3 DEF PaidInv

LEMMA OfferStep ==
  ASSUME PaidInv, NEW c \in Cases, OfferChanges(c)
  PROVE  PaidInv' /\ Grow
<1>1. Grow BY NothingGrows DEF OfferChanges, PaidInv
<1>2. PaidTypeOK'
  BY DEF OfferChanges, PaidInv, PaidTypeOK, BudgetTypeOK, budgetVars, storeVars,
         caseVars
<1> QED BY <1>1, <1>2, NoJob DEF OfferChanges, budgetVars, storeVars, caseVars, Ordered

LEMMA PreviewStep ==
  ASSUME PaidInv, NEW c \in Cases, Preview(c)
  PROVE  PaidInv' /\ Grow
<1>1. PaidTypeOK BY DEF PaidInv
<1>2. PICK s \in Seq(Offers) : consents[c] = s BY <1>1 DEF PaidTypeOK
<1>3. PICK o \in Offers : offer[c] = o BY <1>1 DEF PaidTypeOK
<1>4. consents' = [consents EXCEPT ![c] = Append(s, o)]
  BY <1>2, <1>3 DEF Preview
<1>5. /\ Append(s, o) \in Seq(Offers)
      /\ \A n \in DOMAIN s : n \in DOMAIN Append(s, o) /\ Append(s, o)[n] = s[n]
  OBVIOUS
<1>6. consents' \in [Cases -> Seq(Offers)]
  BY <1>1, <1>4, <1>5 DEF PaidTypeOK
<1>7. PaidTypeOK'
  BY <1>1, <1>6 DEF Preview, PaidTypeOK, BudgetTypeOK, budgetVars, caseVars
<1>8. \A d \in Cases : \A n \in DOMAIN consents[d] :
        n \in DOMAIN consents'[d] /\ consents'[d][n] = consents[d][n]
  BY <1>1, <1>2, <1>4, <1>5 DEF PaidTypeOK
<1>9. Grow
  BY <1>8 DEF Preview, Grow, ReservationsGrow, Ordered, budgetVars, caseVars
<1> QED BY <1>7, <1>9, NoJob DEF Preview, Ordered, caseVars

LEMMA PhoneMovesStep ==
  ASSUME PaidInv, NEW c \in Cases, PhoneMoves(c)
  PROVE  PaidInv' /\ Grow
<1>1. /\ state' \in [Cases -> {"OPEN", "ORDERED"}]
      /\ \A d \in Cases : state'[d] = "OPEN" \/ state'[d] = state[d]
  BY DEF PhoneMoves, PaidInv, PaidTypeOK
<1>2. \A d \in Cases : Ordered(d)' => Ordered(d)
  BY <1>1 DEF Ordered
<1>3. PaidTypeOK'
  BY <1>1 DEF PhoneMoves, PaidInv, PaidTypeOK, BudgetTypeOK, budgetVars
<1>4. Grow
  BY <1>2 DEF PhoneMoves, Grow, ReservationsGrow, budgetVars
<1> QED BY <1>2, <1>3, <1>4, NoJob DEF PhoneMoves

LEMMA StopStep ==
  ASSUME PaidInv, NEW j \in Jobs, Stop(j)
  PROVE  PaidInv' /\ Grow
<1>1. Moved(j, None) BY DoneMoves DEF PaidInv, Stop
<1>2. offer' \in [Cases -> Offers] BY DEF Stop, PaidInv, PaidTypeOK
<1> QED BY <1>1, <1>2, JobOnly DEF Stop

\* What a step may rely on: the job as the invariant has it.
LEMMA AtStep ==
  ASSUME PaidInv, NEW j \in Jobs, NEW step, At(j, step)
  PROVE  \E a \in Job : /\ job[j] = a /\ a.step = step /\ JobOK(a)
                        /\ a.case \in Cases /\ CaseOK(a.case)
<1>1. PICK a \in Job : job[j] = a
  BY DEF PaidInv, PaidTypeOK, At
<1> QED BY <1>1 DEF PaidInv, JobsOK, At, Job

\* A refusal leaves the invariant.
LEMMA RefuseStep ==
  ASSUME PaidInv, NEW j \in Jobs, NEW a \in Job, job[j] = a, JobOK(a),
         Refuse(j) \/ Review(j), UNCHANGED <<budgetVars, offer, storeVars>>
  PROVE  PaidInv' /\ Grow
<1>1. offer' \in [Cases -> Offers] BY DEF PaidInv, PaidTypeOK
<1>2. CASE Moved(j, None) BY <1>1, <1>2, JobOnly
<1>3. ASSUME NEW s \in {"review", "failed"}, a.kind = "EXECUTE", Moved(j, [a EXCEPT !.step = s]),
             [a EXCEPT !.step = s] \in Job
      PROVE  PaidInv' /\ Grow
  <2> DEFINE b == [a EXCEPT !.step = s]
  <2>1. /\ b.kind = a.kind /\ b.case = a.case /\ b.consent = a.consent /\ b.request = a.request
        /\ b.step = s
    BY DEF Job
  <2>2. JobOK(b) BY <1>3, <2>1 DEF JobOK, StepOfKind, Reconciling, Submitting
  <2> QED BY <1>1, <1>3, <2>1, <2>2, JobOnly
<1> QED BY <1>2, <1>3, RefuseMoves DEF PaidInv

\* A job goes on with what the invariant says of its next step.
LEMMA GoOnStep ==
  ASSUME PaidInv, NEW j \in Jobs, NEW b \in Job, Moved(j, b), b.step # "post", JobOK(b),
         UNCHANGED <<budgetVars, offer, storeVars>>
  PROVE  PaidInv' /\ Grow
<1>1. offer' \in [Cases -> Offers] BY DEF PaidInv, PaidTypeOK
<1> QED BY <1>1, JobOnly

LEMMA PrepareStep ==
  ASSUME PaidInv, NEW j \in Jobs, Prepare(j)
  PROVE  PaidInv' /\ Grow
<1>1. PICK a \in Job : /\ job[j] = a /\ a.step = "prepare" /\ JobOK(a)
                       /\ a.case \in Cases /\ CaseOK(a.case)
  BY AtStep DEF Prepare
<1>2. CASE Refuse(j)
  BY <1>1, <1>2, RefuseStep DEF Prepare
<1>3. CASE ~Refuse(j)
  <2>1. PICK s \in Steps :
          s = IF a.kind \in {"SUBMIT", "EXECUTE"} THEN "check" ELSE "reserve"
    BY DEF Steps
  <2>2. PICK o \in Offers : o = offer[a.case]
    BY <1>1 DEF PaidInv, PaidTypeOK
  <2>3. o = consents[a.case][a.consent] /\ job' = [job EXCEPT ![j].offer = o, ![j].step = s]
    BY <1>1, <1>3, <2>1, <2>2 DEF Prepare, Agreed
  <2> DEFINE b == [a EXCEPT !.offer = o, !.step = s]
  <2>4. Moved(j, b) /\ b \in Job
    BY <1>1, <2>3, OfferMoves DEF PaidInv
  <2>5. /\ b.kind = a.kind /\ b.case = a.case /\ b.consent = a.consent /\ b.request = a.request
        /\ b.step = s /\ b.offer = o
    BY DEF Job
  <2>6. StepOfKind(b)
    BY <1>1, <2>1, <2>5 DEF JobOK, StepOfKind, Reconciling, Submitting
  <2>7. JobOK(b) /\ b.step # "post"
    BY <1>1, <2>1, <2>3, <2>5, <2>6 DEF JobOK
  <2> QED BY <2>4, <2>7, GoOnStep DEF Prepare
<1> QED BY <1>2, <1>3

LEMMA CheckStep ==
  ASSUME PaidInv, NEW j \in Jobs, Check(j)
  PROVE  PaidInv' /\ Grow
<1>1. PICK a \in Job : /\ job[j] = a /\ a.step = "check" /\ JobOK(a)
                       /\ a.case \in Cases /\ CaseOK(a.case)
  BY AtStep DEF Check
<1>2. CASE Refuse(j)
  BY <1>1, <1>2, RefuseStep DEF Check
<1>3. CASE ~Refuse(j)
  <2>1. /\ reservations[a.case] # None /\ reservations[a.case].fingerprint = a.offer
        /\ Goto(j, "claim")
    BY <1>1, <1>3 DEF Check
  <2> DEFINE b == [a EXCEPT !.step = "claim"]
  <2>2. Moved(j, b) /\ b \in Job
    BY <1>1, <2>1, GotoMoves DEF PaidInv, Steps
  <2>3. /\ b.kind = a.kind /\ b.case = a.case /\ b.consent = a.consent /\ b.request = a.request
        /\ b.step = "claim" /\ b.offer = a.offer
    BY DEF Job
  <2>4. StepOfKind(b)
    BY <1>1, <2>3 DEF JobOK, StepOfKind, Reconciling, Submitting
  <2>5. JobOK(b)
    BY <1>1, <2>1, <2>3, <2>4 DEF JobOK
  <2> QED BY <2>2, <2>3, <2>5, GoOnStep DEF Check
<1> QED BY <1>2, <1>3

LEMMA RePrepareStep ==
  ASSUME PaidInv, NEW j \in Jobs, RePrepare(j)
  PROVE  PaidInv' /\ Grow
<1>1. PICK a \in Job : /\ job[j] = a /\ a.step = "reprepare" /\ JobOK(a)
                       /\ a.case \in Cases /\ CaseOK(a.case)
  BY AtStep DEF RePrepare
<1>2. PICK o \in Offers : o = offer[a.case]
  BY <1>1 DEF PaidInv, PaidTypeOK
<1>3. job' = [job EXCEPT ![j].offer = o, ![j].step = "commit"]
  BY <1>1, <1>2 DEF RePrepare
<1> DEFINE b == [a EXCEPT !.offer = o, !.step = "commit"]
<1>4. Moved(j, b) /\ b \in Job
  BY <1>1, <1>3, OfferMoves DEF PaidInv, Steps
<1>5. /\ b.kind = a.kind /\ b.case = a.case /\ b.consent = a.consent /\ b.request = a.request
      /\ b.step = "commit" /\ b.offer = o /\ b.order = a.order
  BY DEF Job
<1>6. StepOfKind(b)
  BY <1>5 DEF StepOfKind
<1>7. JobOK(b)
  BY <1>1, <1>5, <1>6 DEF JobOK
<1> QED BY <1>4, <1>5, <1>7, GoOnStep DEF RePrepare

LEMMA LookupStep ==
  ASSUME PaidInv, NEW j \in Jobs, Lookup(j)
  PROVE  PaidInv' /\ Grow
<1>1. PICK a \in Job : /\ job[j] = a /\ a.step = "lookup" /\ JobOK(a)
                       /\ a.case \in Cases /\ CaseOK(a.case)
  BY AtStep DEF Lookup
<1>2. PICK e \in Executions \cup {None} : e = execution[a.case]
  BY <1>1 DEF PaidInv, PaidTypeOK
<1>3. a.kind \in Reconciling
  BY <1>1 DEF JobOK, StepOfKind
<1>4. CASE Done(j)
  BY <1>4, StopStep, <1>1, PaidNoneAssumption DEF Lookup, Stop
<1>5. ASSUME e # None, e.status = "COMPLETED", Found(j, e.order)
      PROVE  PaidInv' /\ Grow
  <2>1. PICK s \in Steps : s = IF a.kind = "RECONCILE" THEN "reprepare" ELSE "settle"
    BY DEF Steps
  <2>2. PICK x \in Orders \cup {None} : x = e.order
    BY <1>5 DEF Executions
  <2>3. Knows(j, x, s)
    BY <1>1, <1>5, <2>1, <2>2 DEF Found
  <2> DEFINE b == [a EXCEPT !.order = x, !.step = s]
  <2>4. Moved(j, b) /\ b \in Job
    BY <1>1, <2>3, OrderMoves DEF PaidInv
  <2>5. /\ b.kind = a.kind /\ b.case = a.case /\ b.consent = a.consent /\ b.request = a.request
        /\ b.step = s /\ b.order = x
    BY DEF Job
  <2>6. StepOfKind(b)
    BY <1>3, <2>1, <2>5 DEF StepOfKind, Reconciling
  <2>7. Completed(a.case) /\ x \in SupplierOrders /\ x.terms = Claimed(a.case)
    BY <1>1, <1>2, <1>5, <2>2 DEF CaseOK, Completed
  <2>8. JobOK(b) /\ b.step # "post"
    BY <1>1, <2>1, <2>5, <2>6, <2>7 DEF JobOK
  <2> QED BY <2>4, <2>8, GoOnStep DEF Lookup
<1>6. ASSUME e # None, NEW x \in SupplierOrders,
             Matches(x, consents[a.case][e.consent]), Knows(j, x, "complete")
      PROVE  PaidInv' /\ Grow
  <2>1. x \in Orders
    BY SupplierTyped DEF PaidInv
  <2> DEFINE b == [a EXCEPT !.order = x, !.step = "complete"]
  <2>2. Moved(j, b) /\ b \in Job
    BY <1>1, <1>6, <2>1, OrderMoves DEF PaidInv, Steps
  <2>3. /\ b.kind = a.kind /\ b.case = a.case /\ b.consent = a.consent /\ b.request = a.request
        /\ b.step = "complete" /\ b.order = x
    BY DEF Job
  <2>4. StepOfKind(b)
    BY <2>3 DEF StepOfKind
  <2>5. JobOK(b)
    BY <1>1, <1>2, <1>3, <1>6, <2>3, <2>4 DEF JobOK, Matches, Claimed, Reconciling
  <2> QED BY <2>2, <2>3, <2>5, GoOnStep DEF Lookup
<1> QED BY <1>1, <1>2, <1>4, <1>5, <1>6 DEF Lookup

-----------------------------------------------------------------------------
(* The steps that write the stores of one case.                            *)

LEMMA StoreStep ==
  ASSUME PaidInv, Grow, PaidTypeOK', PostingOK', UNCHANGED approvals,
         NEW j \in Jobs, NEW b \in Job \cup {None}, Moved(j, b), b # None => JobOK(b)',
         NEW c \in Cases, CaseOK(c)',
         \A d \in Cases \ {c} :
           /\ reservations'[d] = reservations[d] /\ execution'[d] = execution[d]
           /\ orders'[d] = orders[d] /\ candidate'[d] = candidate[d]
           /\ caseOrder'[d] = caseOrder[d] /\ state'[d] = state[d]
  PROVE  PaidInv'
<1>1. \A d \in Cases : CaseOK(d)'
  <2> SUFFICES ASSUME NEW d \in Cases PROVE CaseOK(d)' OBVIOUS
  <2>1. CASE d = c BY <2>1
  <2>2. CASE d # c BY <2>2, CaseKept DEF Ordered
  <2> QED BY <2>1, <2>2
<1>2. \A r \in Requests : RequestOK(r)'
  BY RequestKept
<1>3. JobsOK'
  <2>1. \A d \in Job : job'[j] = d => JobOK(d)'
    BY PaidNoneAssumption DEF Moved
  <2> QED BY <2>1, JobsKept DEF Moved
<1> QED BY <1>1, <1>2, <1>3 DEF PaidInv

LEMMA ReserveStep ==
  ASSUME PaidInv, NEW j \in Jobs, ReserveBudget(j)
  PROVE  PaidInv' /\ Grow
<1>1. PICK a \in Job : /\ job[j] = a /\ a.step = "reserve" /\ JobOK(a)
                       /\ a.case \in Cases /\ CaseOK(a.case)
  BY AtStep DEF ReserveBudget
<1>2. PICK c \in Cases : c = a.case
  BY <1>1
<1>3. PICK o \in Offers : o = a.offer
  <2>1. a.kind \notin Reconciling BY <1>1 DEF JobOK, StepOfKind
  <2>2. consents[a.case] \in Seq(Offers) BY <1>1 DEF PaidInv, PaidTypeOK
  <2> QED BY <1>1, <2>1, <2>2 DEF JobOK, Reconciling
<1>4. PICK s \in Scopes :
        /\ Reserve(c, s, Allocation, Price[o], o)
        /\ IF ReserveResult(c, s, Allocation, Price[o], o) \in {"RESERVED", "EXISTING"}
           THEN Goto(j, IF a.kind = "DIRECT" THEN "claim" ELSE "create") ELSE Done(j)
  BY <1>1, <1>2, <1>3 DEF ReserveBudget
<1>5. PICK amount \in Nat : amount = Price[o]
  BY OfferAssumption
<1>6. /\ BudgetTypeOK' /\ ReservationsGrow
      /\ \A d \in Cases \ {c} : reservations'[d] = reservations[d]
      /\ \/ reservations'[c] = reservations[c]
         \/ /\ reservations[c] = None
            /\ reservations'[c] # None /\ reservations'[c].status = "RESERVED"
      /\ ReserveResult(c, s, Allocation, amount, o) \in {"RESERVED", "EXISTING"} =>
           reservations'[c] # None /\ reservations'[c].fingerprint = o
  BY <1>4, <1>5, OfferAssumption, BoundAssumption, ReserveTyped DEF PaidInv, PaidTypeOK
<1>7. UNCHANGED <<offer, consents, execution, orders, approvals, candidate, state, phone, caseOrder,
                  acknowledged>>
  BY DEF ReserveBudget, storeVars, caseVars
<1>8. Grow
  BY <1>6, <1>7 DEF Grow, Ordered
<1>9. CaseOK(c)'
  BY <1>1, <1>2, <1>6, <1>7 DEF CaseOK, Completed, Committed, Claimed, Ordered, SupplierOrders, OrdersOf
<1>10. PICK b \in Job \cup {None} : Moved(j, b) /\ (b # None => b.step # "post" /\ JobOK(b)')
  <2>1. CASE ~(ReserveResult(c, s, Allocation, amount, o) \in {"RESERVED", "EXISTING"})
    BY <1>4, <1>5, <2>1, DoneMoves DEF PaidInv
  <2>2. CASE ReserveResult(c, s, Allocation, amount, o) \in {"RESERVED", "EXISTING"}
    <3>1. PICK t \in Steps : t = IF a.kind = "DIRECT" THEN "claim" ELSE "create"
      BY DEF Steps
    <3>2. Moved(j, [a EXCEPT !.step = t]) /\ [a EXCEPT !.step = t] \in Job
      BY <1>1, <1>4, <1>5, <2>2, <3>1, GotoMoves DEF PaidInv
    <3> DEFINE b == [a EXCEPT !.step = t]
    <3>3. /\ b.kind = a.kind /\ b.case = a.case /\ b.consent = a.consent /\ b.request = a.request
          /\ b.step = t /\ b.offer = a.offer
      BY DEF Job
    <3>4. JobOK(a)' BY <1>1, <1>8, JobKept
    <3>5. StepOfKind(b)
      BY <1>1, <3>1, <3>3 DEF JobOK, StepOfKind, Reconciling, Submitting
    <3>6. reservations'[b.case] # None /\ reservations'[b.case].fingerprint = b.offer
      BY <1>2, <1>3, <1>6, <2>2, <3>3
    <3>7. t \in {"claim", "create"} BY <3>1
    <3>8. JobOK(b)'
      BY <1>1, <3>3, <3>4, <3>5, <3>6, <3>7 DEF JobOK, StepOfKind
    <3> QED BY <3>2, <3>3, <3>7, <3>8
  <2> QED BY <2>1, <2>2
<1>11. PaidTypeOK'
  BY <1>6, <1>7, <1>10 DEF PaidInv, PaidTypeOK, Moved
<1>12. PostingOK'
  BY <1>7, <1>8, <1>10, PostingKept DEF Moved, At
<1> QED BY <1>2, <1>6, <1>7, <1>8, <1>9, <1>10, <1>11, <1>12, StoreStep

\* The budget of a completed order is spent, and its job goes on to the rollup.
LEMMA SpendStep ==
  ASSUME PaidInv, NEW j \in Jobs, NEW a \in Job, job[j] = a, JobOK(a),
         a.step \in {"commit", "settle"}, NEW f,
         Settleable(a.case, f, "COMMITTED"), Settle(a.case, f, "COMMITTED"),
         Goto(j, "rollup"), UNCHANGED <<offer, storeVars>>
  PROVE  PaidInv' /\ Grow
<1>1. PICK c \in Cases : c = a.case
  BY DEF Job
<1>2. /\ BudgetTypeOK' /\ ReservationsGrow
      /\ \A d \in Cases \ {c} : reservations'[d] = reservations[d]
      /\ reservations'[c] # None /\ reservations'[c].status = "COMMITTED"
  BY <1>1, SettleTyped DEF PaidInv, PaidTypeOK
<1>3. UNCHANGED <<offer, consents, execution, orders, approvals, candidate, state, phone, caseOrder,
                  acknowledged>>
  BY DEF storeVars, caseVars
<1>4. Grow
  BY <1>2, <1>3 DEF Grow, Ordered
<1> DEFINE b == [a EXCEPT !.step = "rollup"]
<1>5. Moved(j, b) /\ b \in Job
  BY GotoMoves DEF PaidInv, Steps
<1>6. /\ b.kind = a.kind /\ b.case = a.case /\ b.consent = a.consent /\ b.request = a.request
      /\ b.step = "rollup" /\ b.offer = a.offer /\ b.order = a.order
  BY DEF Job
<1>7. CaseOK(c) /\ Completed(c)
  BY <1>1 DEF PaidInv, JobOK
<1>8. execution[c] # None => reservations[c] # None /\ reservations'[c].fingerprint = reservations[c].fingerprint
  BY <1>2, <1>7 DEF CaseOK, ReservationsGrow
<1>9. CaseOK(c)'
  BY <1>2, <1>3, <1>7, <1>8 DEF CaseOK, Completed, Committed, Claimed, Ordered, SupplierOrders, OrdersOf
<1>10. JobOK(a)' BY <1>4, JobKept
<1>11. StepOfKind(b)
  BY <1>6 DEF StepOfKind
<1>12. a.step = "settle" => a.kind = "RECONCILE_DIRECT"
  BY DEF JobOK, StepOfKind
<1>13. JobOK(b)'
  <2>1. Committed(c)' BY <1>2 DEF Committed
  <2> QED BY <1>1, <1>6, <1>10, <1>11, <1>12, <2>1 DEF JobOK, Reconciling
<1>14. PaidTypeOK'
  BY <1>2, <1>3, <1>5 DEF PaidInv, PaidTypeOK, Moved
<1>15. PostingOK'
  BY <1>3, <1>4, <1>5, <1>6, PostingKept DEF Moved, At
<1> QED BY <1>2, <1>3, <1>4, <1>5, <1>9, <1>13, <1>14, <1>15, StoreStep

LEMMA CommitStep ==
  ASSUME PaidInv, NEW j \in Jobs, Commit(j)
  PROVE  PaidInv' /\ Grow
<1>1. PICK a \in Job : /\ job[j] = a /\ a.step = "commit" /\ JobOK(a)
                       /\ a.case \in Cases /\ CaseOK(a.case)
  BY AtStep DEF Commit
<1> QED BY <1>1, SpendStep DEF Commit

LEMMA SettleDirectStep ==
  ASSUME PaidInv, NEW j \in Jobs, SettleDirect(j)
  PROVE  PaidInv' /\ Grow
<1>1. PICK a \in Job : /\ job[j] = a /\ a.step = "settle" /\ JobOK(a)
                       /\ a.case \in Cases /\ CaseOK(a.case)
  BY AtStep DEF SettleDirect
<1>2. PICK f : f = reservations[a.case].fingerprint
  OBVIOUS
<1> QED BY <1>1, <1>2, SpendStep DEF SettleDirect

\* Whoever is at the supplier has claimed the execution of the case.
LEMMA PostingClaimed ==
  ASSUME PaidInv, NEW k \in Jobs, At(k, "post")
  PROVE  /\ job[k].case \in Cases /\ execution[job[k].case] # None
         /\ Len(orders[job[k].case]) = 0
BY AtStep DEF PaidInv, PostingOK

LEMMA ClaimStep ==
  ASSUME PaidInv, NEW j \in Jobs, Claim(j)
  PROVE  PaidInv' /\ Grow
<1>1. PICK a \in Job : /\ job[j] = a /\ a.step = "claim" /\ JobOK(a)
                       /\ a.case \in Cases /\ CaseOK(a.case)
  BY AtStep DEF Claim
<1>2. PICK c \in Cases : c = a.case
  BY <1>1
<1>3. PICK e \in Executions \cup {None} : e = execution[c]
  BY DEF PaidInv, PaidTypeOK
<1>4. UNCHANGED <<accounts, reservations, offer, consents, orders, approvals, candidate, state,
                  phone, caseOrder, acknowledged>>
  BY DEF Claim, budgetVars, caseVars
<1>5. a.kind \in Submitting
  BY <1>1 DEF JobOK, StepOfKind
<1>6. ASSUME e # None, UNCHANGED execution, Done(j)
      PROVE  PaidInv' /\ Grow
  BY <1>1, <1>4, <1>6, StopStep, PaidNoneAssumption DEF Stop, storeVars, caseVars, budgetVars
<1>7. ASSUME e # None, UNCHANGED execution, Review(j)
      PROVE  PaidInv' /\ Grow
  BY <1>1, <1>4, <1>7, RefuseStep DEF storeVars, caseVars, budgetVars
<1>8. ASSUME e # None, e.status = "COMPLETED", UNCHANGED execution, Knows(j, e.order, "commit")
      PROVE  PaidInv' /\ Grow
  <2>1. PICK x \in Orders \cup {None} : x = e.order
    BY <1>8 DEF Executions
  <2> DEFINE b == [a EXCEPT !.order = x, !.step = "commit"]
  <2>2. Moved(j, b) /\ b \in Job
    BY <1>1, <1>8, <2>1, OrderMoves DEF PaidInv, Steps
  <2>3. /\ b.kind = a.kind /\ b.case = a.case /\ b.consent = a.consent /\ b.request = a.request
        /\ b.step = "commit" /\ b.order = x /\ b.offer = a.offer
    BY DEF Job
  <2>4. a.offer \in Offers
    <3>1. a.kind \notin Reconciling BY <1>5 DEF Submitting, Reconciling
    <3>2. consents[a.case] \in Seq(Offers) BY <1>1 DEF PaidInv, PaidTypeOK
    <3> QED BY <1>1, <3>1, <3>2 DEF JobOK, Reconciling
  <2>5. StepOfKind(b)
    BY <2>3 DEF StepOfKind
  <2>6. Completed(a.case) /\ x \in SupplierOrders /\ x.terms = Claimed(a.case)
    BY <1>1, <1>2, <1>3, <1>8, <2>1 DEF CaseOK, Completed
  <2>7. JobOK(b)
    BY <1>1, <2>3, <2>4, <2>5, <2>6 DEF JobOK
  <2> QED BY <1>4, <1>8, <2>2, <2>3, <2>7, GoOnStep DEF storeVars, caseVars, budgetVars
<1>9. ASSUME e = None, execution' = [execution EXCEPT ![c] = InFlight(a.consent)], Goto(j, "post")
      PROVE  PaidInv' /\ Grow
  <2> DEFINE b == [a EXCEPT !.step = "post"]
  <2>1. Moved(j, b) /\ b \in Job
    BY <1>1, <1>9, GotoMoves DEF PaidInv, Steps
  <2>2. /\ b.kind = a.kind /\ b.case = a.case /\ b.consent = a.consent /\ b.request = a.request
        /\ b.step = "post" /\ b.offer = a.offer
    BY DEF Job
  <2>3. InFlight(a.consent) \in Executions /\ InFlight(a.consent) # None
    <3>1. InFlight(a.consent) \in Executions BY DEF InFlight, Executions, Job
    <3> QED BY <3>1, PaidNoneAssumption
  <2>4. /\ execution' \in [Cases -> Executions \cup {None}]
        /\ execution'[c] = InFlight(a.consent)
        /\ \A d \in Cases \ {c} : execution'[d] = execution[d]
    BY <1>9, <2>3 DEF PaidInv, PaidTypeOK
  <2>5. Grow
    BY <1>3, <1>4, <1>9, <2>4 DEF Grow, ReservationsGrow, Ordered
  <2>6. a.consent \in DOMAIN consents[c] /\ a.offer = consents[c][a.consent]
    BY <1>1, <1>2, <1>5 DEF JobOK, Submitting
  <2>7. reservations[c] # None /\ reservations[c].fingerprint = a.offer
    BY <1>1, <1>2 DEF JobOK
  <2>8. InFlight(a.consent).consent = a.consent /\ InFlight(a.consent).status = "IN_FLIGHT"
    BY DEF InFlight
  <2>9. ~Committed(c) /\ Len(orders[c]) = 0 /\ caseOrder[c] = None /\ ~Ordered(c)
    BY <1>1, <1>2, <1>3, <1>9 DEF CaseOK, Completed
  <2>10. CaseOK(c)'
    BY <1>1, <1>2, <1>4, <2>3, <2>4, <2>6, <2>7, <2>8, <2>9 DEF CaseOK, Completed, Committed, Claimed, Ordered
  <2>11. JobOK(a)' BY <1>1, <2>5, JobKept
  <2>12. JobOK(b)'
    <3>1. StepOfKind(b) BY <1>5, <2>2 DEF StepOfKind, Submitting, Reconciling
    <3> QED BY <1>1, <2>2, <2>11, <3>1 DEF JobOK
  <2>13. PostingOK'
    <3>1. \A k \in Jobs : At(k, "post") => job[k].case \in Cases \ {c}
      BY <1>3, <1>9, PostingClaimed
    <3>2. \A k \in Jobs \ {j} : At(k, "post")' => At(k, "post") /\ job'[k] = job[k]
      BY <2>1 DEF Moved, At
    <3>3. job'[j] = b /\ b.case = c /\ b.consent = a.consent
      BY <1>2, <2>1, <2>2 DEF Moved
    <3> SUFFICES ASSUME NEW k \in Jobs, At(k, "post")'
                 PROVE  /\ execution'[job'[k].case] # None
                        /\ execution'[job'[k].case].consent = job'[k].consent
                        /\ Len(orders'[job'[k].case]) = 0
                        /\ \A l \in Jobs : At(l, "post")' /\ job'[l].case = job'[k].case => l = k
      BY DEF PostingOK
    <3>4. CASE k = j
      BY <1>4, <2>3, <2>4, <2>8, <2>9, <3>1, <3>2, <3>3, <3>4
    <3>5. CASE k # j
      <4>1. /\ execution[job[k].case] # None /\ execution[job[k].case].consent = job[k].consent
            /\ Len(orders[job[k].case]) = 0
            /\ \A l \in Jobs : At(l, "post") /\ job[l].case = job[k].case => l = k
        BY <3>2, <3>5 DEF PaidInv, PostingOK
      <4>2. At(k, "post") /\ job'[k] = job[k] /\ job[k].case \in Cases \ {c}
        BY <3>1, <3>2, <3>5
      <4>3. /\ execution'[job'[k].case] # None /\ execution'[job'[k].case].consent = job'[k].consent
            /\ Len(orders'[job'[k].case]) = 0
        BY <1>4, <2>4, <4>1, <4>2
      <4>4. ASSUME NEW l \in Jobs, At(l, "post")', job'[l].case = job'[k].case PROVE l = k
        BY <3>2, <3>3, <4>1, <4>2, <4>4
      <4> QED BY <4>3, <4>4
    <3> QED BY <3>4, <3>5
  <2>14. PaidTypeOK'
    BY <1>4, <2>1, <2>4 DEF PaidInv, PaidTypeOK, BudgetTypeOK, Moved
  <2> QED BY <1>4, <2>1, <2>4, <2>5, <2>10, <2>12, <2>13, <2>14, StoreStep
<1>10. \/ ClaimResult(c, a.consent) = "CLAIMED" /\ e = None
       \/ ClaimResult(c, a.consent) # "CLAIMED" /\ e # None
  <2>1. CASE e = None BY <1>3, <2>1 DEF ClaimResult
  <2>2. CASE e # None BY <1>3, <2>2 DEF ClaimResult, Executions
  <2> QED BY <2>1, <2>2
<1>11. ClaimResult(c, a.consent) = "COMPLETED" => e.status = "COMPLETED"
  BY <1>3, <1>10 DEF ClaimResult
<1> QED BY <1>1, <1>2, <1>3, <1>6, <1>7, <1>8, <1>9, <1>10, <1>11 DEF Claim

LEMMA RefusedOK ==
  ASSUME PaidInv, Grow, NEW j \in Jobs, NEW a \in Job, job[j] = a, JobOK(a), Refuse(j) \/ Review(j)
  PROVE  \E b \in Job \cup {None} : Moved(j, b) /\ (b # None => b.step # "post" /\ JobOK(b)')
<1>1. JobOK(a)' BY JobKept
<1>2. CASE Moved(j, None) BY <1>2
<1>3. ASSUME NEW s \in {"review", "failed"}, a.kind = "EXECUTE", Moved(j, [a EXCEPT !.step = s]),
             [a EXCEPT !.step = s] \in Job
      PROVE  \E b \in Job \cup {None} : Moved(j, b) /\ (b # None => b.step # "post" /\ JobOK(b)')
  <2> DEFINE b == [a EXCEPT !.step = s]
  <2>1. /\ b.kind = a.kind /\ b.case = a.case /\ b.consent = a.consent /\ b.request = a.request
        /\ b.step = s
    BY DEF Job
  <2>2. JobOK(b)' BY <1>1, <1>3, <2>1 DEF JobOK, StepOfKind, Reconciling, Submitting
  <2>3. b.step # "post" BY <2>1
  <2> QED BY <1>3, <2>2, <2>3
<1> QED BY <1>2, <1>3, RefuseMoves DEF PaidInv

LEMMA PostStep ==
  ASSUME PaidInv, NEW j \in Jobs, Post(j)
  PROVE  PaidInv' /\ Grow
<1>1. PICK a \in Job : /\ job[j] = a /\ a.step = "post" /\ JobOK(a)
                       /\ a.case \in Cases /\ CaseOK(a.case)
  BY AtStep DEF Post
<1>2. PICK c \in Cases : c = a.case
  BY <1>1
<1>3. PICK o \in Offers : o = offer[c]
  BY DEF PaidInv, PaidTypeOK
<1>4. PICK s \in Seq(Offers) : s = orders[c]
  BY DEF PaidInv, PaidTypeOK
<1>5. UNCHANGED <<accounts, reservations, offer, consents, execution, approvals, candidate, state,
                  phone, caseOrder, acknowledged>>
  BY DEF Post, budgetVars, caseVars
<1>6. /\ execution[c] # None /\ execution[c].consent = a.consent /\ Len(s) = 0
      /\ \A k \in Jobs : At(k, "post") /\ job[k].case = c => k = j
  BY <1>1, <1>2, <1>4 DEF PaidInv, PostingOK, Post
<1>9. CASE Review(j) /\ UNCHANGED orders
  BY <1>1, <1>5, <1>9, RefuseStep DEF storeVars, caseVars, budgetVars
<1> DEFINE x == [of |-> c, no |-> 1, terms |-> o]
<1>10. ASSUME orders' = [orders EXCEPT ![c] = Append(s, o)],
              \/ o = Agreed(j) /\ Knows(j, x, "complete")
              \/ Review(j)
       PROVE  PaidInv' /\ Grow
  <2>1. /\ Append(s, o) \in Seq(Offers) /\ Len(Append(s, o)) = 1
        /\ 1 \in DOMAIN Append(s, o) /\ Append(s, o)[1] = o
    BY <1>6
  <2>2. /\ orders' \in [Cases -> Seq(Offers)] /\ orders'[c] = Append(s, o)
        /\ \A d \in Cases \ {c} : orders'[d] = orders[d]
    BY <1>10, <2>1 DEF PaidInv, PaidTypeOK
  <2>3. \A n \in DOMAIN s : n \in DOMAIN Append(s, o) /\ Append(s, o)[n] = s[n]
    OBVIOUS
  <2>4. \A d \in Cases : \A n \in DOMAIN orders[d] :
          n \in DOMAIN orders'[d] /\ orders'[d][n] = orders[d][n]
    BY <1>4, <2>2, <2>3
  <2>5. Grow
    BY <1>5, <2>4 DEF Grow, ReservationsGrow, Ordered
  <2>6. SupplierOrders \subseteq SupplierOrders'
    BY <2>5, SupplierKept
  <2>7. CaseOK(c)'
    BY <1>1, <1>2, <1>5, <1>6, <2>1, <2>2, <2>6 DEF CaseOK, Completed, Committed, Claimed, Ordered
  <2>8. PICK b \in Job \cup {None} : Moved(j, b) /\ (b # None => b.step # "post" /\ JobOK(b)')
    <3>1. CASE Review(j) BY <1>1, <2>5, <3>1, RefusedOK
    <3>2. CASE o = Agreed(j) /\ Knows(j, x, "complete")
      <4> DEFINE b == [a EXCEPT !.order = x, !.step = "complete"]
      <4>1. x \in Orders BY DEF Orders
      <4>2. Moved(j, b) /\ b \in Job
        BY <1>1, <3>2, <4>1, OrderMoves DEF PaidInv, Steps
      <4>3. /\ b.kind = a.kind /\ b.case = a.case /\ b.consent = a.consent /\ b.request = a.request
            /\ b.step = "complete" /\ b.order = x /\ b.offer = a.offer
        BY DEF Job
      <4>4. JobOK(a)' BY <1>1, <2>5, JobKept
      <4>5. o = consents[c][a.consent] /\ a.offer = o
        BY <1>1, <1>2, <3>2 DEF Agreed, JobOK
      <4>6. Claimed(c)' = o
        BY <1>5, <1>6, <4>5 DEF Claimed
      <4>7. x \in OrdersOf(c)'
        BY <2>1, <2>2 DEF OrdersOf
      <4>8. execution'[c] # None /\ x \in SupplierOrders' /\ x.terms = Claimed(c)'
        BY <1>5, <1>6, <4>6, <4>7 DEF SupplierOrders
      <4>9. StepOfKind(b) BY <4>3 DEF StepOfKind
      <4>10. JobOK(b)'
        BY <1>2, <4>3, <4>4, <4>5, <4>8, <4>9 DEF JobOK
      <4>11. b.step # "post" BY <4>3
      <4> QED BY <4>2, <4>10, <4>11
    <3> QED BY <1>10, <3>1, <3>2
  <2>9. PaidTypeOK'
    BY <1>5, <2>2, <2>8 DEF PaidInv, PaidTypeOK, BudgetTypeOK, Moved
  <2>10. PostingOK'
    <3>1. ~At(j, "post")' BY <2>8 DEF Moved, At
    <3>2. \A k \in Jobs \ {j} : At(k, "post") => job[k].case \in Cases \ {c}
      BY <1>6, PostingClaimed
    <3> QED BY <2>2, <2>5, <2>8, <3>1, <3>2, PostingKept DEF Moved
  <2> QED BY <1>5, <2>2, <2>5, <2>7, <2>8, <2>9, <2>10, StoreStep
<1>11. [of |-> c, no |-> Len(s) + 1, terms |-> o] = x
  BY <1>6
<1> QED BY <1>1, <1>2, <1>3, <1>4, <1>9, <1>10, <1>11 DEF Post, Matches

LEMMA CompleteStep ==
  ASSUME PaidInv, NEW j \in Jobs, Complete(j)
  PROVE  PaidInv' /\ Grow
<1>1. PICK a \in Job : /\ job[j] = a /\ a.step = "complete" /\ JobOK(a)
                       /\ a.case \in Cases /\ CaseOK(a.case)
  BY AtStep DEF Complete
<1>2. PICK c \in Cases : c = a.case
  BY <1>1
<1>3. UNCHANGED <<accounts, reservations, offer, consents, orders, approvals, candidate, state,
                  phone, caseOrder, acknowledged>>
  BY DEF Complete, budgetVars, caseVars
<1>4. execution[c] # None /\ a.order \in SupplierOrders /\ a.order.terms = Claimed(c)
  BY <1>1, <1>2 DEF JobOK
<1>5. PICK e \in Executions : e = execution[c]
  BY <1>4 DEF PaidInv, PaidTypeOK
<1>6. PICK f \in Executions :
        f = IF e.status = "COMPLETED" THEN e
            ELSE [e EXCEPT !.status = "COMPLETED", !.order = a.order]
  BY DEF Executions, Job
<1>7. /\ f # None /\ f.consent = e.consent /\ f.status = "COMPLETED"
      /\ e.status = "COMPLETED" => f = e
      /\ e.status # "COMPLETED" => f.order = a.order
  BY <1>6, PaidNoneAssumption DEF Executions
<1>8. f.order \in SupplierOrders /\ f.order.terms = Claimed(c)
  BY <1>1, <1>2, <1>4, <1>5, <1>7 DEF CaseOK, Completed
<1>9. /\ execution' \in [Cases -> Executions \cup {None}] /\ execution'[c] = f
      /\ \A d \in Cases \ {c} : execution'[d] = execution[d]
  <2>1. CASE e.status = "COMPLETED"
    BY <1>1, <1>2, <1>5, <1>7, <2>1 DEF Complete, PaidInv, PaidTypeOK
  <2>2. CASE e.status # "COMPLETED"
    <3>1. execution' = [execution EXCEPT ![c] = f]
      BY <1>1, <1>2, <1>5, <1>6, <2>2 DEF Complete
    <3> QED BY <1>7, <3>1 DEF PaidInv, PaidTypeOK
  <2> QED BY <2>1, <2>2
<1>10. Grow
  BY <1>3, <1>5, <1>7, <1>9 DEF Grow, ReservationsGrow, Ordered
<1>11. Claimed(c)' = Claimed(c) /\ SupplierOrders' = SupplierOrders
  BY <1>3, <1>5, <1>7, <1>9 DEF Claimed, SupplierOrders, OrdersOf
<1>12. CaseOK(c)'
  <2>1. Completed(c)' /\ Committed(c)' = Committed(c)
    BY <1>3, <1>7, <1>9 DEF Completed, Committed
  <2>2. execution'[c] # None /\ execution'[c].consent = e.consent
    BY <1>7, <1>9
  <2> QED BY <1>1, <1>2, <1>3, <1>4, <1>5, <1>8, <1>9, <1>11, <2>1, <2>2 DEF CaseOK, Ordered
<1>13. PICK s \in {"reprepare", "settle", "commit"} :
         /\ Goto(j, s)
         /\ s = "reprepare" => a.kind = "RECONCILE"
         /\ s = "settle" => a.kind = "RECONCILE_DIRECT"
         /\ s = "commit" => a.kind \notin Reconciling
  BY <1>1 DEF Complete, Reconciling
<1> DEFINE b == [a EXCEPT !.step = s]
<1>14. Moved(j, b) /\ b \in Job
  BY <1>1, <1>13, GotoMoves DEF PaidInv, Steps
<1>15. /\ b.kind = a.kind /\ b.case = a.case /\ b.consent = a.consent /\ b.request = a.request
       /\ b.step = s /\ b.offer = a.offer /\ b.order = a.order
  BY DEF Job
<1>16. JobOK(b)'
  <2>1. JobOK(a)' BY <1>1, <1>10, JobKept
  <2>2. StepOfKind(b) BY <1>13, <1>15 DEF StepOfKind, Reconciling
  <2>3. Completed(c)' /\ b.order \in SupplierOrders' /\ b.order.terms = Claimed(c)'
    BY <1>4, <1>7, <1>9, <1>11, <1>15 DEF Completed
  <2>4. a.kind \notin Reconciling => a.offer \in Offers
    BY <1>1 DEF JobOK
  <2> QED BY <1>1, <1>2, <1>13, <1>15, <2>1, <2>2, <2>3, <2>4 DEF JobOK, Reconciling
<1>17. PaidTypeOK'
  BY <1>3, <1>9, <1>14 DEF PaidInv, PaidTypeOK, BudgetTypeOK, Moved
<1>18. PostingOK'
  <2>1. ~At(j, "post")' BY <1>13, <1>14, <1>15 DEF Moved, At
  <2>2. \A k \in Jobs \ {j} : job'[k] = job[k] BY <1>14 DEF Moved
  <2> QED BY <1>3, <1>10, <2>1, <2>2, PostingKept
<1> QED BY <1>3, <1>9, <1>10, <1>12, <1>14, <1>16, <1>17, <1>18, StoreStep

\* The case goes to ORDERED with an order of the claimed terms.
LEMMA OrderedStep ==
  ASSUME PaidInv, NEW j \in Jobs, NEW c \in Cases, NEW x \in SupplierOrders, BecomesOrdered(c, x),
         Completed(c), Committed(c), x.terms = Claimed(c),
         UNCHANGED <<accounts, reservations, offer, consents, execution, orders, approvals, phone,
                     acknowledged>>,
         candidate' \in [Cases -> Offers \cup {None}], candidate'[c] # None,
         candidate[c] # None => candidate'[c] = candidate[c],
         \A d \in Cases \ {c} : candidate'[d] = candidate[d],
         NEW b \in Job \cup {None}, Moved(j, b),
         Grow => (b # None => b.step # "post" /\ JobOK(b)')
  PROVE  PaidInv' /\ Grow
<1>1. x \in Orders /\ x # None /\ CaseOK(c)
  BY SupplierTyped DEF PaidInv
<1>2. /\ caseOrder' \in [Cases -> Orders \cup {None}] /\ caseOrder'[c] = x
      /\ \A d \in Cases \ {c} : caseOrder'[d] = caseOrder[d]
  BY <1>1 DEF BecomesOrdered, PaidInv, PaidTypeOK
<1>3. /\ state' \in [Cases -> {"OPEN", "ORDERED"}]
      /\ \A d \in Cases \ {c} : state'[d] = state[d]
  BY DEF BecomesOrdered, PaidInv, PaidTypeOK
<1>4. Ordered(c) => caseOrder[c] = x
  BY DEF BecomesOrdered
<1>5. Grow
  <2>1. caseOrder[c] # None => candidate[c] # None BY <1>1 DEF CaseOK
  <2> QED BY <1>1, <1>2, <1>3, <1>4, <2>1 DEF Grow, ReservationsGrow, Ordered
<1>6. /\ Completed(c)' /\ Committed(c)' /\ Claimed(c)' = Claimed(c)
      /\ SupplierOrders' = SupplierOrders
  BY DEF Completed, Committed, Claimed, SupplierOrders, OrdersOf
<1>7. CaseOK(c)'
  BY <1>1, <1>2, <1>6 DEF CaseOK
<1>8. PaidTypeOK'
  BY <1>2, <1>3 DEF PaidInv, PaidTypeOK, BudgetTypeOK, Moved
<1>9. PostingOK'
  BY <1>5, PostingKept DEF Moved, At
<1> QED BY <1>2, <1>3, <1>5, <1>7, <1>8, <1>9, StoreStep

LEMMA RollupStep ==
  ASSUME PaidInv, NEW j \in Jobs, Rollup(j)
  PROVE  PaidInv' /\ Grow
<1>1. PICK a \in Job : /\ job[j] = a /\ a.step = "rollup" /\ JobOK(a)
                       /\ a.case \in Cases /\ CaseOK(a.case)
  BY AtStep DEF Rollup
<1>2. PICK c \in Cases : c = a.case
  BY <1>1
<1>3. PICK x \in SupplierOrders : x = a.order
  BY <1>1 DEF JobOK
<1>4. UNCHANGED <<accounts, reservations, offer, consents, execution, orders, approvals, phone,
                  acknowledged>>
  BY DEF Rollup, RollupTo, budgetVars
<1>5. Completed(c) /\ x.terms = Claimed(c) /\ Committed(c)
  BY <1>1, <1>2, <1>3 DEF JobOK
<1>6. BecomesOrdered(c, x)
  BY <1>1, <1>2, <1>3 DEF Rollup
<1>7. candidate[c] = None => a.offer \in Offers
  <2>1. a.kind = "RECONCILE_DIRECT" => candidate[c] = x.terms /\ x.terms # None
    <3>1. x.terms \in Offers BY SupplierTyped DEF PaidInv, Orders
    <3> QED BY <1>1, <1>2, <1>3, <3>1, PaidNoneAssumption DEF Rollup, RollupTo
  <2>2. a.kind # "RECONCILE_DIRECT" => a.offer \in Offers
    BY <1>1 DEF JobOK, Reconciling
  <2> QED BY <2>1, <2>2
<1>8. /\ candidate' \in [Cases -> Offers \cup {None}] /\ candidate'[c] # None
      /\ candidate[c] # None => candidate'[c] = candidate[c]
      /\ \A d \in Cases \ {c} : candidate'[d] = candidate[d]
  <2>1. CASE candidate[c] = None
    <3>1. PICK o \in Offers : o = a.offer BY <1>7, <2>1
    <3>2. candidate' = [candidate EXCEPT ![c] = o]
      BY <1>1, <1>2, <2>1, <3>1 DEF Rollup, RollupTo
    <3> QED BY <2>1, <3>2, PaidNoneAssumption DEF PaidInv, PaidTypeOK
  <2>2. CASE candidate[c] # None
    BY <1>1, <1>2, <2>2 DEF Rollup, RollupTo, PaidInv, PaidTypeOK
  <2> QED BY <2>1, <2>2
<1> DEFINE b == [a EXCEPT !.step = "acknowledge"]
<1>9. Moved(j, b) /\ b \in Job
  BY <1>1, GotoMoves DEF Rollup, RollupTo, PaidInv, Steps
<1>10. /\ b.kind = a.kind /\ b.case = a.case /\ b.consent = a.consent /\ b.request = a.request
       /\ b.step = "acknowledge" /\ b.offer = a.offer /\ b.order = a.order
  BY DEF Job
<1>11. caseOrder'[c] # None
  <2>1. x # None BY SupplierTyped DEF PaidInv
  <2> QED BY <1>6, <2>1 DEF BecomesOrdered, PaidInv, PaidTypeOK
<1>12. Grow => JobOK(b)'
  <2>1. Grow => JobOK(a)' BY <1>1, JobKept
  <2>2. StepOfKind(b) BY <1>10 DEF StepOfKind
  <2> QED BY <1>1, <1>2, <1>10, <1>11, <2>1, <2>2 DEF JobOK
<1> QED BY <1>4, <1>5, <1>6, <1>8, <1>9, <1>10, <1>12, OrderedStep

LEMMA PhoneOrderedStep ==
  ASSUME PaidInv, NEW j \in Jobs, PhoneOrdered(j)
  PROVE  PaidInv' /\ Grow
<1>1. PICK a \in Job : /\ job[j] = a /\ a.step = "phone" /\ JobOK(a)
                       /\ a.case \in Cases /\ CaseOK(a.case)
  BY AtStep DEF PhoneOrdered
<1>2. PICK c \in Cases : c = a.case
  BY <1>1
<1>3. PICK x \in SupplierOrders : x = a.order
  BY <1>1 DEF JobOK
<1>4. UNCHANGED <<accounts, reservations, offer, consents, execution, orders, approvals, candidate,
                  phone, acknowledged>>
  BY DEF PhoneOrdered, budgetVars
<1>5. Completed(c) /\ x.terms = Claimed(c) /\ Committed(c) /\ caseOrder[c] # None
  BY <1>1, <1>2, <1>3 DEF JobOK
<1>6. BecomesOrdered(c, x) /\ Moved(j, None)
  BY <1>1, <1>2, <1>3, DoneMoves DEF PhoneOrdered, PaidInv
<1>7. /\ candidate' \in [Cases -> Offers \cup {None}] /\ candidate'[c] # None
  BY <1>1, <1>2, <1>4, <1>5 DEF CaseOK, PaidInv, PaidTypeOK
<1> QED BY <1>4, <1>5, <1>6, <1>7, OrderedStep

LEMMA AcknowledgeStep ==
  ASSUME PaidInv, NEW j \in Jobs, Acknowledge(j)
  PROVE  PaidInv' /\ Grow
<1>1. PICK a \in Job : /\ job[j] = a /\ a.step = "acknowledge" /\ JobOK(a)
                       /\ a.case \in Cases /\ CaseOK(a.case)
  BY AtStep DEF Acknowledge
<1>2. PICK c \in Cases : c = a.case
  BY <1>1
<1>3. UNCHANGED <<accounts, reservations, offer, consents, execution, orders, approvals, candidate,
                  state, phone, caseOrder>>
  BY DEF Acknowledge, budgetVars
<1>4. /\ acknowledged' \in [Cases -> BOOLEAN] /\ acknowledged'[c]
      /\ \A d \in Cases : acknowledged[d] => acknowledged'[d]
  <2>1. acknowledged' = [acknowledged EXCEPT ![c] = TRUE] BY <1>1, <1>2 DEF Acknowledge
  <2>2. acknowledged \in [Cases -> BOOLEAN] BY DEF PaidInv, PaidTypeOK
  <2>3. acknowledged' \in [Cases -> BOOLEAN] /\ acknowledged'[c] = TRUE
        /\ \A d \in Cases \ {c} : acknowledged'[d] = acknowledged[d]
    BY <2>1, <2>2
  <2> QED BY <2>3
<1>5. Grow
  BY <1>3, <1>4 DEF Grow, ReservationsGrow, Ordered
<1>6. CaseOK(c)'
  BY <1>1, <1>2, <1>3, <1>5, CaseKept DEF Ordered
<1>7. PICK b \in Job \cup {None} : Moved(j, b) /\ (b # None => b.step # "post" /\ JobOK(b)')
  <2>1. CASE Done(j) BY <2>1, DoneMoves DEF PaidInv
  <2>2. ASSUME NEW s \in {"submitted", "phone"}, Goto(j, s),
               s = "submitted" => a.kind \in {"EXECUTE", "RECONCILE"}, s = "phone" => a.kind = "DIRECT"
        PROVE  \E b \in Job \cup {None} : Moved(j, b) /\ (b # None => b.step # "post" /\ JobOK(b)')
    <3> DEFINE b == [a EXCEPT !.step = s]
    <3>1. Moved(j, b) /\ b \in Job
      BY <1>1, <2>2, GotoMoves DEF PaidInv, Steps
    <3>2. /\ b.kind = a.kind /\ b.case = a.case /\ b.consent = a.consent /\ b.request = a.request
          /\ b.step = s /\ b.offer = a.offer /\ b.order = a.order
      BY DEF Job
    <3>3. JobOK(a)' BY <1>1, <1>5, JobKept
    <3>4. StepOfKind(b) BY <2>2, <3>2 DEF StepOfKind
    <3>5. JobOK(b)' BY <1>1, <1>2, <1>4, <3>2, <3>3, <3>4 DEF JobOK
    <3>6. b.step # "post" BY <3>2
    <3> QED BY <3>1, <3>5, <3>6
  <2> QED BY <1>1, <2>1, <2>2 DEF Acknowledge
<1>8. PaidTypeOK'
  BY <1>3, <1>4, <1>7 DEF PaidInv, PaidTypeOK, BudgetTypeOK, Moved
<1>9. PostingOK'
  BY <1>3, <1>5, <1>7, PostingKept DEF Moved, At
<1> QED BY <1>3, <1>5, <1>6, <1>7, <1>8, <1>9, StoreStep

-----------------------------------------------------------------------------
(* The steps that write the approval inbox.                                *)

LEMMA InboxStep ==
  ASSUME PaidInv, NEW j \in Jobs, NEW r \in Requests, NEW v \in Approvals,
         approvals' = [approvals EXCEPT ![r] = v],
         approvals[r] # None => v.case = approvals[r].case /\ v.consent = approvals[r].consent,
         RequestOK(r)',
         UNCHANGED <<budgetVars, offer, consents, execution, orders, caseVars>>,
         NEW b \in Job \cup {None}, Moved(j, b), b # None => b.step # "post" /\ JobOK(b)
  PROVE  PaidInv' /\ Grow
<1>1. /\ approvals' \in [Requests -> Approvals \cup {None}] /\ approvals'[r] = v /\ v # None
      /\ \A q \in Requests \ {r} : approvals'[q] = approvals[q]
  BY PaidNoneAssumption DEF PaidInv, PaidTypeOK
<1>2. UNCHANGED <<accounts, reservations, candidate, state, phone, caseOrder, acknowledged>>
  BY DEF budgetVars, caseVars
<1>3. Grow
  BY <1>1, <1>2 DEF Grow, ReservationsGrow, Ordered
<1>4. PaidTypeOK'
  BY <1>1, <1>2 DEF PaidInv, PaidTypeOK, BudgetTypeOK, Moved
<1>5. \A c \in Cases : CaseOK(c)'
  BY <1>2, <1>3, CaseKept DEF Ordered
<1>6. \A q \in Requests : RequestOK(q)'
  <2> SUFFICES ASSUME NEW q \in Requests PROVE RequestOK(q)' OBVIOUS
  <2>1. CASE q = r BY <2>1
  <2>2. CASE q # r BY <1>1, <1>3, <2>2, RequestKept
  <2> QED BY <2>1, <2>2
<1>7. JobsOK'
  <2>1. \A d \in Job : job'[j] = d => JobOK(d)'
    BY <1>3, JobKept, PaidNoneAssumption DEF Moved
  <2> QED BY <1>3, <2>1, JobsKept DEF Moved
<1>8. PostingOK'
  BY <1>3, PostingKept DEF Moved, At
<1> QED BY <1>3, <1>4, <1>5, <1>6, <1>7, <1>8 DEF PaidInv

LEMMA CreateStep ==
  ASSUME PaidInv, NEW j \in Jobs, Create(j)
  PROVE  PaidInv' /\ Grow
<1>1. PICK a \in Job : /\ job[j] = a /\ a.step = "create" /\ JobOK(a)
                       /\ a.case \in Cases /\ CaseOK(a.case)
  BY AtStep DEF Create
<1> DEFINE v == [case |-> a.case, consent |-> a.consent, status |-> "PENDING"]
<1>2. PICK r \in Requests : approvals[r] = None /\ approvals' = [approvals EXCEPT ![r] = v]
  BY <1>1 DEF Create
<1>3. v \in Approvals
  BY DEF Approvals, ApprovalStatus, Job
<1>4. UNCHANGED <<budgetVars, offer, consents, execution, orders, caseVars>>
  BY DEF Create
<1>5. RequestOK(r)'
  <2>1. a.consent \in DOMAIN consents[a.case]
    BY <1>1 DEF JobOK, StepOfKind, Reconciling
  <2>2. approvals'[r] = v BY <1>2 DEF PaidInv, PaidTypeOK
  <2> QED BY <1>4, <2>1, <2>2 DEF RequestOK
<1>6. PICK b \in Job \cup {None} : Moved(j, b) /\ (b # None => b.step # "post" /\ JobOK(b))
  <2>1. CASE Done(j) BY <2>1, DoneMoves DEF PaidInv
  <2>2. CASE a.kind = "REFRESH" /\ Goto(j, "replace")
    <3> DEFINE b == [a EXCEPT !.step = "replace"]
    <3>1. Moved(j, b) /\ b \in Job
      BY <1>1, <2>2, GotoMoves DEF PaidInv, Steps
    <3>2. /\ b.kind = a.kind /\ b.case = a.case /\ b.consent = a.consent /\ b.request = a.request
          /\ b.step = "replace"
      BY DEF Job
    <3>3. StepOfKind(b) BY <2>2, <3>2 DEF StepOfKind, Reconciling
    <3>4. JobOK(b) BY <1>1, <3>2, <3>3 DEF JobOK
    <3>5. b.step # "post" BY <3>2
    <3> QED BY <3>1, <3>4, <3>5
  <2> QED BY <1>1, <2>1, <2>2 DEF Create
<1> QED BY <1>2, <1>3, <1>4, <1>5, <1>6, InboxStep

LEMMA UpdateStep ==
  ASSUME PaidInv, NEW j \in Jobs, NEW a \in Job, job[j] = a, JobOK(a),
         a.kind \in {"EXECUTE", "REFRESH", "RECONCILE"}, NEW expected,
         NEW status \in ApprovalStatus, UpdateApproval(j, expected, status),
         status = "SUBMITTED" => a.step = "submitted"
  PROVE  PaidInv' /\ Grow
<1>1. PICK r \in Requests : r = a.request /\ approvals[r] # None /\ approvals[r].case = a.case
  BY DEF JobOK
<1>2. PICK w \in Approvals : w = approvals[r]
  BY <1>1 DEF PaidInv, PaidTypeOK
<1> DEFINE v == [w EXCEPT !.status = status]
<1>3. v \in Approvals /\ v.case = w.case /\ v.consent = w.consent /\ v.status = status
  BY DEF Approvals
<1>4. approvals' = [approvals EXCEPT ![r] = v]
  BY <1>1, <1>2 DEF UpdateApproval
<1>5. UNCHANGED <<budgetVars, offer, consents, execution, orders, caseVars>>
  BY DEF UpdateApproval
<1>6. status = "SUBMITTED" => caseOrder[a.case] # None /\ acknowledged[a.case]
  BY DEF JobOK
<1>7. RequestOK(r)'
  <2>1. w.consent \in DOMAIN consents[w.case]
    BY <1>1, <1>2 DEF PaidInv, RequestOK
  <2>2. approvals'[r] = v BY <1>4 DEF PaidInv, PaidTypeOK
  <2> QED BY <1>1, <1>2, <1>3, <1>5, <1>6, <2>1, <2>2 DEF RequestOK, caseVars
<1>8. Moved(j, None)
  BY DoneMoves DEF UpdateApproval, PaidInv
<1> QED BY <1>1, <1>2, <1>3, <1>4, <1>5, <1>7, <1>8, InboxStep

LEMMA ReplaceStep ==
  ASSUME PaidInv, NEW j \in Jobs, Replace(j)
  PROVE  PaidInv' /\ Grow
<1>1. PICK a \in Job : job[j] = a /\ a.step = "replace" /\ JobOK(a)
  BY AtStep DEF Replace
<1>2. a.kind = "REFRESH"
  BY <1>1 DEF JobOK, StepOfKind
<1> QED BY <1>1, <1>2, UpdateStep DEF Replace, ApprovalStatus

LEMMA RecordStep ==
  ASSUME PaidInv, NEW j \in Jobs, Record(j)
  PROVE  PaidInv' /\ Grow
<1>1. PICK step \in {"submitted", "review", "failed"}, expected, status \in ApprovalStatus :
        /\ At(j, step) /\ UpdateApproval(j, expected, status)
        /\ status = "SUBMITTED" => step = "submitted"
  BY DEF Record, ApprovalStatus
<1>2. PICK a \in Job : job[j] = a /\ a.step = step /\ JobOK(a)
  BY <1>1, AtStep
<1>3. a.kind \in {"EXECUTE", "RECONCILE"}
  BY <1>2 DEF JobOK, StepOfKind
<1> QED BY <1>1, <1>2, <1>3, UpdateStep

-----------------------------------------------------------------------------
(* The theorems.                                                           *)

LEMMA InitPaid == Init => PaidInv
<1> SUFFICES ASSUME Init PROVE PaidInv OBVIOUS
<1>1. PaidTypeOK
  <2>1. acknowledged \in [Cases -> BOOLEAN] BY DEF Init
  <2>2. <<>> \in Seq(Offers) OBVIOUS
  <2> QED BY <2>1, <2>2 DEF Init, PaidTypeOK, BudgetInit, BudgetTypeOK
<1>2. \A c \in Cases : CaseOK(c)
  BY DEF Init, BudgetInit, CaseOK, Completed, Committed, Ordered
<1>3. (\A r \in Requests : RequestOK(r)) /\ JobsOK /\ PostingOK
  BY PaidNoneAssumption DEF Init, RequestOK, JobsOK, PostingOK, At
<1> QED BY <1>1, <1>2, <1>3 DEF PaidInv

LEMMA NextPaid ==
  ASSUME PaidInv, Next
  PROVE  PaidInv' /\ Grow
<1>1. \A n \in 1 .. MaxConsents : n \in Nat
  BY BoundAssumption
<1>2. ASSUME NEW c \in Cases,
             \/ Preview(c) \/ ReconcileDirect(c) \/ OfferChanges(c) \/ PhoneMoves(c)
             \/ \E n \in 1 .. MaxConsents : Submit(c, n) \/ SubmitDirect(c, n) \/ RequestApproval(c, n)
      PROVE  PaidInv' /\ Grow
  <2>1. 0 \in Nat OBVIOUS
  <2> QED BY <1>1, <1>2, <2>1, PreviewStep, OfferStep, PhoneMovesStep, CaseRequests
<1>3. ASSUME NEW r \in Requests,
             \/ Execute(r) \/ Reconcile(r) \/ RefreshPreview(r)
             \/ \E n \in 1 .. MaxConsents : Refresh(r, n)
      PROVE  PaidInv' /\ Grow
  <2>1. 0 \in Nat OBVIOUS
  <2>2. RefreshPreview(r) => \E c \in Cases : Preview(c)
    BY DEF RefreshPreview, Pending, PaidInv, PaidTypeOK, Approvals
  <2> QED BY <1>1, <1>3, <2>1, <2>2, PreviewStep, InboxRequests
<1>4. ASSUME NEW j \in Jobs,
             \/ Stop(j) \/ Prepare(j) \/ Check(j) \/ ReserveBudget(j) \/ Claim(j) \/ Post(j)
             \/ Complete(j) \/ Commit(j) \/ Rollup(j) \/ Acknowledge(j) \/ PhoneOrdered(j) \/ Create(j)
             \/ Replace(j) \/ Record(j) \/ Lookup(j) \/ RePrepare(j) \/ SettleDirect(j)
      PROVE  PaidInv' /\ Grow
  BY <1>4, StopStep, PrepareStep, CheckStep, ReserveStep, ClaimStep, PostStep, CompleteStep,
     CommitStep, RollupStep, AcknowledgeStep, PhoneOrderedStep, CreateStep, ReplaceStep, RecordStep,
     LookupStep, RePrepareStep, SettleDirectStep
<1> QED BY <1>2, <1>3, <1>4 DEF Next

LEMMA StutterPaid ==
  ASSUME PaidInv, UNCHANGED vars
  PROVE  PaidInv' /\ Grow
<1>1. UNCHANGED <<budgetVars, offer, storeVars, job>>
  BY DEF vars, orderVars
<1>2. Grow
  BY <1>1, NothingGrows DEF PaidInv
<1>3. PaidTypeOK'
  BY <1>1 DEF PaidInv, PaidTypeOK, BudgetTypeOK, budgetVars, storeVars,
         caseVars
<1> QED BY <1>1, <1>2, <1>3, NoJob DEF storeVars, caseVars, Ordered

\* The inductive invariant: what every job knows at its step is so.
THEOREM PaidInvariant == Spec => []PaidInv
<1>1. PaidInv /\ [Next]_vars => PaidInv'
  BY NextPaid, StutterPaid
<1> QED BY <1>1, InitPaid, PTL DEF Spec

\* The stores and the jobs are well typed in every reachable state.
THEOREM PaidTypeCorrect == Spec => []PaidTypeOK
<1>1. PaidInv => PaidTypeOK BY DEF PaidInv
<1> QED BY <1>1, PaidInvariant, PTL

\* The supplier gets one paid order for a case, whoever submits, retries,
\* reconciles or crashes.
THEOREM OneOrderPerCase == Spec => []OnePaidOrder
<1>1. PaidInv => OnePaidOrder BY DEF PaidInv, CaseOK, OnePaidOrder
<1> QED BY <1>1, PaidInvariant, PTL

\* What is claimed is held by the budget, at the terms of the claimed consent.
THEOREM OrdersAreFromBudget == Spec => []PaidFromBudget
<1>1. PaidInv => PaidFromBudget
  <2> SUFFICES ASSUME PaidInv, NEW c \in Cases, execution[c] # None
               PROVE  /\ reservations[c] # None
                      /\ reservations[c].status \in {"RESERVED", "COMMITTED"}
                      /\ reservations[c].fingerprint = Claimed(c)
    BY DEF PaidFromBudget, PaidInv
  <2>1. CaseOK(c) BY DEF PaidInv
  <2>2. PICK r \in Reservations : r = reservations[c]
    BY <2>1 DEF CaseOK, PaidInv, PaidTypeOK, BudgetTypeOK
  <2> QED BY <2>1, <2>2 DEF CaseOK, Reservations
<1> QED BY <1>1, PaidInvariant, PTL

\* The order that is recorded, and the one the case names, are orders that the
\* supplier took (for this case or in another way) at the terms of the consent
\* that was claimed, wherever the operator found them.
THEOREM OrdersAreConsented == Spec => []OrderedAsConsented
<1>1. PaidInv => OrderedAsConsented
  BY DEF PaidInv, CaseOK, Completed, Committed, OrderedAsConsented
<1> QED BY <1>1, PaidInvariant, PTL

\* The stores follow each other, whichever handler wrote them and wherever
\* others stopped.
THEOREM StoresFollow == Spec => []StoresInOrder
<1>1. PaidInv => StoresInOrder
  <2> SUFFICES ASSUME PaidInv PROVE StoresInOrder OBVIOUS
  <2>1. \A c \in Cases : CaseOK(c) BY DEF PaidInv
  <2>2. \A r \in Requests : RequestOK(r) BY DEF PaidInv
  <2> QED BY <2>1, <2>2 DEF StoresInOrder, CaseOK, RequestOK, Completed, Committed
<1> QED BY <1>1, PaidInvariant, PTL

\* A recorded order is never replaced, a case that stays ORDERED keeps its
\* order, and one that the phone moves to another state still names one.
THEOREM OrdersAreFinal == Spec => OrderIsFinal
<1>1. PaidInv /\ [Next]_vars =>
        [\A c \in Cases :
           /\ Ordered(c) /\ Ordered(c)' => caseOrder'[c] = caseOrder[c]
           /\ caseOrder[c] # None => caseOrder'[c] # None /\ candidate'[c] = candidate[c]
           /\ execution[c] # None /\ execution[c].status = "COMPLETED" =>
                execution'[c] = execution[c]]_vars
  <2> SUFFICES ASSUME PaidInv, Next
               PROVE  \A c \in Cases :
                        /\ Ordered(c) /\ Ordered(c)' => caseOrder'[c] = caseOrder[c]
                        /\ caseOrder[c] # None => caseOrder'[c] # None /\ candidate'[c] = candidate[c]
                        /\ execution[c] # None /\ execution[c].status = "COMPLETED" =>
                             execution'[c] = execution[c]
    OBVIOUS
  <2>1. Grow BY NextPaid
  <2> QED BY <2>1 DEF Grow
<1> QED BY <1>1, PaidInvariant, PTL DEF Spec, OrderIsFinal

-----------------------------------------------------------------------------
(* The budget under the orders.                                            *)

Prices == {Price[o] : o \in Offers}

LEMMA BudgetStep ==
  ASSUME PaidInv, [Next]_vars
  PROVE  [BudgetNext({Allocation}, Prices)]_budgetVars
<1>1. ASSUME NEW j \in Jobs, ReserveBudget(j)
      PROVE  BudgetNext({Allocation}, Prices) \/ UNCHANGED budgetVars
  <2>1. PICK a \in Job : job[j] = a /\ a.step = "reserve" /\ JobOK(a) /\ a.case \in Cases
    BY <1>1, AtStep DEF ReserveBudget
  <2>2. a.consent \in DOMAIN consents[a.case] /\ a.offer = consents[a.case][a.consent]
    BY <2>1 DEF JobOK, StepOfKind, Reconciling
  <2>3. consents[a.case] \in Seq(Offers)
    BY <2>1 DEF PaidInv, PaidTypeOK
  <2>4. a.offer \in Fingerprints /\ Price[a.offer] \in Prices
    BY <2>2, <2>3, OfferAssumption DEF Prices
  <2>5. \E s \in Scopes : Reserve(a.case, s, Allocation, Price[a.offer], a.offer)
    BY <1>1, <2>1 DEF ReserveBudget
  <2> QED BY <2>1, <2>4, <2>5 DEF BudgetNext
<1>2. ASSUME NEW j \in Jobs, Commit(j) \/ SettleDirect(j)
      PROVE  BudgetNext({Allocation}, Prices) \/ UNCHANGED budgetVars
  <2>1. \E c \in Cases : \E f : Settleable(c, f, "COMMITTED") /\ Settle(c, f, "COMMITTED")
    <3>1. PICK a \in Job : job[j] = a /\ a.case \in Cases
      BY <1>2, AtStep DEF Commit, SettleDirect
    <3> QED BY <1>2, <3>1 DEF Commit, SettleDirect
  <2>2. PICK c \in Cases : \E f : Settleable(c, f, "COMMITTED") /\ Settle(c, f, "COMMITTED")
    BY <2>1
  <2>3. PICK f : Settleable(c, f, "COMMITTED") /\ Settle(c, f, "COMMITTED")
    BY <2>2
  <2>4. f \in Fingerprints
    BY <2>3 DEF Settleable, PaidInv, PaidTypeOK, BudgetTypeOK, Reservations
  <2> QED BY <2>3, <2>4 DEF BudgetNext
<1>3. ASSUME NEW c \in Cases,
             \/ Preview(c) \/ ReconcileDirect(c) \/ OfferChanges(c) \/ PhoneMoves(c)
             \/ \E n \in 1 .. MaxConsents : Submit(c, n) \/ SubmitDirect(c, n) \/ RequestApproval(c, n)
      PROVE  UNCHANGED budgetVars
  BY <1>3 DEF Preview, ReconcileDirect, OfferChanges, PhoneMoves, Submit, SubmitDirect, RequestApproval
<1>4. ASSUME NEW r \in Requests,
             \/ Execute(r) \/ Reconcile(r) \/ RefreshPreview(r)
             \/ \E n \in 1 .. MaxConsents : Refresh(r, n)
      PROVE  UNCHANGED budgetVars
  BY <1>4 DEF Execute, Reconcile, RefreshPreview, Preview, Refresh
<1>5. ASSUME NEW j \in Jobs,
             \/ Stop(j) \/ Prepare(j) \/ Check(j) \/ Claim(j) \/ Post(j)
             \/ Complete(j) \/ Rollup(j) \/ Acknowledge(j) \/ PhoneOrdered(j) \/ Create(j)
             \/ Replace(j) \/ Record(j) \/ Lookup(j) \/ RePrepare(j)
      PROVE  UNCHANGED budgetVars
  BY <1>5 DEF Stop, Prepare, Check, Claim, Post, Complete, Rollup, RollupTo, Acknowledge,
              PhoneOrdered, Create, Replace, Record, UpdateApproval, Lookup, RePrepare
<1> QED BY <1>1, <1>2, <1>3, <1>4, <1>5 DEF Next, vars

\* Whatever runs at the same time and wherever it stops, the orders use the
\* budget ledger as its specification says ...
THEOREM OrdersUseTheLedger == Spec => BudgetSpec({Allocation}, Prices)
<1>1. Init => BudgetInit BY DEF Init
<1> QED BY <1>1, BudgetStep, PaidInvariant, PTL DEF Spec, BudgetSpec

\* ... so under them, too, an account is what its reservations add up to ...
THEOREM OrdersKeepBalance == Spec => []Balanced
<1>1. {Allocation} \in SUBSET Nat /\ Prices \in SUBSET Nat
  BY OfferAssumption, BoundAssumption DEF Prices
<1>2. BudgetSpec({Allocation}, Prices) => []Balanced
  BY <1>1, LedgerBalanced
<1> QED BY <1>2, OrdersUseTheLedger, PTL

\* ... and nothing is overspent.
THEOREM OrdersKeepLimit == Spec => KeepsLimit
<1>1. {Allocation} \in SUBSET Nat /\ Prices \in SUBSET Nat
  BY OfferAssumption, BoundAssumption DEF Prices
<1>2. BudgetSpec({Allocation}, Prices) => KeepsLimit
  BY <1>1, LedgerKeepsLimit
<1> QED BY <1>2, OrdersUseTheLedger, PTL
=============================================================================
