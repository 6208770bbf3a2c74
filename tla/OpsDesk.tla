------------------------------- MODULE OpsDesk -------------------------------
(***************************************************************************)
(* The institution's desk (public/app.js, surface ops) at work on one      *)
(* case: the overview it holds, the case's approval requests and delivery  *)
(* photograph it lists, and what its operator sends from them, over the    *)
(* role workflow the server keeps (RoleWorkflow) and the handlers behind   *)
(* it (roleAccess.ts, approval-list and approval-execute, evidence.ts).    *)
(*                                                                         *)
(* The desk is one thread; a call is taken from the click to the server    *)
(* and back, and what comes back meets the desk as it is then.  Answers    *)
(* get lost and come in any order.  An order that is executed here is the  *)
(* one that is written into the case, so the roles go on with it.          *)
(*                                                                         *)
(* Other cases only matter for leaving this one (OPS_EXEC and OPS_REVIEW   *)
(* start anew); a blocked case, the export and the links to a finished     *)
(* order are left out.                                                     *)
(***************************************************************************)
EXTENDS RoleWorkflow

CONSTANTS
  Requests,    \* approval requests of the case
  Photo,       \* the photograph the beneficiary may upload
  Calls,       \* calls under way at a time (a bound)
  MaxClicks    \* how often the operator sends something (a bound)

ASSUME DeskAssumption ==
  /\ Photo \notin Requests /\ None \notin Requests \cup {Photo}
  /\ MaxClicks \in Nat

VARIABLES
  status,      \* the server's: approval requests, review of the photograph
  token,       \* malgyeol-role-ops: none, or one to read or to act with
  live,        \* LIVE: ops (the overview), opsRequested, opsLoading, opsError
  open,        \* OPS.caseId is this case
  slots,       \* OPS_APPROVALS and OPS_EVIDENCE of the case
  exec,        \* OPS_EXEC
  busy,        \* OPS_REVIEW
  calls,
  clicks,
  answered     \* history: papers that an answer to this desk said are decided

pageVars == <<token, live, open, slots, exec, busy>>
deskVars == <<status, pageVars, calls, clicks, answered>>

Papers   == Requests \cup {Photo}
Lists    == {"approvals", "evidence"}
Of(list) == IF list = "approvals" THEN Requests ELSE {Photo}
Decided  == {"SUBMITTED", "RECONCILIATION_REQUIRED", "FAILED", "REPLACED", "ACCEPTED", "REJECTED"}

\* A paper without a status is not there.
ASSUME StatusAssumption == None \notin {"PENDING"} \cup Decided

EmptySlot(list) ==
  [requested |-> FALSE, loading |-> FALSE, error |-> FALSE, items |-> [p \in Of(list) |-> None]]

\* resetOpsCaseState
EmptyExec == [request |-> None, confirming |-> FALSE, running |-> FALSE, error |-> FALSE,
              result |-> None, of |-> None]

Idle == [kind |-> "idle", step |-> "idle", paper |-> None, want |-> None, answer |-> None,
         deaf |-> FALSE]
Call(kind) == [Idle EXCEPT !.kind = kind, !.step = "asked"]

\* What the overview says of the case's workflow (roleAccess.ts).
Copy ==
  [revision |-> revision, policyReview |-> policyReview, consent |-> consent,
   exception |-> exception, fulfillment |-> fulfillment]

DeskInit ==
  /\ Init
  /\ status \in [Papers -> {None, "PENDING"}] /\ status[Photo] = None
  /\ token \in {"none", "read", "act"}
  /\ live = [ops |-> None, requested |-> FALSE, loading |-> FALSE, error |-> FALSE]
  /\ open = FALSE
  /\ slots = [l \in Lists |-> EmptySlot(l)]
  /\ exec = EmptyExec /\ busy = FALSE
  /\ calls = [c \in Calls |-> Idle]
  /\ clicks = 0 /\ answered = {}
-----------------------------------------------------------------------------
(***************************************************************************)
(* What is on the screen, and so what can be clicked.                      *)
(***************************************************************************)
\* viewOps: the table of cases, or viewOpsCase.
Connected == token # "none" /\ live.ops # None /\ ~live.loading /\ ~live.error
CaseShown == Connected /\ open

\* opsCanAct
CanAct == CaseShown /\ token = "act"

\* The buttons of the case for the roles' workflow.
Actions(o) ==
  {a \in {"REVIEW_POLICY", "RECORD_CONSENT", "RESOLVE_EXCEPTION", "QUEUE_EXCEPTION"} :
     CASE a = "REVIEW_POLICY"     -> o.policyReview # "REVIEWED"
       [] a = "RECORD_CONSENT"    -> /\ o.consent # "RECORDED"
                                     /\ o.fulfillment \notin {"SHIPPED", "CANCELLED", "REFUNDED"}
       [] a = "RESOLVE_EXCEPTION" -> o.exception = "OPEN"
       [] a = "QUEUE_EXCEPTION"   -> o.exception # "OPEN"}

\* opsSlotState: nothing is listed until a list is there.
Spinning(list) == CaseShown /\ (~slots[list].requested \/ slots[list].loading)
Listed(list) ==
  IF CaseShown /\ ~Spinning(list) /\ ~slots[list].error
  THEN {p \in Of(list) : slots[list].items[p] # None} ELSE {}

\* approvalRequestCard: what the list says decides on the buttons.
Executable(r) == CanAct /\ r \in Listed("approvals") /\ slots["approvals"].items[r] = "PENDING"
Confirming(r) == Executable(r) /\ exec.confirming /\ exec.request = r

\* opsEvidenceCard: a photograph can be reviewed again and again.
Reviewable == CanAct /\ Photo \in Listed("evidence")
-----------------------------------------------------------------------------
(***************************************************************************)
(* The lists.  A list is loaded into the slot that was there when it was   *)
(* asked for: with a new slot an answer under way goes nowhere.            *)
(***************************************************************************)
Forgotten(list, cs) == [c \in Calls |-> IF cs[c].kind = list THEN Idle ELSE cs[c]]

\* emptySlot and loadOpsApprovals or loadOpsEvidence, which needs a token.
LoadAgain(list, c, cs) ==
  IF token = "none"
  THEN /\ slots' = [slots EXCEPT ![list] = EmptySlot(list)]
       /\ calls' = [Forgotten(list, cs) EXCEPT ![c] = Idle]
  ELSE /\ slots' = [slots EXCEPT ![list] =
            [EmptySlot(list) EXCEPT !.requested = TRUE, !.loading = TRUE]]
       /\ calls' = [Forgotten(list, cs) EXCEPT ![c] = Call(list)]

\* render has a list loaded that was not asked for yet.
LoadList(list, c) ==
  /\ CaseShown /\ ~slots[list].requested /\ calls[c] = Idle
  /\ LoadAgain(list, c, calls)
  /\ UNCHANGED <<vars, status, token, live, open, exec, busy, clicks, answered>>

ServeList(c) ==
  /\ calls[c].kind \in Lists /\ calls[c].step = "asked"
  /\ calls' = [calls EXCEPT ![c].step = "served",
                            ![c].answer = [p \in Of(calls[c].kind) |-> status[p]]]
  /\ UNCHANGED <<vars, status, pageVars, clicks, answered>>

ListAnswered(c) ==
  /\ calls[c].kind \in Lists /\ calls[c].step = "served"
  /\ slots' = [slots EXCEPT ![calls[c].kind].items = calls[c].answer,
                            ![calls[c].kind].loading = FALSE]
  /\ calls' = [calls EXCEPT ![c] = Idle]
  /\ UNCHANGED <<vars, status, token, live, open, exec, busy, clicks, answered>>

ListFails(c) ==
  /\ calls[c].kind \in Lists
  /\ slots' = [slots EXCEPT ![calls[c].kind] =
       [EmptySlot(calls[c].kind) EXCEPT !.requested = TRUE, !.error = TRUE]]
  /\ calls' = [calls EXCEPT ![c] = Idle]
  /\ UNCHANGED <<vars, status, token, live, open, exec, busy, clicks, answered>>
-----------------------------------------------------------------------------
(***************************************************************************)
(* The overview.                                                           *)
(***************************************************************************)
Loading(l) == [l EXCEPT !.requested = TRUE, !.loading = TRUE, !.error = FALSE]

\* render asks for the overview once.
LoadOverview(c) ==
  /\ token # "none" /\ ~live.requested /\ calls[c] = Idle
  /\ live' = Loading(live)
  /\ calls' = [calls EXCEPT ![c] = Call("overview")]
  /\ UNCHANGED <<vars, status, token, open, slots, exec, busy, clicks, answered>>

ServeOverview(c) ==
  /\ calls[c].kind = "overview" /\ calls[c].step = "asked"
  /\ calls' = [calls EXCEPT ![c].step = "served", ![c].answer = Copy]
  /\ UNCHANGED <<vars, status, pageVars, clicks, answered>>

OverviewAnswered(c) ==
  /\ calls[c].kind = "overview" /\ calls[c].step = "served"
  /\ live' = [live EXCEPT !.ops = calls[c].answer, !.loading = FALSE]
  /\ calls' = [calls EXCEPT ![c] = Idle]
  /\ UNCHANGED <<vars, status, token, open, slots, exec, busy, clicks, answered>>

\* An expired token is forgotten.
OverviewFails(c) ==
  /\ calls[c].kind = "overview"
  /\ live' = [live EXCEPT !.ops = None, !.loading = FALSE, !.error = TRUE]
  /\ token' \in {token, "none"}
  /\ calls' = [calls EXCEPT ![c] = Idle]
  /\ UNCHANGED <<vars, status, open, slots, exec, busy, clicks, answered>>
-----------------------------------------------------------------------------
(***************************************************************************)
(* runOpsAction: an action of the roles' workflow, decided on the copy the *)
(* operator sees.                                                          *)
(***************************************************************************)
Click == clicks < MaxClicks /\ clicks' = clicks + 1

RunOpsAction(c, action) ==
  /\ Click /\ CanAct /\ calls[c] = Idle
  /\ action \in Actions(live.ops)
  /\ calls' = [calls EXCEPT ![c] = [Call("act") EXCEPT !.want = action, !.answer = live.ops]]
  /\ UNCHANGED <<vars, status, pageVars, answered>>

Applied(action, seen) ==
  \/ action = "REVIEW_POLICY" /\ ReviewPolicy(seen)
  \/ action = "RECORD_CONSENT" /\ RecordConsent(seen)
  \/ action = "QUEUE_EXCEPTION" /\ QueueException(seen)
  \/ action = "RESOLVE_EXCEPTION" /\ ResolveException(seen)

Conflicts(action, seen) ==
  \/ seen # revision
  \/ action = "RECORD_CONSENT" /\ Terminal
  \/ action = "RESOLVE_EXCEPTION" /\ exception # "OPEN"

ServeAction(c) ==
  /\ calls[c].kind = "act" /\ calls[c].step = "asked"
  /\ \/ /\ revision < MaxRevision /\ Applied(calls[c].want, calls[c].answer.revision)
        /\ calls' = [calls EXCEPT ![c].step = "served"]
     \/ /\ Conflicts(calls[c].want, calls[c].answer.revision)
        /\ calls' = [calls EXCEPT ![c].step = "refused"] /\ UNCHANGED vars
  /\ UNCHANGED <<status, pageVars, clicks, answered>>

\* Recorded, or refused as a conflict: either way the overview is loaded again.
ActionAnswered(c) ==
  /\ calls[c].kind = "act" /\ calls[c].step \in {"served", "refused"} /\ ~calls[c].deaf
  /\ IF token = "none"
     THEN UNCHANGED live /\ calls' = [calls EXCEPT ![c] = Idle]
     ELSE live' = Loading(live) /\ calls' = [calls EXCEPT ![c] = Call("overview")]
  /\ UNCHANGED <<vars, status, token, open, slots, exec, busy, clicks, answered>>

\* No answer, or another refusal: a line of text; what was recorded stays recorded.
ActionFails(c) ==
  /\ calls[c].kind = "act" /\ ~calls[c].deaf
  /\ calls' = [calls EXCEPT ![c] = IF calls[c].step = "asked" THEN [@ EXCEPT !.deaf = TRUE] ELSE Idle]
  /\ UNCHANGED <<vars, status, pageVars, clicks, answered>>
-----------------------------------------------------------------------------
(***************************************************************************)
(* executeApproval, in two clicks, and approval-execute.                   *)
(***************************************************************************)
OpenConfirm(r) ==
  /\ Executable(r) /\ ~Confirming(r)
  /\ exec' = [exec EXCEPT !.request = r, !.confirming = TRUE, !.error = FALSE, !.result = None]
  /\ UNCHANGED <<vars, status, token, live, open, slots, busy, calls, clicks, answered>>

CancelConfirm ==
  /\ \E r \in Requests : Confirming(r)
  /\ exec' = [exec EXCEPT !.request = None, !.confirming = FALSE]
  /\ UNCHANGED <<vars, status, token, live, open, slots, busy, calls, clicks, answered>>

ExecuteApproval(r, c) ==
  /\ Click /\ Confirming(r) /\ ~exec.running /\ calls[c] = Idle
  /\ exec' = [exec EXCEPT !.running = TRUE, !.error = FALSE]
  /\ calls' = [calls EXCEPT ![c] = [Call("execute") EXCEPT !.paper = r]]
  /\ UNCHANGED <<vars, status, token, live, open, slots, busy, answered>>

\* A request that is no longer pending is refused with what it is now.
ServeExecution(c) ==
  LET s == status[calls[c].paper] IN
  /\ calls[c].kind = "execute" /\ calls[c].step = "asked"
  /\ calls' = IF s = "PENDING" THEN [calls EXCEPT ![c].step = "ordering"]
              ELSE [calls EXCEPT ![c].step = "served", ![c].answer = s]
  /\ UNCHANGED <<vars, status, pageVars, clicks, answered>>

\* order-submit: the order is written into the case, or not.
SubmitOrder(c) ==
  /\ calls[c].kind = "execute" /\ calls[c].step = "ordering"
  /\ \/ CaseOrdered /\ calls' = [calls EXCEPT ![c].step = "ordered"]
     \/ \E s \in {"RECONCILIATION_REQUIRED", "FAILED"} :
          /\ calls' = [calls EXCEPT ![c].step = "recording", ![c].want = s]
          /\ UNCHANGED vars
  /\ UNCHANGED <<status, pageVars, clicks, answered>>

\* The rollup acknowledges a new order.
AcknowledgeExecuted(c) ==
  /\ calls[c].kind = "execute" /\ calls[c].step = "ordered"
  /\ IF fulfillment = "NEW" THEN revision < MaxRevision /\ AcknowledgeOrder(revision)
     ELSE UNCHANGED vars
  /\ calls' = [calls EXCEPT ![c].step = "recording", ![c].want = "SUBMITTED"]
  /\ UNCHANGED <<status, pageVars, clicks, answered>>

RecordExecution(c) ==
  /\ calls[c].kind = "execute" /\ calls[c].step = "recording"
  /\ status[calls[c].paper] = "PENDING"
  /\ status' = [status EXCEPT ![calls[c].paper] = calls[c].want]
  /\ calls' = [calls EXCEPT ![c].step = "served", ![c].answer = calls[c].want]
  /\ UNCHANGED <<vars, pageVars, clicks, answered>>

\* Mutant: the list is left as it is when a request has been executed.
ExecutionAnsweredInPlace(c) ==
  LET refused == calls[c].want # "SUBMITTED" IN
  /\ calls[c].kind = "execute" /\ calls[c].step = "served" /\ ~calls[c].deaf
  /\ exec' = [exec EXCEPT !.result = calls[c].answer, !.of = calls[c].paper, !.running = FALSE,
                          !.error = refused \/ @, !.confirming = refused /\ @]
  /\ answered' = answered \cup {calls[c].paper}
  /\ calls' = [calls EXCEPT ![c] = Idle]
  /\ UNCHANGED <<vars, status, token, live, open, slots, busy, clicks>>

\* Wherever it stands then, the desk shows the answer on OPS_EXEC and loads the list.
ExecutionAnswered(c) ==
  LET refused == calls[c].want # "SUBMITTED" IN
  /\ calls[c].kind = "execute" /\ calls[c].step = "served" /\ ~calls[c].deaf
  /\ exec' = [exec EXCEPT !.result = calls[c].answer, !.of = calls[c].paper, !.running = FALSE,
                          !.error = refused \/ @, !.confirming = refused /\ @]
  /\ answered' = answered \cup {calls[c].paper}
  /\ LoadAgain("approvals", c, calls)
  /\ UNCHANGED <<vars, status, token, live, open, busy, clicks>>

\* It threw, or the answer is lost while the server goes on.
ExecutionFails(c, d) ==
  /\ calls[c].kind = "execute" /\ ~calls[c].deaf
  /\ exec' = [exec EXCEPT !.result = None, !.of = None, !.running = FALSE, !.error = TRUE]
  /\ \/ d = c /\ LoadAgain("approvals", d, calls)
     \/ /\ d # c /\ calls[d] = Idle
        /\ LoadAgain("approvals", d, [calls EXCEPT ![c].deaf = TRUE])
  /\ UNCHANGED <<vars, status, token, live, open, busy, clicks, answered>>
-----------------------------------------------------------------------------
(***************************************************************************)
(* reviewEvidence and /api/delivery-evidence/review, which takes any       *)
(* review of a photograph, reviewed or not.                                *)
(***************************************************************************)
ReviewEvidence(c, verdict) ==
  /\ Click /\ Reviewable /\ ~busy /\ calls[c] = Idle
  /\ busy' = TRUE
  /\ calls' = [calls EXCEPT ![c] = [Call("review") EXCEPT !.want = verdict]]
  /\ UNCHANGED <<vars, status, token, live, open, slots, exec, answered>>

\* DeliveryEvidenceRepository.review
Review(verdict) == status[Photo] # None /\ status' = [status EXCEPT ![Photo] = verdict]

ServeReview(c) ==
  /\ calls[c].kind = "review" /\ calls[c].step = "asked"
  /\ Review(calls[c].want)
  /\ calls' = [calls EXCEPT ![c].step = "served"]
  /\ UNCHANGED <<vars, pageVars, clicks, answered>>

ReviewAnswered(c) ==
  /\ calls[c].kind = "review" /\ calls[c].step = "served" /\ ~calls[c].deaf
  /\ busy' = FALSE
  /\ answered' = answered \cup {Photo}
  /\ LoadAgain("evidence", c, calls)
  /\ UNCHANGED <<vars, status, token, live, open, exec, clicks>>

ReviewFails(c) ==
  /\ calls[c].kind = "review" /\ ~calls[c].deaf
  /\ busy' = FALSE
  /\ calls' = [calls EXCEPT ![c] = IF calls[c].step = "asked" THEN [@ EXCEPT !.deaf = TRUE] ELSE Idle]
  /\ UNCHANGED <<vars, status, token, live, open, slots, exec, clicks, answered>>

\* What nobody waits for ends at the server, or never got there.
Unheard(c) ==
  /\ calls[c].deaf
  /\ calls' = [calls EXCEPT ![c] = Idle]
  /\ UNCHANGED <<vars, status, pageVars, clicks, answered>>
-----------------------------------------------------------------------------
(***************************************************************************)
(* The rest of the operator's clicks, and the others.                      *)
(***************************************************************************)
\* Opening a case or leaving it forgets what is being executed and reviewed.
Navigate ==
  /\ Connected
  /\ open' = ~open
  /\ exec' = EmptyExec /\ busy' = FALSE
  /\ UNCHANGED <<vars, status, token, live, slots, calls, clicks, answered>>

RetryList(list, c) ==
  /\ Click /\ CaseShown /\ slots[list].error /\ calls[c] = Idle
  /\ LoadAgain(list, c, calls)
  /\ UNCHANGED <<vars, status, token, live, open, exec, busy, answered>>

RetryOverview(c) ==
  /\ Click /\ live.error /\ ~live.loading /\ token # "none" /\ calls[c] = Idle
  /\ live' = Loading(live)
  /\ calls' = [calls EXCEPT ![c] = Call("overview")]
  /\ UNCHANGED <<vars, status, token, open, slots, exec, busy, answered>>

\* A new link: render schedules one load of the overview and another one starts.
Connect(c, d) ==
  /\ Click /\ token = "none" /\ ~live.loading /\ c # d /\ calls[c] = Idle /\ calls[d] = Idle
  /\ token' \in {"read", "act"}
  /\ live' = Loading([live EXCEPT !.ops = None])
  /\ calls' = [calls EXCEPT ![c] = Call("overview"), ![d] = Call("overview")]
  /\ UNCHANGED <<vars, status, open, slots, exec, busy, answered>>

(***************************************************************************)
(* What others do to the papers: the beneficiary asks for an order and     *)
(* refreshes the request, uploads a photograph for the order placed;       *)
(* another desk reviews it, or reconciles an uncertain order.              *)
(***************************************************************************)
RequestApproval(r) == status[r] = None /\ status' = [status EXCEPT ![r] = "PENDING"]
ConfirmRefresh(r)  == status[r] = "PENDING" /\ status' = [status EXCEPT ![r] = "REPLACED"]

Reconcile(r) ==
  /\ status[r] = "RECONCILIATION_REQUIRED" /\ providerOrderId
  /\ status' = [status EXCEPT ![r] = "SUBMITTED"]

Upload ==
  /\ status[Photo] = None /\ providerOrderId
  /\ status' = [status EXCEPT ![Photo] = "PENDING"]

Elsewhere ==
  /\ \/ \E r \in Requests : RequestApproval(r) \/ ConfirmRefresh(r) \/ Reconcile(r)
     \/ Upload \/ \E verdict \in {"ACCEPTED", "REJECTED"} : Review(verdict)
  /\ UNCHANGED <<vars, pageVars, calls, clicks, answered>>
-----------------------------------------------------------------------------
Served(c) ==
  \/ ServeList(c) \/ ListAnswered(c) \/ ListFails(c)
  \/ ServeOverview(c) \/ OverviewAnswered(c) \/ OverviewFails(c)
  \/ ServeAction(c) \/ ActionAnswered(c) \/ ActionFails(c)
  \/ ServeExecution(c) \/ SubmitOrder(c) \/ AcknowledgeExecuted(c) \/ RecordExecution(c)
  \/ ExecutionAnswered(c) \/ \E d \in Calls : ExecutionFails(c, d)
  \/ ServeReview(c) \/ ReviewAnswered(c) \/ ReviewFails(c) \/ Unheard(c)

Rendered == \E c \in Calls : LoadOverview(c) \/ \E list \in Lists : LoadList(list, c)

Clicked ==
  \/ \E c \in Calls :
       \/ \E a \in {"REVIEW_POLICY", "RECORD_CONSENT", "RESOLVE_EXCEPTION", "QUEUE_EXCEPTION"} :
            RunOpsAction(c, a)
       \/ \E r \in Requests : ExecuteApproval(r, c)
       \/ \E verdict \in {"ACCEPTED", "REJECTED"} : ReviewEvidence(c, verdict)
       \/ \E list \in Lists : RetryList(list, c)
       \/ RetryOverview(c)
       \/ \E d \in Calls : Connect(c, d)
  \/ \E r \in Requests : OpenConfirm(r)
  \/ CancelConfirm
  \/ Navigate

DeskNext ==
  \/ Next /\ UNCHANGED deskVars
  \/ Elsewhere
  \/ \E c \in Calls : Served(c)
  \/ Rendered \/ Clicked

DeskSpec == DeskInit /\ [][DeskNext]_<<vars, deskVars>>
-----------------------------------------------------------------------------
(***************************************************************************)
(* Properties.                                                             *)
(***************************************************************************)

\* Types of the desk: part of DecidedIsNotOffered.
DeskTypeOK ==
  /\ status \in [Papers -> {None, "PENDING"} \cup Decided]
  /\ token \in {"none", "read", "act"}
  /\ open \in BOOLEAN /\ busy \in BOOLEAN
  /\ \A l \in Lists : slots[l].loading => slots[l].requested /\ ~slots[l].error
  /\ exec.request \in Requests \cup {None} /\ exec.of \in Requests \cup {None}
  /\ \A c \in Calls : calls[c] = Idle \/ calls[c].step # "idle"
  /\ clicks \in 0 .. MaxClicks
  /\ answered \subseteq Papers

\* What the server told this desk is decided is never listed there as undecided
\* again, so the button that orders goods for money does not come back for a
\* request that was executed, whichever lists were under way, answered late or
\* loaded in between (public/app.js: such a request cannot be executed again).
DecidedIsNotOffered ==
  /\ DeskTypeOK
  /\ \A p \in answered : \A list \in Lists :
       p \in Listed(list) => slots[list].items[p] \in Decided
=============================================================================
