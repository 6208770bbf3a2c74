------------------------------ MODULE WebOrder ------------------------------
(***************************************************************************)
(* The beneficiary's page (public/app.js) from the request to the masked   *)
(* preview of an order, with the server handlers it calls                  *)
(* (http/foodSupportRoutes.ts and the preview of specialOfferOrderRoutes). *)
(*                                                                         *)
(* The page is one thread; what interleaves are the answers to its calls,  *)
(* the timer that forgets personal data and what the user does meanwhile.  *)
(* A call is taken from one await to the next by one action, so its guard  *)
(* reads the page as it is then and not as it was when the call was sent.  *)
(*                                                                         *)
(* A product stands for its price and shipping fee, the requested sentence *)
(* is left out (it is never empty once a product is chosen), and what the  *)
(* server knows of budgets, stock and policy is a free choice of answers.  *)
(* A programme that fails to load only closes the gate until it is asked   *)
(* for again, and is left out, as are the pages that place no order.       *)
(***************************************************************************)
EXTENDS Naturals

CONSTANTS
  Goods,        \* products
  Quantities,   \* 1 and others
  Recipients,   \* names and addresses
  Calls,        \* calls under way at a time (a bound)
  MaxEdits,     \* what the user does that is not mere navigation (a bound)
  None

ASSUME WebAssumption ==
  /\ None \notin Goods \cup Recipients
  /\ 1 \in Quantities
  /\ MaxEdits \in Nat

VARIABLES
  order,        \* ORDER and the part of it that sessionStorage keeps
  invited,      \* the tab holds a phone or institution context
  verified,     \* PRODUCT_VERIFIED
  check,        \* productChecking and productCheckError
  catalog,      \* LIVE.searched, LIVE.loading and LIVE.products
  secure,       \* SECURE: personal data and the preview, in memory only
  view,         \* the review page or any other
  calls,        \* requests under way
  edits         \* user actions so far (for the bound)

vars == <<order, invited, verified, check, catalog, secure, view, calls, edits>>

\* A case of the tab's own (web_...) or one it was invited to by a link.
Cases == {"own", "invited"}

Terms ==
  [case : Cases \cup {None}, product : Goods \cup {None},
   quantity : Quantities, recipient : Recipients \cup {None}]

TermsFingerprint(o, s) ==
  [case |-> o.case, product |-> o.product, quantity |-> o.quantity, recipient |-> s.recipient]

Empty ==
  [recipient |-> None, draft |-> FALSE, readiness |-> None, preview |-> None,
   fingerprint |-> None, live |-> FALSE, attempted |-> None, error |-> None,
   loading |-> FALSE, timer |-> FALSE]

\* Products an answer brings while a sentence is with the server are never shown.
Unsearched == [searched |-> FALSE, loading |-> FALSE, products |-> {}]

Idle == [step |-> "idle", sent |-> None, credential |-> None]

\* Startup: loadProgram is on its way whatever the tab remembers.
Starting(c) == [k \in Calls |-> IF k = c THEN [Idle EXCEPT !.step = "program"] ELSE Idle]

Init ==
  /\ order \in [case : {"own"}, token : {None}, product : Goods, quantity : {1}]
                 \cup [case : {None}, token : {None}, product : {None}, quantity : {1}]
  /\ invited \in BOOLEAN
  /\ verified = FALSE
  /\ check = "none"
  /\ catalog = Unsearched
  /\ secure = Empty
  /\ view = "other"
  /\ \E c \in Calls : calls = Starting(c)
  /\ edits = 0

-----------------------------------------------------------------------------
(* What several handlers share.                                            *)

Invalidated(s) == [s EXCEPT !.preview = None, !.fingerprint = None, !.live = FALSE]

\* Terms the user changed: no preview, no readiness, and an automatic review is due again.
Changed(s) == [Invalidated(s) EXCEPT !.readiness = None, !.attempted = None]

Touched(s) == [s EXCEPT !.timer = TRUE]

ClearOrder(o) == [o EXCEPT !.product = None, !.quantity = 1]

\* clearOrder also forgets that a check failed, but not that one is running.
Forget == IF check = "failed" THEN "none" ELSE check

Joined(o) == IF invited THEN [o EXCEPT !.case = "invited"] ELSE o

OwnCase(o) == IF o.case = None THEN [o EXCEPT !.case = "own"] ELSE o

Searching == [searched |-> TRUE, loading |-> TRUE, products |-> {}]

Loaded(products) ==
  catalog' = [catalog EXCEPT !.loading = FALSE, !.products = IF catalog.searched THEN products ELSE {}]

\* Mutant: a product the tab remembered opens them too.
GateOpenRemembered == order.product # None /\ check = "none"

\* orderProductGate: the pages of an order open for a verified product only.
GateOpen == order.product # None /\ verified /\ check = "none"

Usable(s) == s.preview # None /\ s.fingerprint = TermsFingerprint(order, s) /\ s.live

\* render asks for a review when the review page shows terms it has not tried yet.
Due(o, s, v) ==
  /\ v = "review" /\ o.product # None /\ s.recipient # None /\ ~s.loading
  /\ s.attempted # TermsFingerprint(o, s)

\* Mutant: render does not remember the terms it has tried.
RenderAlways(o, s, v, cs) ==
  /\ order' = o /\ view' = v /\ secure' = s
  /\ IF Due(o, s, v)
     THEN \E c \in {k \in Calls : cs[k] = Idle} :
            calls' = [cs EXCEPT ![c] = [Idle EXCEPT !.step = "scheduled"]]
     ELSE calls' = cs

Render(o, s, v, cs) ==
  /\ order' = o /\ view' = v
  /\ IF Due(o, s, v)
     THEN \E c \in {k \in Calls : cs[k] = Idle} :
            /\ secure' = [s EXCEPT !.attempted = TermsFingerprint(o, s)]
            /\ calls' = [cs EXCEPT ![c] = [Idle EXCEPT !.step = "scheduled"]]
     ELSE secure' = s /\ calls' = cs

-----------------------------------------------------------------------------
(* The review: session, readiness, preview.                                *)

\* What is sent for the review, from the page as it is now.
Base(o) ==
  [step |-> "readiness",
   sent |-> [TermsFingerprint(o, Empty) EXCEPT !.recipient = None],
   credential |-> IF invited THEN "continuation" ELSE o.token]

\* ensureFoodSession: a context or a valid token is enough, else a session is asked for.
ReviewCall(o) ==
  IF invited \/ (o.token # None /\ o.case # None)
  THEN Base(o)
  ELSE [step |-> "session", sent |-> OwnCase(o).case, credential |-> None]

StartReview(c) ==
  /\ calls[c].step = "scheduled"
  /\ IF order.product = None
     THEN calls' = [calls EXCEPT ![c] = Idle] /\ UNCHANGED <<order, secure>>
     ELSE /\ order' = Joined(order)
          /\ secure' = [secure EXCEPT !.loading = TRUE, !.error = None]
          /\ calls' = [calls EXCEPT ![c] = ReviewCall(Joined(order))]
  /\ UNCHANGED <<invited, verified, check, catalog, view, edits>>

Finish(c, o, s) ==
  /\ Render(o, [s EXCEPT !.loading = FALSE], view, [calls EXCEPT ![c] = Idle])
  /\ UNCHANGED <<invited, verified, check, catalog, edits>>

\* apiFailure: what the page tells apart; a missing budget is what an invitation is for.
Failures == {"forbidden", "budget", "other"}

ReviewFails(c, error) ==
  Finish(c, IF error = "forbidden" THEN [order EXCEPT !.token = None] ELSE order,
         [Invalidated(secure) EXCEPT !.error = error])

SessionAnswered(c) ==
  LET o == [order EXCEPT !.case = calls[c].sent, !.token = calls[c].sent] IN
  /\ calls[c].step = "session"
  /\ \/ ReviewFails(c, IF calls[c].sent = "own" THEN "other" ELSE "forbidden")
     \/ /\ calls[c].sent = "own"
        /\ IF o.product = None     \* reading the product of an order cleared meanwhile throws
           THEN Finish(c, o, [Invalidated(secure) EXCEPT !.error = "other"])
           ELSE /\ order' = o
                /\ calls' = [calls EXCEPT ![c] = Base(o)]
                /\ UNCHANGED <<invited, verified, check, catalog, secure, view, edits>>

\* authorizedFoodSession: a session of this case, or the continuation of an invited one.
Authorized(case, credential) ==
  credential = case \/ (credential = "continuation" /\ case = "invited")

ReadinessAnswered(c) ==
  /\ calls[c].step = "readiness"
  /\ \/ \E error \in Failures : ReviewFails(c, error)
     \/ /\ Authorized(calls[c].sent.case, calls[c].credential)
        /\ \/ /\ secure.recipient = None
              /\ Finish(c, order, [Invalidated(secure) EXCEPT !.readiness = "ready", !.error = None])
           \/ Finish(c, order, [Invalidated(secure) EXCEPT !.readiness = "blocked", !.error = None])
           \/ /\ secure.recipient # None
              /\ secure' = [secure EXCEPT !.readiness = "ready"]
              /\ calls' = [calls EXCEPT ![c].step = "preview",
                                        ![c].sent.recipient = secure.recipient]
              /\ UNCHANGED <<order, invited, verified, check, catalog, view, edits>>

\* The page keeps the preview with the fingerprint of its own terms of the moment.
Previewed(s, sent) ==
  [s EXCEPT !.preview = sent, !.fingerprint = TermsFingerprint(order, s), !.live = TRUE,
            !.error = None]

\* Mutant: keeping a preview does not restart the timer of the personal data in it.
ShowUntimed(c) == Finish(c, order, Previewed(secure, calls[c].sent))

Show(c) == Finish(c, order, Touched(Previewed(secure, calls[c].sent)))

\* prepareOrder takes a session of this case and no continuation.
PreviewAnswered(c) ==
  /\ calls[c].step = "preview"
  /\ \/ calls[c].credential = calls[c].sent.case /\ Show(c)
     \/ ReviewFails(c, "other")

-----------------------------------------------------------------------------
(* Asking and searching; checking a product the tab remembered.            *)

\* submitUtterance, answered: a session for the case, then a search or another page.
Said(c) ==
  LET o == [order EXCEPT !.case = calls[c].sent, !.token = calls[c].sent] IN
  /\ calls[c].step = "say"
  /\ calls[c].sent = "own" \/ calls[c].credential = "continuation"
  /\ \/ /\ catalog' = Searching
        /\ Render(o, secure, view, [calls EXCEPT ![c] = [Idle EXCEPT !.step = "search"]])
     \/ /\ Loaded(catalog.products)
        /\ \E v \in {view, "other"} : Render(o, secure, v, [calls EXCEPT ![c] = Idle])
  /\ UNCHANGED <<invited, verified, check, edits>>

\* Refused or lost; a refused context is forgotten.
SayingFailed(c) ==
  /\ calls[c].step = "say"
  /\ invited' \in IF calls[c].sent = "invited" THEN {invited, FALSE} ELSE {invited}
  /\ Loaded(catalog.products)
  /\ Render(order, secure, view, [calls EXCEPT ![c] = Idle])
  /\ UNCHANGED <<verified, check, edits>>

\* Any products that may be ordered; an error hides what earlier answers brought.
CatalogAnswers == SUBSET Goods

SearchAnswered(c) ==
  /\ calls[c].step = "search"
  /\ \E found \in CatalogAnswers : Loaded(found)
  /\ Render(order, secure, view, [calls EXCEPT ![c] = Idle])
  /\ UNCHANGED <<invited, verified, check, edits>>

CheckStarted(c) ==
  /\ check' = "running"
  /\ Render(order, secure, view,
            [calls EXCEPT ![c] = [Idle EXCEPT !.step = "check", !.sent = order.product]])
  /\ UNCHANGED <<invited, verified, catalog, edits>>

\* loadProgram, answered: a remembered product is dropped or asked for again.
ProgramAnswered(c) ==
  /\ calls[c].step = "program"
  /\ \/ order.product # None /\ check # "running" /\ CheckStarted(c)
     \/ /\ order.product # None
        /\ verified' = FALSE /\ check' = Forget
        /\ Render(ClearOrder(order), secure, view, [calls EXCEPT ![c] = Idle])
        /\ UNCHANGED <<invited, catalog, edits>>
     \/ /\ Render(order, secure, view, [calls EXCEPT ![c] = Idle])
        /\ UNCHANGED <<invited, verified, check, catalog, edits>>

\* validateRestoredProduct, answered: the product asked for replaces whatever is chosen now.
CheckAnswered(c) ==
  /\ calls[c].step = "check"
  /\ \/ /\ verified' = TRUE /\ check' = "none"
        /\ Render([order EXCEPT !.product = calls[c].sent], secure, view, [calls EXCEPT ![c] = Idle])
     \/ /\ verified' = FALSE /\ check' = "none"
        /\ Render(ClearOrder(order), secure, view, [calls EXCEPT ![c] = Idle])
     \/ /\ verified' = verified /\ check' = "failed"
        /\ Render(order, secure, view, [calls EXCEPT ![c] = Idle])
  /\ UNCHANGED <<invited, catalog, edits>>

Proceed(c) ==
  \/ StartReview(c) \/ SessionAnswered(c) \/ ReadinessAnswered(c) \/ PreviewAnswered(c)
  \/ Said(c) \/ SayingFailed(c) \/ SearchAnswered(c)
  \/ ProgramAnswered(c) \/ CheckAnswered(c)

-----------------------------------------------------------------------------
(* The user.                                                               *)

Edit == edits < MaxEdits /\ edits' = edits + 1

\* What the pages offer.  The search page: the products found, once they are loaded.
Offered(product) ==
  view = "other" /\ catalog.searched /\ ~catalog.loading /\ product \in catalog.products

\* The home page: to drop a verified product, though it is being checked again.
HomeOrder == view = "other" /\ order.product # None /\ verified

\* The product and its order form.
OrderForm == view = "other" /\ GateOpen

DeliveryForm == view = "other" /\ GateOpen

\* The review page: to try (again), when it failed, its preview is stale or there is none yet.
ReviewOffered ==
  /\ view = "review" /\ GateOpen /\ secure.recipient # None
  /\ \/ secure.error \in {"other", "forbidden"}
     \/ secure.preview # None /\ ~Usable(secure)
     \/ ~secure.loading /\ secure.error = None /\ secure.readiness = None

\* ... and an invitation, when no budget is registered.
InviteForm == view = "review" /\ GateOpen /\ secure.recipient # None /\ secure.error = "budget"

Say(c) ==
  /\ Edit /\ calls[c] = Idle
  /\ catalog' = [Unsearched EXCEPT !.loading = TRUE]
  /\ view' = "other"
  /\ calls' = [calls EXCEPT ![c] =
       [step |-> "say", sent |-> IF invited THEN "invited" ELSE OwnCase(order).case,
        credential |-> IF invited THEN "continuation" ELSE None]]
  /\ UNCHANGED <<order, invited, verified, check, secure>>

\* The same search again, offered when there is nothing to show (retry-search).
Search(c) ==
  /\ Edit /\ calls[c] = Idle
  /\ view = "other" /\ catalog = [Searching EXCEPT !.loading = FALSE]
  /\ catalog' = Searching
  /\ order' = OwnCase(order)
  /\ view' = "other"
  /\ calls' = [calls EXCEPT ![c] = [Idle EXCEPT !.step = "search"]]
  /\ UNCHANGED <<invited, verified, check, secure>>

SelectProduct(product) ==
  /\ Edit /\ Offered(product)
  /\ order' = [OwnCase(order) EXCEPT !.product = product, !.quantity = 1]
  /\ verified' = TRUE
  /\ secure' = Changed(secure)
  /\ view' = "other"
  /\ UNCHANGED <<invited, check, catalog, calls>>

ChangeQuantity(quantity) ==
  /\ Edit /\ OrderForm
  /\ order' = [order EXCEPT !.quantity = quantity]
  /\ secure' = Changed(secure)
  /\ UNCHANGED <<invited, verified, check, catalog, view, calls>>

\* The delivery form, complete.
SubmitDelivery(recipient) ==
  /\ Edit /\ DeliveryForm
  /\ Render(order,
            Touched([Changed(secure) EXCEPT !.recipient = recipient, !.draft = FALSE, !.error = None]),
            "review", calls)
  /\ UNCHANGED <<invited, verified, check, catalog>>

\* The delivery form with a field missing.
SubmitDraft ==
  /\ Edit /\ DeliveryForm
  /\ secure' = Touched([secure EXCEPT !.draft = TRUE])
  /\ UNCHANGED <<order, invited, verified, check, catalog, view, calls>>

RunReview(c) ==
  /\ Edit /\ ReviewOffered /\ calls[c] = Idle
  /\ order' = Joined(order)
  /\ secure' = [secure EXCEPT !.loading = TRUE, !.error = None]
  /\ calls' = [calls EXCEPT ![c] = ReviewCall(Joined(order))]
  /\ UNCHANGED <<invited, verified, check, catalog, view>>

\* The invitation of an institution: render schedules a review and another one starts at once.
AcceptInvite(c, d) ==
  LET o == [order EXCEPT !.case = "invited", !.token = None]
      s == [secure EXCEPT !.error = None, !.readiness = None] IN
  /\ Edit /\ InviteForm
  /\ c # d /\ calls[c] = Idle /\ calls[d] = Idle
  /\ invited' = TRUE
  /\ order' = o
  /\ secure' = [s EXCEPT !.attempted = IF s.loading THEN None ELSE TermsFingerprint(o, s),
                         !.loading = TRUE]
  /\ calls' = [calls EXCEPT
       ![c] = [Base(o) EXCEPT !.credential = "continuation"],
       ![d] = IF s.loading THEN Idle ELSE [Idle EXCEPT !.step = "scheduled"]]
  /\ UNCHANGED <<verified, check, catalog, view>>

RemoveOrder ==
  /\ Edit /\ (HomeOrder \/ OrderForm)
  /\ order' = ClearOrder(order)
  /\ verified' = FALSE /\ check' = Forget
  /\ secure' = Empty
  /\ UNCHANGED <<invited, catalog, view, calls>>

RetryCheck(c) ==
  /\ Edit /\ check = "failed" /\ order.product # None /\ calls[c] = Idle
  /\ check' = "running"
  /\ Render(order, secure, view,
            [calls EXCEPT ![c] = [Idle EXCEPT !.step = "check", !.sent = order.product]])
  /\ UNCHANGED <<invited, verified, catalog>>

Visit(v) ==
  /\ v # view
  /\ Render(order, secure, v, calls)
  /\ UNCHANGED <<invited, verified, check, catalog, edits>>

\* The page is loaded again: memory is gone, sessionStorage is not.
Reload(c) ==
  /\ Edit
  /\ verified' = FALSE /\ check' = "none" /\ catalog' = Unsearched
  /\ secure' = Empty
  /\ calls' = Starting(c)
  /\ UNCHANGED <<order, invited, view>>

-----------------------------------------------------------------------------
(* Time.                                                                   *)

\* dropSecure, by the timer or because the page was hidden.
DropSecure(notice) ==
  /\ secure # Empty
  /\ notice => secure.timer
  /\ secure' = Empty
  /\ UNCHANGED <<order, invited, verified, check, catalog, view, calls, edits>>

ConsentExpires ==
  /\ secure.live
  /\ secure' = [secure EXCEPT !.live = FALSE]
  /\ UNCHANGED <<order, invited, verified, check, catalog, view, calls, edits>>

TokenExpires ==
  /\ order.token # None
  /\ order' = [order EXCEPT !.token = None]
  /\ UNCHANGED <<invited, verified, check, catalog, secure, view, calls, edits>>

Next ==
  \/ \E c \in Calls : Proceed(c) \/ Say(c) \/ Search(c) \/ RunReview(c) \/ RetryCheck(c) \/ Reload(c)
  \/ \E c, d \in Calls : AcceptInvite(c, d)
  \/ \E p \in Goods : SelectProduct(p)
  \/ \E q \in Quantities : ChangeQuantity(q)
  \/ \E r \in Recipients : SubmitDelivery(r)
  \/ SubmitDraft \/ RemoveOrder
  \/ \E v \in {"review", "other"} : Visit(v)
  \/ \E notice \in BOOLEAN : DropSecure(notice)
  \/ ConsentExpires \/ TokenExpires

\* Every call is answered or fails in the end.
Spec == Init /\ [][Next]_vars /\ \A c \in Calls : WF_vars(Proceed(c))

-----------------------------------------------------------------------------
(* What the page holds at any time: part of VerifiedBeforeDelivery.        *)
WebTypeOK ==
  /\ order \in [case : Cases \cup {None}, token : Cases \cup {None},
                product : Goods \cup {None}, quantity : Quantities]
  /\ invited \in BOOLEAN /\ verified \in BOOLEAN
  /\ check \in {"none", "running", "failed"}
  /\ catalog \in [searched : BOOLEAN, loading : BOOLEAN, products : SUBSET Goods]
  /\ secure \in [recipient : Recipients \cup {None}, draft : BOOLEAN,
                 readiness : {None, "ready", "blocked"}, preview : Terms \cup {None},
                 fingerprint : Terms \cup {None}, live : BOOLEAN, attempted : Terms \cup {None},
                 error : {None} \cup Failures,
                 loading : BOOLEAN, timer : BOOLEAN]
  /\ view \in {"review", "other"}
  /\ \A c \in Calls : calls[c] = Idle \/ calls[c].step # "idle"
  /\ edits \in 0 .. MaxEdits

(* Personal data in memory, also inside a preview that arrives after the   *)
(* page was told to forget it, is always under the timer that forgets it.  *)
PersonalDataTimed ==
  secure.recipient # None \/ secure.draft \/ secure.preview # None => secure.timer

(* Where to deliver is only known for a product the supplier has confirmed *)
(* since the page was loaded, whatever checks and choices overlap.         *)
VerifiedBeforeDelivery ==
  /\ WebTypeOK
  /\ secure.recipient # None /\ order.product # None => verified

(* The reviews render asks for on its own come to an end, and not before   *)
(* the terms on the review page have been tried: the page neither keeps    *)
(* calling the server nor leaves new terms without a review.               *)
ReviewsComeToRest ==
  <>[]((\A c \in Calls : calls[c] = Idle) /\ ~Due(order, secure, view))

(* A preview the page calls usable is of the terms it shows: when a term   *)
(* changes, preview and proof are dropped at once.  Stated for a page that *)
(* shows the review and waits for nothing.                                 *)
UsablePreviewIsCurrent ==
  Usable(secure) /\ view = "review" /\ GateOpen /\ secure.recipient # None /\ (\A c \in Calls : calls[c] = Idle)
    => secure.preview = TermsFingerprint(order, secure)

=============================================================================
