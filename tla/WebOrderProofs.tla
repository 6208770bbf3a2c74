--------------------------- MODULE WebOrderProofs ---------------------------
(***************************************************************************)
(* The beneficiary's page for any products, quantities, recipients and any *)
(* number of calls under way: its types, that personal data is always      *)
(* under the timer that forgets it, and that a delivery is only asked for  *)
(* once the supplier has confirmed the product.                            *)
(***************************************************************************)
EXTENDS WebOrder, TLAPS

Orders ==
  [case : Cases \cup {None}, token : Cases \cup {None},
   product : Goods \cup {None}, quantity : Quantities]
Catalogs == [searched : BOOLEAN, loading : BOOLEAN, products : SUBSET Goods]
Pages ==
  [recipient : Recipients \cup {None}, draft : BOOLEAN,
   readiness : {None, "ready", "blocked"}, preview : Terms \cup {None},
   fingerprint : Terms \cup {None}, live : BOOLEAN, attempted : Terms \cup {None},
   error : {None} \cup Failures,
   loading : BOOLEAN, timer : BOOLEAN]
Views == {"review", "other"}

\* What a call under way carries depends on the step it is at.
Credentials == Cases \cup {None, "continuation"}
Messages ==
  [step : {"idle", "program", "scheduled", "search"}, sent : {None}, credential : {None}]
    \cup [step : {"session", "say"}, sent : Cases, credential : Credentials]
    \cup [step : {"readiness", "preview"}, sent : Terms, credential : Credentials]
    \cup [step : {"check"}, sent : Goods, credential : Credentials]
CallMaps == [Calls -> Messages]

Timed(s) == s.recipient # None \/ s.draft \/ s.preview # None => s.timer

\* The delivery that is known at a time, as VerifiedBeforeDelivery has it.
Confirmed(o, s, v) == s.recipient # None /\ o.product # None => v

PageTypes ==
  /\ order \in Orders /\ invited \in BOOLEAN /\ verified \in BOOLEAN
  /\ check \in {"none", "running", "failed"}
  /\ catalog \in Catalogs /\ view \in Views /\ edits \in 0 .. MaxEdits

(***************************************************************************)
(* The inductive invariant: besides the properties, what is under way.     *)
(***************************************************************************)
PageInv ==
  /\ PageTypes
  /\ secure \in Pages /\ calls \in CallMaps
  /\ Timed(secure) /\ Confirmed(order, secure, verified)

-----------------------------------------------------------------------------
(***************************************************************************)
(* What the handlers share.                                                *)
(***************************************************************************)

\* t holds the personal data of s or less, under the same timer.
Holds(s, t) ==
  /\ t.recipient = s.recipient /\ t.draft = s.draft /\ t.timer = s.timer
  /\ t.preview = s.preview \/ t.preview = None

LEMMA HoldsTimed == ASSUME NEW s, NEW t, Timed(s), Holds(s, t) PROVE Timed(t)
BY DEF Timed, Holds

LEMMA EmptyPage == Empty \in Pages /\ Timed(Empty) /\ Empty.recipient = None
BY DEF Empty, Pages, Timed

\* An order's terms on a page, without quantities that are not offered.
LEMMA FingerprintTyped ==
  ASSUME NEW o \in Orders, NEW s \in Pages PROVE TermsFingerprint(o, s) \in Terms
BY DEF Orders, Pages, TermsFingerprint, Terms

LEMMA InvalidatedPage ==
  ASSUME NEW s \in Pages
  PROVE  Invalidated(s) \in Pages /\ Holds(s, Invalidated(s)) /\ Invalidated(s).error = s.error
BY DEF Pages, Invalidated, Holds

LEMMA ChangedPage ==
  ASSUME NEW s \in Pages PROVE Changed(s) \in Pages /\ Holds(s, Changed(s))
BY DEF Pages, Changed, Invalidated, Holds

LEMMA TouchedPage ==
  ASSUME NEW s \in Pages
  PROVE  Touched(s) \in Pages /\ Timed(Touched(s)) /\ Touched(s).recipient = s.recipient
BY DEF Pages, Touched, Timed

\* What is not personal may change at will.
LEMMA OtherFields ==
  ASSUME NEW s \in Pages
  PROVE  /\ \A e \in {None} \cup Failures :
              LET t == [s EXCEPT !.error = e] IN t \in Pages /\ Holds(s, t)
         /\ \A l \in BOOLEAN :
              LET t == [s EXCEPT !.loading = l] IN t \in Pages /\ Holds(s, t)
         /\ \A r \in {None, "ready", "blocked"} :
              LET t == [s EXCEPT !.readiness = r] IN t \in Pages /\ Holds(s, t)
         /\ \A a \in Terms \cup {None} :
              LET t == [s EXCEPT !.attempted = a] IN t \in Pages /\ Holds(s, t)
         /\ LET t == [s EXCEPT !.live = FALSE] IN t \in Pages /\ Holds(s, t)
BY DEF Pages, Holds

LEMMA HoldsTransitive ==
  ASSUME NEW s, NEW t, NEW u, Holds(s, t), Holds(t, u) PROVE Holds(s, u)
BY DEF Holds

LEMMA IdleTyped ==
  /\ Idle \in Messages
  /\ \A step \in {"program", "scheduled", "search"} : [Idle EXCEPT !.step = step] \in Messages
  /\ \A g \in Goods : [Idle EXCEPT !.step = "check", !.sent = g] \in Messages
BY DEF Idle, Messages, Credentials

\* Joining an invited case and opening a case of one's own leave the rest alone.
LEMMA OrdersTyped ==
  ASSUME NEW o \in Orders
  PROVE  /\ Joined(o) \in Orders /\ Joined(o).product = o.product
         /\ OwnCase(o) \in Orders /\ OwnCase(o).case \in Cases /\ OwnCase(o).product = o.product
         /\ \A c \in Cases, t \in Cases \cup {None} :
              LET p == [o EXCEPT !.case = c, !.token = t] IN p \in Orders /\ p.product = o.product
         /\ LET p == [o EXCEPT !.token = None] IN p \in Orders /\ p.product = o.product
         /\ \A g \in Goods : [o EXCEPT !.product = g] \in Orders
BY DEF Orders, Joined, OwnCase, Cases

LEMMA ClearedOrder ==
  ASSUME NEW o \in Orders PROVE ClearOrder(o) \in Orders /\ ClearOrder(o).product = None
BY WebAssumption DEF Orders, ClearOrder

LEMMA ReviewCallTyped ==
  ASSUME NEW o \in Orders PROVE ReviewCall(o) \in Messages /\ Base(o) \in Messages
<1>1. [TermsFingerprint(o, Empty) EXCEPT !.recipient = None] \in Terms
  BY EmptyPage, FingerprintTyped DEF Terms
<1>2. Base(o) \in Messages
  BY <1>1 DEF Base, Messages, Credentials, Orders
<1>3. [step |-> "session", sent |-> OwnCase(o).case, credential |-> None] \in Messages
  BY OrdersTyped DEF Messages, Credentials
<1> QED BY <1>2, <1>3 DEF ReviewCall

LEMMA CallTyped ==
  ASSUME NEW cs \in CallMaps, NEW c \in Calls, NEW m \in Messages
  PROVE  [cs EXCEPT ![c] = m] \in CallMaps
BY DEF CallMaps

\* What the rest of the page is after a handler.
RestTyped ==
  /\ invited' \in BOOLEAN /\ verified' \in BOOLEAN
  /\ check' \in {"none", "running", "failed"}
  /\ catalog' \in Catalogs /\ edits' \in 0 .. MaxEdits

\* render shows what the handler leaves and adds no personal data.
LEMMA RenderKeeps ==
  ASSUME NEW o \in Orders, NEW s \in Pages, NEW v \in Views, NEW cs \in CallMaps,
         Timed(s), RestTyped, Confirmed(o, s, verified'), Render(o, s, v, cs)
  PROVE  PageInv'
<1>1. order' = o /\ view' = v
  BY DEF Render
<1>2. secure' \in Pages /\ Holds(s, secure') /\ calls' \in CallMaps
  <2>1. CASE Due(o, s, v)
    <3>1. PICK c \in Calls :
            /\ secure' = [s EXCEPT !.attempted = TermsFingerprint(o, s)]
            /\ calls' = [cs EXCEPT ![c] = [Idle EXCEPT !.step = "scheduled"]]
      BY <2>1 DEF Render
    <3>2. secure' \in Pages /\ Holds(s, secure')
      BY <3>1, OtherFields, FingerprintTyped
    <3>3. calls' \in CallMaps
      BY <3>1, IdleTyped, CallTyped
    <3> QED BY <3>2, <3>3
  <2>2. CASE ~Due(o, s, v)
    BY <2>2 DEF Render, Holds
  <2> QED BY <2>1, <2>2
<1>3. Timed(secure')
  BY <1>2, HoldsTimed
<1>4. Confirmed(order', secure', verified')
  BY <1>1, <1>2 DEF Confirmed, Holds
<1> QED BY <1>1, <1>2, <1>3, <1>4 DEF PageInv, PageTypes, RestTyped

\* The same for a handler that does not render, or changes nothing more.
LEMMA PageKeeps ==
  ASSUME NEW o \in Orders, NEW s \in Pages, NEW v \in Views, NEW cs \in CallMaps,
         Timed(s), RestTyped, Confirmed(o, s, verified'),
         order' = o, secure' = s, view' = v, calls' = cs
  PROVE  PageInv'
BY DEF PageInv, PageTypes, RestTyped

\* A call ends, with what the page makes of it.
LEMMA FinishKeeps ==
  ASSUME PageInv, NEW c \in Calls, NEW o \in Orders, NEW s \in Pages,
         Timed(s), Confirmed(o, s, verified), Finish(c, o, s)
  PROVE  PageInv'
<1> DEFINE t == [s EXCEPT !.loading = FALSE]
<1>1. t \in Pages /\ Holds(s, t)
  BY OtherFields
<1>2. Timed(t) /\ Confirmed(o, t, verified)
  BY <1>1, HoldsTimed DEF Confirmed, Holds
<1>3. [calls EXCEPT ![c] = Idle] \in CallMaps
  BY IdleTyped, CallTyped DEF PageInv
<1>4. RestTyped /\ verified' = verified /\ view \in Views
  BY DEF Finish, RestTyped, PageInv, PageTypes
<1>5. Render(o, t, view, [calls EXCEPT ![c] = Idle])
  BY DEF Finish
<1> HIDE DEF t
<1> QED BY <1>1, <1>2, <1>3, <1>4, <1>5, RenderKeeps

LEMMA ReviewFailsKeeps ==
  ASSUME PageInv, NEW c \in Calls, NEW error \in Failures, ReviewFails(c, error)
  PROVE  PageInv'
<1> DEFINE o == IF error = "forbidden" THEN [order EXCEPT !.token = None] ELSE order
           i == Invalidated(secure)
           s == [i EXCEPT !.error = error]
<1>1. o \in Orders /\ o.product = order.product
  BY OrdersTyped DEF PageInv, PageTypes
<1>2. i \in Pages /\ Holds(secure, i)
  BY InvalidatedPage DEF PageInv
<1>3. s \in Pages /\ Holds(i, s)
  <2> HIDE DEF i
  <2> QED BY <1>2, OtherFields
<1>4. Finish(c, o, s)
  BY DEF ReviewFails
<1> HIDE DEF o, i, s
<1>5. Holds(secure, s) /\ Timed(s)
  BY <1>2, <1>3, HoldsTransitive, HoldsTimed DEF PageInv
<1>6. Confirmed(o, s, verified)
  BY <1>1, <1>5 DEF PageInv, Confirmed, Holds
<1> QED BY <1>1, <1>3, <1>4, <1>5, <1>6, FinishKeeps
-----------------------------------------------------------------------------
(***************************************************************************)
(* The calls, one lemma per handler.                                       *)
(***************************************************************************)
\* A review of the order begins, by itself or because the user asked for it.
LEMMA ReviewBegins ==
  ASSUME PageInv, NEW c \in Calls, RestTyped, verified' = verified, view' = view,
         order' = Joined(order),
         secure' = [secure EXCEPT !.loading = TRUE, !.error = None],
         calls' = [calls EXCEPT ![c] = ReviewCall(Joined(order))]
  PROVE  PageInv'
<1> DEFINE e == [secure EXCEPT !.error = None]
           s == [e EXCEPT !.loading = TRUE]
<1>1. e \in Pages /\ Holds(secure, e)
  BY OtherFields DEF PageInv
<1>2. s \in Pages /\ Holds(e, s)
  <2> HIDE DEF e
  <2> QED BY <1>1, OtherFields
<1>3. secure' = s
  BY DEF PageInv, Pages
<1> HIDE DEF e, s
<1>4. Joined(order) \in Orders /\ Joined(order).product = order.product
  BY OrdersTyped DEF PageInv, PageTypes
<1>5. [calls EXCEPT ![c] = ReviewCall(Joined(order))] \in CallMaps
  BY <1>4, ReviewCallTyped, CallTyped DEF PageInv
<1>6. Holds(secure, s) /\ Timed(s)
  BY <1>1, <1>2, HoldsTransitive, HoldsTimed DEF PageInv
<1>7. Confirmed(Joined(order), s, verified) /\ view \in Views
  BY <1>4, <1>6 DEF PageInv, PageTypes, Confirmed, Holds
<1> QED
  BY <1>2, <1>3, <1>4, <1>5, <1>6, <1>7, PageKeeps

LEMMA StartReviewKeeps ==
  ASSUME PageInv, NEW c \in Calls, StartReview(c) PROVE PageInv'
<1>1. RestTyped /\ verified' = verified /\ view' = view /\ view \in Views
  BY DEF StartReview, RestTyped, PageInv, PageTypes
<1>2. CASE order.product = None
  <2>1. [calls EXCEPT ![c] = Idle] \in CallMaps
    BY IdleTyped, CallTyped DEF PageInv
  <2> QED BY <1>1, <1>2, <2>1, PageKeeps DEF StartReview, PageInv, PageTypes
<1>3. CASE order.product # None
  BY <1>1, <1>3, ReviewBegins DEF StartReview
<1> QED BY <1>2, <1>3

LEMMA SessionAnsweredKeeps ==
  ASSUME PageInv, NEW c \in Calls, SessionAnswered(c) PROVE PageInv'
<1> DEFINE o == [order EXCEPT !.case = calls[c].sent, !.token = calls[c].sent]
<1>1. CASE ReviewFails(c, IF calls[c].sent = "own" THEN "other" ELSE "forbidden")
  BY <1>1, ReviewFailsKeeps DEF Failures
<1>2. CASE calls[c].sent = "own" /\ ~ReviewFails(c, IF calls[c].sent = "own" THEN "other" ELSE "forbidden")
  <2>1. o \in Orders /\ o.product = order.product
    <3>1. order \in Orders /\ calls[c].sent \in Cases
      BY <1>2 DEF PageInv, PageTypes, Cases
    <3> QED BY <3>1 DEF Orders
  <2>2. CASE o.product = None
    <3> DEFINE i == Invalidated(secure)
               s == [i EXCEPT !.error = "other"]
    <3>1. i \in Pages /\ Holds(secure, i)
      BY InvalidatedPage DEF PageInv
    <3>2. s \in Pages /\ Holds(i, s)
      <4> HIDE DEF i
      <4> QED BY <3>1, OtherFields DEF Failures
    <3>3. Finish(c, o, s)
      BY <1>2, <2>2 DEF SessionAnswered
    <3> HIDE DEF i, s, o
    <3>4. Holds(secure, s) /\ Timed(s)
      BY <3>1, <3>2, HoldsTransitive, HoldsTimed DEF PageInv
    <3>5. Confirmed(o, s, verified)
      BY <2>1, <3>4 DEF PageInv, Confirmed, Holds
    <3> QED BY <2>1, <3>2, <3>3, <3>4, <3>5, FinishKeeps
  <2>3. CASE o.product # None
    <3>1. order' = o /\ calls' = [calls EXCEPT ![c] = Base(o)] /\ verified' = verified
          /\ secure' = secure /\ view' = view /\ RestTyped
      BY <1>2, <2>3 DEF SessionAnswered, RestTyped, PageInv, PageTypes
    <3> HIDE DEF o
    <3>2. [calls EXCEPT ![c] = Base(o)] \in CallMaps
      BY <2>1, ReviewCallTyped, CallTyped DEF PageInv
    <3>3. Confirmed(o, secure, verified) /\ Timed(secure) /\ secure \in Pages /\ view \in Views
      BY <2>1 DEF PageInv, PageTypes, Confirmed
    <3> QED BY <2>1, <3>1, <3>2, <3>3, PageKeeps
  <2> QED BY <2>2, <2>3
<1> QED BY <1>1, <1>2 DEF SessionAnswered

\* Readiness without a preview: a page with the readiness, and none of the preview.
LEMMA ReadinessKeeps ==
  ASSUME PageInv, NEW c \in Calls, NEW r \in {"ready", "blocked"},
         Finish(c, order, [Invalidated(secure) EXCEPT !.readiness = r, !.error = None])
  PROVE  PageInv'
<1> DEFINE i == Invalidated(secure)
           r1 == [i EXCEPT !.readiness = r]
           s == [r1 EXCEPT !.error = None]
<1>1. i \in Pages /\ Holds(secure, i)
  BY InvalidatedPage DEF PageInv
<1>2. r1 \in Pages /\ Holds(i, r1)
  <2> HIDE DEF i
  <2> QED BY <1>1, OtherFields
<1>3. s \in Pages /\ Holds(r1, s)
  <2> HIDE DEF r1
  <2> QED BY <1>2, OtherFields
<1>4. Finish(c, order, s)
  OBVIOUS
<1> HIDE DEF i, r1, s
<1>5. Holds(secure, s) /\ Timed(s)
  BY <1>1, <1>2, <1>3, HoldsTransitive, HoldsTimed DEF PageInv
<1>6. order \in Orders /\ Confirmed(order, s, verified)
  BY <1>5 DEF PageInv, PageTypes, Confirmed, Holds
<1> QED BY <1>3, <1>4, <1>5, <1>6, FinishKeeps

LEMMA ReadinessAnsweredKeeps ==
  ASSUME PageInv, NEW c \in Calls, ReadinessAnswered(c) PROVE PageInv'
<1>1. CASE \E error \in Failures : ReviewFails(c, error)
  BY <1>1, ReviewFailsKeeps
<1>2. CASE \E r \in {"ready", "blocked"} :
             Finish(c, order, [Invalidated(secure) EXCEPT !.readiness = r, !.error = None])
  BY <1>2, ReadinessKeeps
<1>3. CASE /\ secure.recipient # None
           /\ secure' = [secure EXCEPT !.readiness = "ready"]
           /\ calls' = [calls EXCEPT ![c].step = "preview", ![c].sent.recipient = secure.recipient]
           /\ UNCHANGED <<order, invited, verified, check, catalog, view, edits>>
  <2> DEFINE s == [secure EXCEPT !.readiness = "ready"]
             m == [calls[c] EXCEPT !.step = "preview", !.sent.recipient = secure.recipient]
  <2>1. s \in Pages /\ Holds(secure, s)
    BY OtherFields DEF PageInv
  <2>2. calls[c] \in Messages /\ calls[c].step = "readiness"
    BY DEF ReadinessAnswered, PageInv, CallMaps
  <2>3. calls[c].sent \in Terms /\ secure.recipient \in Recipients \cup {None}
    BY <2>2 DEF Messages, PageInv, Pages
  <2>4. m \in Messages
    BY <2>2, <2>3 DEF Messages, Terms
  <2>5. calls' = [calls EXCEPT ![c] = m]
    BY <1>3 DEF PageInv, CallMaps
  <2> HIDE DEF m, s
  <2>6. [calls EXCEPT ![c] = m] \in CallMaps
    BY <2>4, CallTyped DEF PageInv
  <2>7. Timed(s) /\ Confirmed(order, s, verified) /\ order \in Orders /\ view \in Views
    BY <2>1, HoldsTimed DEF PageInv, PageTypes, Confirmed, Holds
  <2>8. RestTyped /\ secure' = s
    BY <1>3 DEF RestTyped, PageInv, PageTypes, s
  <2> QED BY <1>3, <2>1, <2>5, <2>6, <2>7, <2>8, PageKeeps
<1> QED BY <1>1, <1>2, <1>3 DEF ReadinessAnswered

\* The preview an answer brings is kept only under a timer started anew.
LEMMA PreviewAnsweredKeeps ==
  ASSUME PageInv, NEW c \in Calls, PreviewAnswered(c) PROVE PageInv'
<1>1. CASE ReviewFails(c, "other")
  BY <1>1, ReviewFailsKeeps DEF Failures
<1>2. CASE Show(c)
  <2> DEFINE p == Previewed(secure, calls[c].sent)
  <2>1. calls[c].sent \in Terms
    BY DEF PreviewAnswered, PageInv, CallMaps, Messages
  <2>2. TermsFingerprint(order, secure) \in Terms
    BY FingerprintTyped DEF PageInv, PageTypes
  <2>3. p \in Pages /\ p.recipient = secure.recipient
    BY <2>1, <2>2 DEF Previewed, Pages, PageInv
  <2>4. Finish(c, order, Touched(p))
    BY <1>2 DEF Show
  <2> HIDE DEF p
  <2>5. Touched(p) \in Pages /\ Timed(Touched(p)) /\ Touched(p).recipient = secure.recipient
    BY <2>3, TouchedPage
  <2>6. order \in Orders /\ Confirmed(order, Touched(p), verified)
    BY <2>5 DEF PageInv, PageTypes, Confirmed
  <2> QED BY <2>4, <2>5, <2>6, FinishKeeps
<1> QED BY <1>1, <1>2 DEF PreviewAnswered

\* A session for what was said; a search or another page.
LEMMA SaidKeeps ==
  ASSUME PageInv, NEW c \in Calls, Said(c) PROVE PageInv'
<1> DEFINE o == [order EXCEPT !.case = calls[c].sent, !.token = calls[c].sent]
<1>1. order \in Orders /\ calls[c].sent \in Cases
  BY DEF Said, PageInv, PageTypes, CallMaps, Messages
<1>2. o \in Orders /\ o.product = order.product
  BY <1>1 DEF Orders
<1>3. RestTyped /\ verified' = verified
  <2>1. UNCHANGED <<invited, verified, check, edits>>
        /\ (catalog' = Searching \/ Loaded(catalog.products))
    BY DEF Said
  <2>2. catalog' \in Catalogs
    <3>1. CASE catalog' = Searching
      BY <3>1 DEF Catalogs, Searching
    <3>2. CASE Loaded(catalog.products)
      BY <3>2 DEF PageInv, PageTypes, Catalogs, Loaded
    <3> QED BY <2>1, <3>1, <3>2
  <2> QED BY <2>1, <2>2 DEF RestTyped, PageInv, PageTypes
<1>4. secure \in Pages /\ Timed(secure) /\ Confirmed(o, secure, verified) /\ view \in Views
  BY <1>2 DEF PageInv, PageTypes, Confirmed
<1>5. PICK v \in {view, "other"}, m \in {Idle, [Idle EXCEPT !.step = "search"]} :
        Render(o, secure, v, [calls EXCEPT ![c] = m])
  BY DEF Said
<1>6. v \in Views /\ [calls EXCEPT ![c] = m] \in CallMaps
  BY <1>4, IdleTyped, CallTyped DEF Views, PageInv
<1> HIDE DEF o
<1> QED BY <1>2, <1>3, <1>4, <1>5, <1>6, RenderKeeps

\* A call ends and the page shows the order as it was.
LEMMA EndedKeeps ==
  ASSUME PageInv, NEW c \in Calls, RestTyped, verified' = verified,
         NEW m \in Messages, Render(order, secure, view, [calls EXCEPT ![c] = m])
  PROVE  PageInv'
<1>1. [calls EXCEPT ![c] = m] \in CallMaps
  BY CallTyped DEF PageInv
<1> QED BY <1>1, RenderKeeps DEF PageInv, PageTypes

\* ... or without its product, which was not confirmed.
LEMMA DroppedKeeps ==
  ASSUME PageInv, NEW c \in Calls, RestTyped,
         Render(ClearOrder(order), secure, view, [calls EXCEPT ![c] = Idle])
  PROVE  PageInv'
<1>1. [calls EXCEPT ![c] = Idle] \in CallMaps
  BY IdleTyped, CallTyped DEF PageInv
<1>2. ClearOrder(order) \in Orders /\ Confirmed(ClearOrder(order), secure, verified')
  BY ClearedOrder DEF PageInv, PageTypes, Confirmed
<1> QED BY <1>1, <1>2, RenderKeeps DEF PageInv, PageTypes

LEMMA SayingFailedKeeps ==
  ASSUME PageInv, NEW c \in Calls, SayingFailed(c) PROVE PageInv'
<1>1. RestTyped
  BY DEF SayingFailed, RestTyped, PageInv, PageTypes, Catalogs, Loaded
<1> QED BY <1>1, IdleTyped, EndedKeeps DEF SayingFailed

LEMMA SearchAnsweredKeeps ==
  ASSUME PageInv, NEW c \in Calls, SearchAnswered(c) PROVE PageInv'
<1>1. RestTyped
  BY DEF SearchAnswered, CatalogAnswers, RestTyped, PageInv, PageTypes, Catalogs, Loaded
<1> QED BY <1>1, IdleTyped, EndedKeeps DEF SearchAnswered

LEMMA CheckStartedKeeps ==
  ASSUME PageInv, NEW c \in Calls, order.product # None, RestTyped, verified' = verified,
         Render(order, secure, view,
                [calls EXCEPT ![c] = [Idle EXCEPT !.step = "check", !.sent = order.product]])
  PROVE  PageInv'
<1>1. order.product \in Goods
  BY DEF PageInv, PageTypes, Orders
<1>2. [Idle EXCEPT !.step = "check", !.sent = order.product] \in Messages
  BY <1>1, IdleTyped
<1> QED BY <1>2, EndedKeeps

LEMMA ProgramAnsweredKeeps ==
  ASSUME PageInv, NEW c \in Calls, ProgramAnswered(c) PROVE PageInv'
<1>1. RestTyped
  BY DEF ProgramAnswered, CheckStarted, Forget, RestTyped, PageInv, PageTypes
<1>2. CASE order.product # None /\ check # "running" /\ CheckStarted(c)
  BY <1>1, <1>2, CheckStartedKeeps DEF CheckStarted
<1>3. CASE Render(ClearOrder(order), secure, view, [calls EXCEPT ![c] = Idle])
  BY <1>1, <1>3, DroppedKeeps
<1>4. CASE /\ Render(order, secure, view, [calls EXCEPT ![c] = Idle])
           /\ UNCHANGED <<invited, verified, check, catalog, edits>>
  BY <1>1, <1>4, IdleTyped, EndedKeeps
<1> QED BY <1>2, <1>3, <1>4 DEF ProgramAnswered

\* The answer is about the product asked for, whatever was chosen in the meantime.
LEMMA CheckAnsweredKeeps ==
  ASSUME PageInv, NEW c \in Calls, CheckAnswered(c) PROVE PageInv'
<1>1. RestTyped
  BY DEF CheckAnswered, RestTyped, PageInv, PageTypes
<1>2. CASE /\ verified' = TRUE
           /\ Render([order EXCEPT !.product = calls[c].sent], secure, view,
                     [calls EXCEPT ![c] = Idle])
  <2> DEFINE o == [order EXCEPT !.product = calls[c].sent]
  <2>1. calls[c].sent \in Goods
    BY DEF CheckAnswered, PageInv, CallMaps, Messages
  <2>2. o \in Orders
    BY <2>1, OrdersTyped DEF PageInv, PageTypes
  <2>3. [calls EXCEPT ![c] = Idle] \in CallMaps
    BY IdleTyped, CallTyped DEF PageInv
  <2> HIDE DEF o
  <2>4. Confirmed(o, secure, verified')
    BY <1>2 DEF Confirmed
  <2>5. Render(o, secure, view, [calls EXCEPT ![c] = Idle])
    BY <1>2 DEF o
  <2> QED BY <1>1, <2>2, <2>3, <2>4, <2>5, RenderKeeps DEF PageInv, PageTypes
<1>3. CASE Render(ClearOrder(order), secure, view, [calls EXCEPT ![c] = Idle])
  BY <1>1, <1>3, DroppedKeeps
<1>4. CASE verified' = verified /\ Render(order, secure, view, [calls EXCEPT ![c] = Idle])
  BY <1>1, <1>4, IdleTyped, EndedKeeps
<1> QED BY <1>2, <1>3, <1>4 DEF CheckAnswered

LEMMA ProceedKeeps ==
  ASSUME PageInv, NEW c \in Calls, Proceed(c) PROVE PageInv'
BY StartReviewKeeps, SessionAnsweredKeeps, ReadinessAnsweredKeeps, PreviewAnsweredKeeps,
   SaidKeeps, SayingFailedKeeps, SearchAnsweredKeeps, ProgramAnsweredKeeps, CheckAnsweredKeeps
   DEF Proceed
-----------------------------------------------------------------------------
(***************************************************************************)
(* The user, one lemma per action that writes something.                   *)
(***************************************************************************)
LEMMA EditCounts == ASSUME edits \in 0 .. MaxEdits, Edit PROVE edits' \in 0 .. MaxEdits
BY WebAssumption DEF Edit

LEMMA SayKeeps ==
  ASSUME PageInv, NEW c \in Calls, Say(c) PROVE PageInv'
<1> DEFINE m == [step |-> "say", sent |-> IF invited THEN "invited" ELSE OwnCase(order).case,
                 credential |-> IF invited THEN "continuation" ELSE None]
<1>1. m \in Messages
  BY OrdersTyped DEF PageInv, PageTypes, Messages, Credentials, Cases
<1>2. RestTyped
  BY EditCounts DEF Say, RestTyped, PageInv, PageTypes, Catalogs, Unsearched
<1>3. calls' = [calls EXCEPT ![c] = m] /\ order' = order /\ secure' = secure
      /\ verified' = verified /\ view' = "other"
  BY DEF Say
<1> HIDE DEF m
<1>4. [calls EXCEPT ![c] = m] \in CallMaps
  BY <1>1, CallTyped DEF PageInv
<1> QED BY <1>2, <1>3, <1>4, PageKeeps DEF PageInv, PageTypes, Views

LEMMA SearchKeeps ==
  ASSUME PageInv, NEW c \in Calls, Search(c) PROVE PageInv'
<1>1. RestTyped
  BY EditCounts DEF Search, RestTyped, PageInv, PageTypes, Catalogs, Searching
<1>2. [calls EXCEPT ![c] = [Idle EXCEPT !.step = "search"]] \in CallMaps
  BY IdleTyped, CallTyped DEF PageInv
<1>3. OwnCase(order) \in Orders /\ Confirmed(OwnCase(order), secure, verified)
  BY OrdersTyped DEF PageInv, PageTypes, Confirmed
<1>4. verified' = verified /\ order' = OwnCase(order) /\ secure' = secure /\ view' = "other"
      /\ calls' = [calls EXCEPT ![c] = [Idle EXCEPT !.step = "search"]]
  BY DEF Search
<1> QED BY <1>1, <1>2, <1>3, <1>4, PageKeeps DEF PageInv, PageTypes, Views

LEMMA SelectProductKeeps ==
  ASSUME PageInv, NEW product \in Goods, SelectProduct(product) PROVE PageInv'
<1>1. RestTyped /\ verified'
  BY EditCounts DEF SelectProduct, RestTyped, PageInv, PageTypes
<1>2. OwnCase(order) \in Orders
  BY OrdersTyped DEF PageInv, PageTypes
<1>3. [OwnCase(order) EXCEPT !.product = product, !.quantity = 1] \in Orders
  BY <1>2, WebAssumption DEF Orders
<1>4. Changed(secure) \in Pages /\ Timed(Changed(secure))
  BY ChangedPage, HoldsTimed DEF PageInv
<1>5. order' = [OwnCase(order) EXCEPT !.product = product, !.quantity = 1]
      /\ secure' = Changed(secure) /\ view' = "other" /\ calls' = calls
  BY DEF SelectProduct
<1> QED BY <1>1, <1>3, <1>4, <1>5 DEF PageInv, PageTypes, RestTyped, Confirmed, Views

LEMMA ChangeQuantityKeeps ==
  ASSUME PageInv, NEW quantity \in Quantities, ChangeQuantity(quantity) PROVE PageInv'
<1>1. RestTyped /\ verified' = verified /\ verified
  BY EditCounts DEF ChangeQuantity, OrderForm, GateOpen, RestTyped, PageInv, PageTypes
<1>2. Changed(secure) \in Pages /\ Timed(Changed(secure))
  BY ChangedPage, HoldsTimed DEF PageInv
<1>3. [order EXCEPT !.quantity = quantity] \in Orders
  BY DEF PageInv, PageTypes, Orders
<1>4. order' = [order EXCEPT !.quantity = quantity] /\ secure' = Changed(secure)
      /\ view' = view /\ calls' = calls
  BY DEF ChangeQuantity
<1> QED BY <1>1, <1>2, <1>3, <1>4 DEF PageInv, PageTypes, RestTyped, Confirmed

\* The gate has been passed, so the product is confirmed; the timer starts anew.
LEMMA SubmitDeliveryKeeps ==
  ASSUME PageInv, NEW recipient \in Recipients, SubmitDelivery(recipient) PROVE PageInv'
<1> DEFINE s == [Changed(secure) EXCEPT !.recipient = recipient, !.draft = FALSE, !.error = None]
<1>1. RestTyped /\ verified' = verified /\ verified
  BY EditCounts DEF SubmitDelivery, DeliveryForm, GateOpen, RestTyped, PageInv, PageTypes
<1>2. Changed(secure) \in Pages
  BY ChangedPage DEF PageInv
<1>3. s \in Pages
  BY <1>2 DEF Pages
<1>4. Render(order, Touched(s), "review", calls)
  BY DEF SubmitDelivery
<1> HIDE DEF s
<1>5. Touched(s) \in Pages /\ Timed(Touched(s))
  BY <1>3, TouchedPage
<1> QED
  BY <1>1, <1>4, <1>5, RenderKeeps DEF PageInv, PageTypes, Confirmed, Views

LEMMA SubmitDraftKeeps == PageInv /\ SubmitDraft => PageInv'
<1> SUFFICES ASSUME PageInv, SubmitDraft PROVE PageInv'
  OBVIOUS
<1> DEFINE s == [secure EXCEPT !.draft = TRUE]
<1>1. s \in Pages /\ s.recipient = secure.recipient
  BY DEF PageInv, Pages
<1>2. RestTyped /\ verified' = verified /\ order' = order /\ view' = view /\ calls' = calls
  BY EditCounts DEF SubmitDraft, RestTyped, PageInv, PageTypes
<1>3. secure' = Touched(s)
  BY DEF SubmitDraft
<1> HIDE DEF s
<1>4. Touched(s) \in Pages /\ Timed(Touched(s)) /\ Touched(s).recipient = secure.recipient
  BY <1>1, TouchedPage
<1> QED BY <1>2, <1>3, <1>4 DEF PageInv, PageTypes, RestTyped, Confirmed

LEMMA RunReviewKeeps ==
  ASSUME PageInv, NEW c \in Calls, RunReview(c) PROVE PageInv'
<1>1. RestTyped
  BY EditCounts DEF RunReview, RestTyped, PageInv, PageTypes
<1> QED BY <1>1, ReviewBegins DEF RunReview

LEMMA AcceptInviteKeeps ==
  ASSUME PageInv, NEW c \in Calls, NEW d \in Calls, AcceptInvite(c, d) PROVE PageInv'
<1> DEFINE o == [order EXCEPT !.case = "invited", !.token = None]
           e == [secure EXCEPT !.error = None]
           s == [e EXCEPT !.readiness = None]
           a == IF s.loading THEN None ELSE TermsFingerprint(o, s)
           u == [s EXCEPT !.attempted = a]
           w == [u EXCEPT !.loading = TRUE]
           m == [Base(o) EXCEPT !.credential = "continuation"]
           n == IF s.loading THEN Idle ELSE [Idle EXCEPT !.step = "scheduled"]
<1>1. o \in Orders
  BY DEF PageInv, PageTypes, Orders, Cases
<1>2. e \in Pages /\ Holds(secure, e)
  BY OtherFields DEF PageInv
<1>3. s \in Pages /\ Holds(e, s)
  <2> HIDE DEF e
  <2> QED BY <1>2, OtherFields
<1>4. a \in Terms \cup {None}
  <2> HIDE DEF o, s
  <2> QED BY <1>1, <1>3, FingerprintTyped
<1>5. u \in Pages /\ Holds(s, u)
  <2> HIDE DEF s, a
  <2> QED BY <1>3, <1>4, OtherFields
<1>6. w \in Pages /\ Holds(u, w)
  <2> HIDE DEF u
  <2> QED BY <1>5, OtherFields
<1>7. m \in Messages
  <2>1. Base(o) \in Messages /\ Base(o).step = "readiness"
    <3> HIDE DEF o
    <3> QED BY <1>1, ReviewCallTyped DEF Base
  <2> QED BY <2>1 DEF Messages, Credentials
<1>8. n \in Messages
  BY IdleTyped
<1>9. RestTyped /\ verified' = verified /\ verified /\ view' = view
  BY EditCounts DEF AcceptInvite, InviteForm, GateOpen, RestTyped, PageInv, PageTypes
<1>10. order' = o /\ calls' = [calls EXCEPT ![c] = m, ![d] = n]
  BY DEF AcceptInvite
<1>11. secure' = w
  BY DEF AcceptInvite, PageInv, Pages
<1> HIDE DEF o, e, s, a, u, w, m, n
<1>12. calls' \in CallMaps
  BY <1>7, <1>8, <1>10 DEF CallMaps, PageInv
<1>13. Timed(w)
  BY <1>2, <1>3, <1>5, <1>6, HoldsTimed DEF PageInv
<1> QED
  BY <1>1, <1>6, <1>9, <1>10, <1>11, <1>12, <1>13
     DEF PageInv, PageTypes, RestTyped, Confirmed

LEMMA StartingTyped == ASSUME NEW c \in Calls PROVE Starting(c) \in CallMaps
BY IdleTyped DEF Starting, CallMaps

\* Memory is gone: there is nothing to time and nowhere to deliver to.
LEMMA ForgottenKeeps ==
  ASSUME PageInv, RestTyped, secure' = Empty, order' \in Orders, view' \in Views,
         calls' \in CallMaps
  PROVE  PageInv'
BY EmptyPage DEF PageInv, PageTypes, RestTyped, Confirmed

LEMMA RemoveOrderKeeps == PageInv /\ RemoveOrder => PageInv'
<1> SUFFICES ASSUME PageInv, RemoveOrder PROVE PageInv'
  OBVIOUS
<1>1. RestTyped
  BY EditCounts DEF RemoveOrder, Forget, RestTyped, PageInv, PageTypes
<1> QED
  BY <1>1, ClearedOrder, ForgottenKeeps DEF RemoveOrder, PageInv, PageTypes

LEMMA ReloadKeeps == ASSUME PageInv, NEW c \in Calls, Reload(c) PROVE PageInv'
<1>1. RestTyped
  BY EditCounts DEF Reload, RestTyped, PageInv, PageTypes, Catalogs, Unsearched
<1> QED BY <1>1, StartingTyped, ForgottenKeeps DEF Reload, PageInv, PageTypes

LEMMA RetryCheckKeeps == ASSUME PageInv, NEW c \in Calls, RetryCheck(c) PROVE PageInv'
<1>1. RestTyped
  BY EditCounts DEF RetryCheck, RestTyped, PageInv, PageTypes
<1> QED BY <1>1, CheckStartedKeeps DEF RetryCheck

LEMMA VisitKeeps == ASSUME PageInv, NEW v \in Views, Visit(v) PROVE PageInv'
<1>1. RestTyped /\ verified' = verified
  BY DEF Visit, RestTyped, PageInv, PageTypes
<1> QED BY <1>1, RenderKeeps DEF Visit, PageInv, PageTypes

\* Time: memory is dropped, a consent or a token expires.
LEMMA TimeKeeps ==
  ASSUME PageInv, (\E notice \in BOOLEAN : DropSecure(notice)) \/ ConsentExpires \/ TokenExpires
  PROVE  PageInv'
<1>1. RestTyped /\ verified' = verified /\ view' = view /\ calls' = calls
  BY DEF DropSecure, ConsentExpires, TokenExpires, RestTyped, PageInv, PageTypes
<1>2. CASE \E notice \in BOOLEAN : DropSecure(notice)
  BY <1>1, <1>2, ForgottenKeeps DEF DropSecure, PageInv, PageTypes
<1>3. CASE ConsentExpires
  <2> DEFINE s == [secure EXCEPT !.live = FALSE]
  <2>1. s \in Pages /\ Holds(secure, s)
    BY OtherFields DEF PageInv
  <2>2. secure' = s /\ order' = order
    BY <1>3 DEF ConsentExpires
  <2> HIDE DEF s
  <2>3. Timed(s) /\ Confirmed(order, s, verified)
    BY <2>1, HoldsTimed DEF PageInv, Confirmed, Holds
  <2> QED BY <1>1, <2>1, <2>2, <2>3 DEF PageInv, PageTypes, RestTyped
<1>4. CASE TokenExpires
  <2> DEFINE o == [order EXCEPT !.token = None]
  <2>1. o \in Orders /\ o.product = order.product
    BY OrdersTyped DEF PageInv, PageTypes
  <2>2. order' = o /\ secure' = secure
    BY <1>4 DEF TokenExpires
  <2> HIDE DEF o
  <2> QED BY <1>1, <2>1, <2>2 DEF PageInv, PageTypes, RestTyped, Confirmed
<1> QED BY <1>2, <1>3, <1>4
-----------------------------------------------------------------------------
(***************************************************************************)
(* The page.                                                               *)
(***************************************************************************)
LEMMA PageInit == Init => PageInv
<1> SUFFICES ASSUME Init PROVE PageInv
  OBVIOUS
<1>1. order \in Orders
  BY WebAssumption DEF Init, Orders, Cases
<1>2. calls \in CallMaps
  BY StartingTyped DEF Init
<1>3. catalog \in Catalogs
  BY DEF Init, Unsearched, Catalogs
<1>4. 0 \in 0 .. MaxEdits
  BY WebAssumption
<1> QED
  BY <1>1, <1>2, <1>3, <1>4, EmptyPage DEF Init, PageInv, PageTypes, Confirmed, Views

LEMMA PageNext == PageInv /\ [Next]_vars => PageInv'
<1> SUFFICES ASSUME PageInv, [Next]_vars PROVE PageInv'
  OBVIOUS
<1>1. CASE UNCHANGED vars
  BY <1>1 DEF vars, PageInv, PageTypes
<1>2. ASSUME NEW c \in Calls,
             Proceed(c) \/ Say(c) \/ Search(c) \/ RunReview(c) \/ RetryCheck(c) \/ Reload(c)
      PROVE  PageInv'
  BY <1>2, ProceedKeeps, SayKeeps, SearchKeeps, RunReviewKeeps, RetryCheckKeeps, ReloadKeeps
<1>3. CASE \/ \E c, d \in Calls : AcceptInvite(c, d)
           \/ \E p \in Goods : SelectProduct(p)
           \/ \E q \in Quantities : ChangeQuantity(q)
           \/ \E r \in Recipients : SubmitDelivery(r)
           \/ SubmitDraft \/ RemoveOrder
           \/ \E v \in {"review", "other"} : Visit(v)
  BY <1>3, AcceptInviteKeeps, SelectProductKeeps, ChangeQuantityKeeps, SubmitDeliveryKeeps,
     SubmitDraftKeeps, RemoveOrderKeeps, VisitKeeps DEF Views
<1>4. CASE (\E notice \in BOOLEAN : DropSecure(notice)) \/ ConsentExpires \/ TokenExpires
  BY <1>4, TimeKeeps
<1> QED BY <1>1, <1>2, <1>3, <1>4 DEF Next

\* The page's types, what its calls carry, and both properties below, together.
THEOREM PageInvariant == Spec => []PageInv
<1> QED BY PageInit, PageNext, PTL DEF Spec

(***************************************************************************)
(* The name and address of a recipient, what was typed of them, and a      *)
(* preview that holds them are never in memory without the timer that      *)
(* forgets them, whichever answers arrive after it has (touchSecure,       *)
(* dropSecure and the callers of both in public/app.js).                   *)
(***************************************************************************)
THEOREM PersonalDataIsTimed == Spec => []PersonalDataTimed
<1>1. PageInv => PersonalDataTimed
  BY DEF PageInv, Timed, PersonalDataTimed
<1> QED BY <1>1, PageInvariant, PTL

(***************************************************************************)
(* Where to deliver is only known with a product the supplier confirmed    *)
(* since the page was loaded, whatever checks, choices and reviews overlap *)
(* (orderProductGate and validateRestoredProduct in public/app.js).        *)
(***************************************************************************)
THEOREM DeliveriesAreVerified == Spec => []VerifiedBeforeDelivery
<1>1. PageInv => WebTypeOK
  <2> SUFFICES ASSUME PageInv PROVE WebTypeOK
    OBVIOUS
  <2>1. \A c \in Calls : calls[c] = Idle \/ calls[c].step # "idle"
    BY DEF PageInv, CallMaps, Messages, Idle
  <2> QED BY <2>1 DEF PageInv, PageTypes, WebTypeOK, Orders, Catalogs, Pages, Views
<1>2. PageInv => VerifiedBeforeDelivery
  BY <1>1 DEF PageInv, Confirmed, VerifiedBeforeDelivery
<1> QED BY <1>2, PageInvariant, PTL
=============================================================================
