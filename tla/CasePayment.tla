----------------------------- MODULE CasePayment -----------------------------
(***************************************************************************)
(* A purchase ordered by a recorded call, from the recording to the money  *)
(* the shop gets: the case coordinator (e2e/caseCoordinator.ts), the       *)
(* payment into an escrow (e2e/solanaDevnetEscrowPaymentAdapter.ts with    *)
(* g5/x402EscrowFunding.ts and the server of g4/), the merchant sandbox    *)
(* and the delivery settlement (g6/), over the escrow program of module    *)
(* BenefitEscrow.                                                          *)
(*                                                                         *)
(* A job is a request on its way through confirm, capture and so on, from  *)
(* one await to the next.  Every state change of a case is a transition    *)
(* from the state its job expects, and a job that finds another one, or    *)
(* that the store fails, stops where it is.  A crash ends all jobs; cases, *)
(* files, shop and chain survive it.                                       *)
(*                                                                         *)
(* The commitment of an escrow is a hash of the case and of its consent,   *)
(* of which a case has one: the orders of BenefitEscrow are the cases.     *)
(* A wish stands for goods, quantity and price; what the policy says of it *)
(* and what the interpreter makes of a recording is a free choice.         *)
(***************************************************************************)
EXTENDS BenefitEscrow

CONSTANTS
  Wishes, Jobs,
  Institution, Merchant, Authority,   \* the configured keys
  Amount,                             \* FIXED_SETTLEMENT_BASE_UNITS
  Ttl,                                \* escrowTtlSeconds
  Attempts                            \* paid requests per funding

\* What the payment adapter wants of its configuration, or it is not made.
Configured ==
  /\ {Institution, Merchant, Authority} \subseteq Parties
  /\ Institution # Merchant /\ Institution # Authority /\ Merchant # Authority
  /\ Ttl \in 1 .. MaxDuration
ASSUME ConfigurationAssumption == Configured
ASSUME PaymentAssumption == Amount \in Amounts \ {0} /\ Attempts \in Nat /\ None \notin Wishes

VARIABLES
  cases,    \* the case repository
  jobs,
  wallet,   \* the token account of the swig made for a case's payment
  spent,    \* history: what the institution put into those wallets
  journal,  \* paid journals of the x402 server, on disk
  shop,     \* orders of the merchant sandbox
  dropped   \* history: cases whose purchase has lost the request that drove it

payVars == <<cases, jobs, wallet, spent, journal, shop, dropped>>
vars == <<chainVars, payVars>>

CaseStates ==
  {"CALL_CONNECTED", "AUDIO_CAPTURED", "INTERPRETED", "NEEDS_CLARIFICATION", "POLICY_CHECKING",
   "POLICY_BLOCKED", "AWAITING_CONFIRMATION", "USER_REJECTED", "CONFIRMATION_EXPIRED", "CONFIRMED",
   "PAYMENT_AUTHORIZING", "PAYMENT_REQUIRED", "PAYMENT_FAILED", "PAID", "ORDER_SUBMITTING",
   "ORDER_REVIEW_REQUIRED", "ORDERED"}

\* The case's document, the shop's order, and what a request carries from await to await.
CaseRecord == [state : CaseStates, candidate : Wishes \cup {None}, open : BOOLEAN,
               consent : Wishes \cup {None}, intent : BOOLEAN]
ShopOrder == [wish : Wishes, tracking : {"ORDERED", "PACKED", "SHIPPED", "DELIVERED"},
              received : BOOLEAN]
Steps == {"idle", "capture", "analyze", "unclear", "hear", "interpret", "judge", "policy", "lapse",
          "reject", "consume", "authorize", "require", "open", "fund", "challenge", "pay", "fulfill",
          "check", "fail", "paid", "submitting", "submit", "ordered", "review", "recover"}
\* The steps from the consent to the end of the purchase.
Driving == {"authorize", "require", "open", "fund", "challenge", "pay", "fulfill", "check", "fail",
            "paid", "submitting", "submit", "ordered", "review"}
\* The steps that begin or have begun with a call of the case repository: the next one is made
\* there, or the last one is, and has taken effect, but its answer is awaited.
Stored == Steps \ {"idle", "fund", "challenge", "pay", "fulfill", "check"}
Job == [step : Steps, case : Orders \cup {None}, wish : Wishes \cup {None}, before : Nat, attempt : Nat]
ASSUME RecordAssumption == None \notin CaseRecord \cup ShopOrder

\* open: confirmationExpiresAt lies ahead; consent: what confirmationCommitment is of.
NewCase == [state |-> "CALL_CONNECTED", candidate |-> None, open |-> FALSE, consent |-> None,
            intent |-> FALSE]

NoJob == [step |-> "idle", case |-> None, wish |-> None, before |-> 0, attempt |-> 0]

Init ==
  /\ EscrowInit
  /\ cases = [c \in Orders |-> None]
  /\ jobs = [j \in Jobs |-> NoJob]
  /\ wallet = [c \in Orders |-> 0] /\ spent = [c \in Orders |-> 0]
  /\ journal = [c \in Orders |-> "none"]
  /\ shop = [c \in Orders |-> None]
  /\ dropped = {}

-----------------------------------------------------------------------------
(* Jobs and transitions.                                                   *)

At(j, step) == jobs[j].step = step
State(c) == IF cases[c] = None THEN "none" ELSE cases[c].state

Goto(j, step) == jobs' = [jobs EXCEPT ![j].step = step]
End(j) == jobs' = [jobs EXCEPT ![j] = NoJob]
Take(j, c, step, wish) ==
  /\ At(j, "idle")
  /\ jobs' = [jobs EXCEPT ![j] = [NoJob EXCEPT !.step = step, !.case = c, !.wish = wish]]

OffChain == UNCHANGED chainVars
Repository == UNCHANGED <<chainVars, wallet, spent, journal, shop, dropped>>

\* Mutant: the state is written without looking at the one that is there.
MoveBlindly(j, from, new, step) ==
  LET c == jobs[j].case IN
  /\ cases' = [cases EXCEPT ![c] = new]
  /\ IF step = "idle" THEN End(j) ELSE Goto(j, step)
  /\ Repository

\* repo.transition as the store answers it: to a new value of the case, or the job fails on a
\* conflict.  When the store does not answer, StoreThrows.
Move(j, from, new, step) ==
  LET c == jobs[j].case IN
  /\ IF cases[c].state = from
     THEN cases' = [cases EXCEPT ![c] = new] /\ IF step = "idle" THEN End(j) ELSE Goto(j, step)
     ELSE End(j) /\ UNCHANGED cases
  /\ Repository

\* The purchases that these jobs drive will be driven no further.
Drops(js) ==
  dropped' = dropped \cup {c \in Orders : \E j \in js : jobs[j].case = c /\ jobs[j].step \in Driving}

\* The repository throws: the transaction is rejected, or its answer is lost.  Nothing catches
\* it around a transition, and the request ends.
StoreThrows(j) ==
  /\ jobs[j].step \in Stored
  /\ End(j) /\ Drops({j})
  /\ UNCHANGED <<chainVars, cases, wallet, spent, journal, shop>>

To(j, state) == [cases[jobs[j].case] EXCEPT !.state = state]

-----------------------------------------------------------------------------
(* From the recording to the readback.                                     *)

\* beginCall, alone or at the start of capture.
BeginCall(j, c) ==
  /\ State(c) \in {"none", "CALL_CONNECTED"}
  /\ cases' = IF cases[c] = None THEN [cases EXCEPT ![c] = NewCase] ELSE cases
  /\ \/ Take(j, c, "capture", None)
     \/ cases[c] = None /\ At(j, "idle") /\ UNCHANGED jobs
  /\ Repository

Capture(j) == At(j, "capture") /\ Move(j, "CALL_CONNECTED", To(j, "AUDIO_CAPTURED"), "analyze")

\* What submitInterpretation does first with the case it reads.
Submitted(c) ==
  CASE State(c) = "CALL_CONNECTED" -> "hear" [] State(c) = "AUDIO_CAPTURED" -> "interpret"

AnalyzeAudio(j) ==
  /\ At(j, "analyze")
  /\ \/ Goto(j, "unclear")
     \/ /\ State(jobs[j].case) \in {"CALL_CONNECTED", "AUDIO_CAPTURED"}
        /\ \E w \in Wishes :
             jobs' = [jobs EXCEPT ![j].step = Submitted(jobs[j].case), ![j].wish = w]
     \/ State(jobs[j].case) \notin {"CALL_CONNECTED", "AUDIO_CAPTURED"} /\ End(j)
  /\ UNCHANGED cases /\ Repository

\* /internal/agent/interpretation.
SubmitInterpretation(j, c, w) ==
  /\ State(c) \in {"CALL_CONNECTED", "AUDIO_CAPTURED"}
  /\ Take(j, c, Submitted(c), w)
  /\ UNCHANGED cases /\ Repository

Interpretation(j) ==
  \/ At(j, "unclear") /\ Move(j, "AUDIO_CAPTURED", To(j, "NEEDS_CLARIFICATION"), "idle")
  \/ At(j, "hear") /\ Move(j, "CALL_CONNECTED", To(j, "AUDIO_CAPTURED"), "interpret")
  \/ At(j, "interpret")
     /\ Move(j, "AUDIO_CAPTURED", [To(j, "INTERPRETED") EXCEPT !.candidate = jobs[j].wish], "judge")
  \/ At(j, "judge") /\ Move(j, "INTERPRETED", To(j, "NEEDS_CLARIFICATION"), "idle")
  \/ At(j, "judge") /\ Move(j, "INTERPRETED", To(j, "POLICY_CHECKING"), "policy")
  \/ At(j, "policy") /\ Move(j, "POLICY_CHECKING", To(j, "POLICY_BLOCKED"), "idle")
  \/ At(j, "policy")
     /\ Move(j, "POLICY_CHECKING", [To(j, "AWAITING_CONFIRMATION") EXCEPT !.open = TRUE], "idle")

-----------------------------------------------------------------------------
(* The digit.                                                              *)

Confirm(j, c, digit) ==
  /\ State(c) = "AWAITING_CONFIRMATION"
  /\ Take(j, c, IF ~cases[c].open THEN "lapse"
                ELSE CASE digit = "1" -> "consume" [] digit = "2" -> "reject" [] OTHER -> "lapse",
          cases[c].candidate)
  /\ UNCHANGED cases /\ Repository

Refusal(j) ==
  \/ At(j, "lapse") /\ Move(j, "AWAITING_CONFIRMATION", To(j, "CONFIRMATION_EXPIRED"), "idle")
  \/ At(j, "reject") /\ Move(j, "AWAITING_CONFIRMATION", To(j, "USER_REJECTED"), "idle")

Consumable(c) ==
  cases[c].state = "AWAITING_CONFIRMATION" /\ cases[c].consent = None /\ cases[c].open

ConsumeConfirmation(j) ==
  LET c == jobs[j].case IN
  /\ At(j, "consume")
  /\ IF Consumable(c)
     THEN /\ cases' = [cases EXCEPT ![c].state = "CONFIRMED", ![c].consent = jobs[j].wish]
          /\ Goto(j, "authorize")
     ELSE End(j) /\ UNCHANGED cases
  /\ Repository

ConfirmationLapses(c) ==
  /\ State(c) = "AWAITING_CONFIRMATION" /\ cases[c].open
  /\ cases' = [cases EXCEPT ![c].open = FALSE]
  /\ UNCHANGED jobs /\ Repository

-----------------------------------------------------------------------------
(* The payment.                                                            *)

Authorize(j) ==
  \/ At(j, "authorize") /\ Move(j, "CONFIRMED", To(j, "PAYMENT_AUTHORIZING"), "require")
  \/ At(j, "require") /\ Move(j, "PAYMENT_AUTHORIZING", To(j, "PAYMENT_REQUIRED"), "open")

\* The order of a case with the configured parties, from this second on.
CreateInitializeOrder(c) == InitializeOrder(c, Institution, Merchant, Authority, Amount, now + Ttl)

\* Whatever throws in pay, before or after it took effect, ends in PAYMENT_FAILED.
OpenEscrow(j) ==
  LET c == jobs[j].case IN
  /\ At(j, "open")
  /\ \/ Goto(j, "fail") /\ OffChain
     \/ /\ CreateInitializeOrder(c)
        /\ Goto(j, "fund") \/ Goto(j, "fail")
  /\ UNCHANGED <<cases, wallet, spent, journal, shop, dropped>>

\* The swig wallet gets the amount, and a key that may only send it to the vault.
FundWallet(j) ==
  LET c == jobs[j].case IN
  /\ At(j, "fund")
  /\ \/ Goto(j, "fail") /\ UNCHANGED <<wallet, spent>>
     \/ /\ wallet' = [wallet EXCEPT ![c] = @ + Amount]
        /\ spent' = [spent EXCEPT ![c] = @ + Amount]
        /\ Goto(j, "challenge") \/ Goto(j, "fail")
  /\ OffChain /\ UNCHANGED <<cases, journal, shop, dropped>>

\* The balance of the vault is read; the first request is answered 402 with the terms.
Challenge(j) ==
  /\ At(j, "challenge")
  /\ \/ Goto(j, "fail")
     \/ jobs' = [jobs EXCEPT ![j].step = "pay", ![j].before = vault[jobs[j].case]]
  /\ UNCHANGED cases /\ Repository

\* The next paid request, or the end of the loop.
Again(j) ==
  jobs' = [jobs EXCEPT ![j].attempt = @ + 1,
                       ![j].step = IF jobs[j].attempt + 1 = Attempts THEN "fail" ELSE "pay"]

\* Mutant: a settlement without success is taken for one.
SettleUnchecked(j) ==
  /\ At(j, "pay")
  /\ journal' = [journal EXCEPT ![jobs[j].case] = "PENDING"]
  /\ Goto(j, "fulfill")
  /\ OffChain /\ UNCHANGED <<cases, wallet, spent, shop, dropped>>

\* createPaymentPayload: a payment is only signed while the wallet holds the amount.
Payable(c) == wallet[c] >= Amount

\* verifyAndSettle: the facilitator sends the signed transfer to the vault.
Transfer(c) ==
  /\ Payable(c)
  /\ Deposit(c, Amount)
  /\ wallet' = [wallet EXCEPT ![c] = @ - Amount]

Journal(j) ==
  /\ journal' = [journal EXCEPT ![jobs[j].case] = "PENDING"]
  /\ Goto(j, "fulfill")

\* ServerCore.handle up to the journal: the payment is settled or refused, and the
\* server may not learn that it is settled.
Settle(j) ==
  LET unanswered == (Again(j) \/ Goto(j, "fail")) /\ UNCHANGED journal IN
  /\ At(j, "pay")
  /\ \/ Transfer(jobs[j].case) /\ (Journal(j) \/ unanswered)
     \/ unanswered /\ OffChain /\ UNCHANGED wallet
  /\ UNCHANGED <<cases, spent, shop, dropped>>

\* resumePaid: receipt, intent and fulfilment; the request is answered 200.
Fulfill(j) ==
  /\ At(j, "fulfill")
  /\ journal' = [journal EXCEPT ![jobs[j].case] = "DONE"]
  /\ Goto(j, "check")
  /\ OffChain /\ UNCHANGED <<cases, wallet, spent, shop, dropped>>

\* What came into the vault since the challenge, from anybody.
VaultDelta(j) == vault[jobs[j].case] - jobs[j].before

\* The evidence of execute, above all the delta of the vault; reading it may fail too.
CheckEvidence(j) ==
  /\ At(j, "check")
  /\ \/ VaultDelta(j) = Amount /\ Goto(j, "paid")
     \/ Goto(j, "fail")
  /\ UNCHANGED cases /\ Repository

Paid(j) ==
  \/ At(j, "fail") /\ Move(j, "PAYMENT_REQUIRED", To(j, "PAYMENT_FAILED"), "idle")
  \/ At(j, "paid") /\ Move(j, "PAYMENT_REQUIRED", [To(j, "PAID") EXCEPT !.intent = TRUE], "submitting")
  \/ At(j, "submitting") /\ Move(j, "PAID", To(j, "ORDER_SUBMITTING"), "submit")

-----------------------------------------------------------------------------
(* The order at the shop.                                                  *)

\* The shop's store: an order is created once for a case and a payment, or replayed.
Create(c, wish) ==
  shop' = IF shop[c] # None THEN shop
          ELSE [shop EXCEPT ![c] = [wish |-> wish, tracking |-> "ORDERED", received |-> FALSE]]

\* Mutant: a failure of the shop is not caught.
SubmitUncaught(j) ==
  /\ At(j, "submit")
  /\ \/ Create(jobs[j].case, jobs[j].wish) /\ Goto(j, "ordered")
     \/ End(j) /\ UNCHANGED shop
  /\ OffChain /\ UNCHANGED <<cases, wallet, spent, journal, dropped>>

\* merchant.submit throws: refused, or an answer that is lost or not one of the shop's.
SubmitThrows(j) == Goto(j, "review")

\* merchant.submit, as the shop sees it and as the coordinator does.
SubmitOrder(j) ==
  /\ At(j, "submit")
  /\ \/ /\ Create(jobs[j].case, jobs[j].wish)
        /\ Goto(j, "ordered") \/ SubmitThrows(j)
     \/ SubmitThrows(j) /\ UNCHANGED shop
  /\ OffChain /\ UNCHANGED <<cases, wallet, spent, journal, dropped>>

OrderSubmitted(j) ==
  \/ At(j, "ordered") /\ Move(j, "ORDER_SUBMITTING", To(j, "ORDERED"), "idle")
  \/ At(j, "review") /\ Move(j, "ORDER_SUBMITTING", To(j, "ORDER_REVIEW_REQUIRED"), "idle")

RecoverOrder(j, c) ==
  /\ State(c) = "ORDER_REVIEW_REQUIRED" /\ cases[c].candidate # None /\ cases[c].intent
  /\ Take(j, c, "recover", cases[c].candidate)
  /\ UNCHANGED cases /\ Repository

Recovery(j) ==
  At(j, "recover") /\ Move(j, "ORDER_REVIEW_REQUIRED", To(j, "ORDER_SUBMITTING"), "submit")

AdvanceTracking(c) ==
  /\ shop[c] # None /\ shop[c].tracking # "DELIVERED"
  /\ shop' = [shop EXCEPT ![c].tracking =
       CASE @ = "ORDERED" -> "PACKED" [] @ = "PACKED" -> "SHIPPED" [] @ = "SHIPPED" -> "DELIVERED"]
  /\ OffChain /\ UNCHANGED <<cases, jobs, wallet, spent, journal, dropped>>

-----------------------------------------------------------------------------
(* The delivery, and the money on the chain.                               *)

\* The goods reach the beneficiary.
Receive(c) ==
  /\ shop[c] # None /\ shop[c].tracking = "DELIVERED"
  /\ shop' = [shop EXCEPT ![c].received = TRUE]
  /\ OffChain /\ UNCHANGED <<cases, jobs, wallet, spent, journal, dropped>>

\* Mutant: the receipt of the delivery is enough.
VerifiedByReceipt(c, d, b) == d = c /\ shop[d].tracking = "DELIVERED"

\* verify: delivery receipt d and beneficiary's confirmation b name the order c they are to
\* be of, are true, and are of its goods.
Verified(c, d, b) ==
  /\ d = c /\ b = c
  /\ shop[d].tracking = "DELIVERED" /\ shop[b].received
  /\ shop[d].wish = shop[c].wish

\* The configured parties, whatever they are on the chain.
CreateRelease(e) == Release(e, Authority, Merchant, Institution)

\* verify and createVerifiedReleaseInstruction: the papers have to be of order c; the
\* commitment of the escrow that is released, e, is the caller's.
ReleaseDelivered(c, d, b, e) ==
  /\ \A x \in {c, d, b} : shop[x] # None
  /\ Verified(c, d, b)
  /\ CreateRelease(e)
  /\ UNCHANGED payVars

Refund(c) == RefundTimeout(c, Institution) /\ UNCHANGED payVars

\* Anybody pays into a vault.
Gift(c) == Deposit(c, Amount) /\ UNCHANGED payVars

Time == Tick /\ UNCHANGED payVars

Crash ==
  /\ jobs' = [j \in Jobs |-> NoJob] /\ Drops(Jobs)
  /\ OffChain /\ UNCHANGED <<cases, wallet, spent, journal, shop>>

Work(j) ==
  \/ Capture(j) \/ AnalyzeAudio(j) \/ Interpretation(j)
  \/ Refusal(j) \/ ConsumeConfirmation(j)
  \/ Authorize(j) \/ OpenEscrow(j) \/ FundWallet(j) \/ Challenge(j) \/ Settle(j) \/ Fulfill(j)
  \/ CheckEvidence(j) \/ Paid(j)
  \/ SubmitOrder(j) \/ OrderSubmitted(j) \/ Recovery(j)

Request(j) ==
  \E c \in Orders :
    \/ BeginCall(j, c) \/ RecoverOrder(j, c)
    \/ \E w \in Wishes : SubmitInterpretation(j, c, w)
    \/ \E digit \in {"1", "2", "other"} : Confirm(j, c, digit)

Next ==
  \/ \E j \in Jobs : Work(j) \/ Request(j) \/ StoreThrows(j)
  \/ \E c \in Orders : ConfirmationLapses(c) \/ AdvanceTracking(c) \/ Receive(c) \/ Refund(c) \/ Gift(c)
  \/ \E c, d, b, e \in Orders : ReleaseDelivered(c, d, b, e)
  \/ Time \/ Crash

\* Every await is answered, or throws, in the end; the repository throws by StoreThrows, of
\* which nothing is assumed.
AwaitsEnd == \A j \in Jobs : WF_vars(Work(j))

Spec == Init /\ [][Next]_vars /\ AwaitsEnd

-----------------------------------------------------------------------------
(* Properties.                                                             *)

PayTypeOK ==
  /\ EscrowTypeOK
  /\ cases \in [Orders -> CaseRecord \cup {None}]
  /\ jobs \in [Jobs -> Job]
  /\ wallet \in [Orders -> Nat] /\ spent \in [Orders -> Nat]
  /\ journal \in [Orders -> {"none", "PENDING", "DONE"}]
  /\ shop \in [Orders -> ShopOrder \cup {None}]
  /\ dropped \subseteq Orders

Consented(c) == cases[c] # None /\ cases[c].consent # None

\* Money moves for a consent only and once: whatever digits, recordings and
\* retries overlap and wherever a crash strikes, the institution pays for a case
\* at most the amount, and nothing for one that was refused, blocked or unclear.
PaysOncePerConsent ==
  \A c \in Orders :
    /\ spent[c] <= Amount
    /\ (spent[c] > 0 \/ order[c] # None \/ shop[c] # None) => Consented(c)
    /\ Consented(c) => cases[c].state \in
         {"CONFIRMED", "PAYMENT_AUTHORIZING", "PAYMENT_REQUIRED", "PAYMENT_FAILED", "PAID",
          "ORDER_SUBMITTING", "ORDER_REVIEW_REQUIRED", "ORDERED"}

\* What the shop has to deliver is what was read back and consented to, and the
\* institution's own amount, not a gift, went into the vault of an escrow for this
\* shop.  The case says ORDERED only of such an order.
OrderedIsPaidFor ==
  /\ PayTypeOK
  /\ \A c \in Orders :
       /\ shop[c] # None =>
            /\ Consented(c) /\ shop[c].wish = cases[c].consent
            /\ cases[c].consent = cases[c].candidate
            /\ journal[c] = "DONE" /\ spent[c] = Amount /\ wallet[c] = 0
            /\ order[c] # None /\ order[c].merchant = Merchant /\ order[c].amount = Amount
       /\ State(c) = "ORDERED" => shop[c] # None

\* The shop gets money from an escrow only once the beneficiary has the goods of some
\* purchase, and then the amount of the escrow and before its expiry, of a purchase
\* that was consented to.  It need not be the same purchase: a release is asked for with a
\* commitment and with papers that nothing compares.
ShopPaidOnReceipt ==
  \A e \in Orders :
    received[e][Merchant] > 0 =>
      /\ \E c \in Orders : shop[c] # None /\ shop[c].received
      /\ order[e].state = "Released" /\ order[e].terminalAt < order[e].expiresAt
      /\ received[e][Merchant] = Amount /\ Consented(e)

\* Unless the request that drives it is lost, with the process or on an error of the
\* case repository, a confirmed case is decided: ordered, failed, or put up for review.
\* Every other failure on the way, of the chain, of the x402 server and of the shop,
\* leads to one of these.
ConfirmedIsDecided ==
  \A c \in Orders :
    Consented(c) ~>
      c \in dropped \/ State(c) \in {"PAYMENT_FAILED", "ORDER_REVIEW_REQUIRED", "ORDERED"}

=============================================================================
