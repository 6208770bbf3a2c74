-------------------------- MODULE CasePaymentProofs --------------------------
(***************************************************************************)
(* The escrow program for any orders, parties, amounts and times: its      *)
(* inductive invariant, and that it implements the promise of an escrow.   *)
(* Then the purchase by a recorded call, which pays through that escrow,   *)
(* for any cases, wishes, jobs, parties and amounts: its inductive         *)
(* invariant, and that money moves once, for what was consented to, and to *)
(* the shop for goods that were received.                                  *)
(***************************************************************************)
EXTENDS CasePayment, TLAPS

EscrowInv == EscrowTypeOK /\ Conserved /\ OutcomeByExpiry

(***************************************************************************)
(* One lemma per instruction.                                              *)
(***************************************************************************)
LEMMA InitEstablishes == EscrowInit => EscrowInv
  BY DEF EscrowInit, EscrowInv, EscrowTypeOK, Conserved, OutcomeByExpiry

LEMMA TickPreserves == EscrowInv /\ Tick => EscrowInv'
  BY DEF EscrowInv, EscrowTypeOK, Conserved, OutcomeByExpiry, Tick, Locked, Terminal

LEMMA DepositPreserves ==
  ASSUME EscrowInv, NEW o \in Orders, NEW amount \in 1 .. MaxDeposit, Deposit(o, amount)
  PROVE  EscrowInv'
<1>1. amount \in Nat BY TimeAssumption
<1>2. EscrowTypeOK' BY <1>1 DEF EscrowInv, EscrowTypeOK, Deposit
<1>3. Conserved'
  <2> SUFFICES ASSUME NEW x \in Orders
      PROVE IF order[x] = None
            THEN deposited'[x] = vault'[x] /\ \A p \in Parties : received[x][p] = 0
            ELSE /\ order[x].institution # order[x].merchant
                 /\ deposited'[x] = vault'[x] + received[x][order[x].institution]
                                     + received[x][order[x].merchant]
                 /\ \A p \in Parties \ {order[x].institution, order[x].merchant} :
                      received[x][p] = 0
                 /\ Locked(x) => /\ received[x][order[x].institution] = 0
                                 /\ received[x][order[x].merchant] = 0
    BY DEF Conserved, Deposit, Locked
  <2>1. /\ deposited'[x] = deposited[x] + (IF x = o THEN amount ELSE 0)
        /\ vault'[x] = vault[x] + (IF x = o THEN amount ELSE 0)
        /\ deposited[x] \in Nat /\ vault[x] \in Nat
    BY <1>1 DEF Deposit, EscrowInv, EscrowTypeOK
  <2>2. CASE order[x] = None BY <2>1, <2>2 DEF EscrowInv, Conserved
  <2>3. CASE order[x] # None
    <3>1. order[x].institution \in Parties /\ order[x].merchant \in Parties
      BY <2>3 DEF EscrowInv, EscrowTypeOK, OrderEscrow
    <3>2. received[x][order[x].institution] \in Nat /\ received[x][order[x].merchant] \in Nat
      BY <3>1 DEF EscrowInv, EscrowTypeOK
    <3> QED BY <1>1, <2>1, <2>3, <3>2 DEF EscrowInv, Conserved
  <2> QED BY <2>2, <2>3
<1>4. OutcomeByExpiry' BY DEF EscrowInv, OutcomeByExpiry, Deposit, Locked, Terminal
<1> QED BY <1>2, <1>3, <1>4 DEF EscrowInv

LEMMA InitializePreserves ==
  ASSUME EscrowInv, NEW o \in Orders, NEW i \in Parties, NEW m \in Parties, NEW a \in Parties,
         NEW amount \in Amounts, NEW expiresAt \in Nat,
         InitializeOrder(o, i, m, a, amount, expiresAt)
  PROVE  EscrowInv'
<1> DEFINE new == [institution |-> i, merchant |-> m, authority |-> a, amount |-> amount,
                   expiresAt |-> expiresAt, state |-> "Locked", terminalAt |-> 0]
<1>2. new \in OrderEscrow BY DEF OrderEscrow
<1>3. new # None BY <1>2, NoneAssumption
<1>4. order' = [order EXCEPT ![o] = new] BY DEF InitializeOrder
<1>5. EscrowTypeOK' BY <1>2, <1>4 DEF EscrowInv, EscrowTypeOK, InitializeOrder
<1> HIDE DEF new
<1>6. new.state = "Locked" /\ new.terminalAt = 0 /\ new.institution = i /\ new.merchant = m
  BY DEF new
<1>7. order[o] = None /\ i # m BY DEF InitializeOrder, ValidInitialization
<1>8. Conserved'
  BY <1>3, <1>4, <1>6, <1>7 DEF EscrowInv, EscrowTypeOK, Conserved, InitializeOrder, Locked
<1>9. OutcomeByExpiry'
  BY <1>3, <1>4, <1>6, <1>7
  DEF EscrowInv, EscrowTypeOK, Conserved, OutcomeByExpiry, InitializeOrder, Locked, Terminal
<1> QED BY <1>5, <1>8, <1>9 DEF EscrowInv

\* What a release and a refund have in common.
LEMMA PayOutPreserves ==
  ASSUME EscrowInv, NEW o \in Orders, Locked(o), vault[o] >= order[o].amount,
         NEW state \in {"Released", "Refunded"},
         state = "Released" <=> now < order[o].expiresAt,
         PayOut(o, state, order[o].merchant, order[o].institution)
  PROVE  EscrowInv'
<1> DEFINE m == order[o].merchant
           i == order[o].institution
           old == order[o]
           new == order'[o]
<1>1. old \in OrderEscrow /\ old # None /\ m \in Parties /\ i \in Parties /\ m # i
  BY DEF EscrowInv, EscrowTypeOK, Conserved, Locked, OrderEscrow
<1>2. old.amount \in Nat /\ now \in Nat \ {0} /\ old.expiresAt \in Nat
  BY <1>1, AmountAssumption DEF OrderEscrow, EscrowInv, EscrowTypeOK
<1>3. /\ new = [old EXCEPT !.state = state, !.terminalAt = now]
      /\ \A x \in Orders \ {o} : order'[x] = order[x]
  BY DEF PayOut, EscrowInv, EscrowTypeOK
<1>4. /\ new \in OrderEscrow /\ new # None
      /\ new.merchant = m /\ new.institution = i /\ new.amount = old.amount
      /\ new.expiresAt = old.expiresAt /\ new.state = state /\ new.terminalAt = now
  <2>1. new \in OrderEscrow BY <1>1, <1>2, <1>3 DEF OrderEscrow
  <2>2. /\ new.merchant = m /\ new.institution = i /\ new.amount = old.amount
        /\ new.expiresAt = old.expiresAt /\ new.state = state /\ new.terminalAt = now
    BY <1>1, <1>3 DEF OrderEscrow
  <2> QED BY <2>1, <2>2, NoneAssumption
<1>5. vault[o] \in Nat /\ deposited[o] = vault[o] /\ \A p \in Parties : received[o][p] = 0
  <2>1. vault[o] \in Nat BY DEF EscrowInv, EscrowTypeOK
  <2>2. /\ deposited[o] = vault[o] + received[o][i] + received[o][m]
        /\ received[o][i] = 0 /\ received[o][m] = 0
        /\ \A p \in Parties \ {i, m} : received[o][p] = 0
    BY <1>1 DEF EscrowInv, Conserved
  <2> QED BY <2>1, <2>2
<1>6. /\ received'[o] = [p \in Parties |->
           IF p = m THEN IF state = "Released" THEN old.amount ELSE 0
           ELSE IF p = i THEN vault[o] - (IF state = "Released" THEN old.amount ELSE 0) ELSE 0]
      /\ \A x \in Orders \ {o} : received'[x] = received[x]
      /\ received' \in [Orders -> [Parties -> Nat]]
  BY <1>1, <1>2, <1>5 DEF PayOut, EscrowInv, EscrowTypeOK
<1>7. EscrowTypeOK'
  BY <1>3, <1>4, <1>6 DEF PayOut, EscrowInv, EscrowTypeOK
<1> HIDE DEF m, i, old, new
<1>8. Conserved'
  <2> SUFFICES ASSUME NEW x \in Orders
      PROVE IF order'[x] = None
            THEN deposited'[x] = vault'[x] /\ \A p \in Parties : received'[x][p] = 0
            ELSE /\ order'[x].institution # order'[x].merchant
                 /\ deposited'[x] = vault'[x] + received'[x][order'[x].institution]
                                     + received'[x][order'[x].merchant]
                 /\ \A p \in Parties \ {order'[x].institution, order'[x].merchant} :
                      received'[x][p] = 0
                 /\ Locked(x)' => /\ received'[x][order'[x].institution] = 0
                                  /\ received'[x][order'[x].merchant] = 0
    BY DEF Conserved
  <2>1. CASE x = o
    BY <2>1, <1>1, <1>2, <1>4, <1>5, <1>6 DEF PayOut, Locked, EscrowInv, EscrowTypeOK, new
  <2>2. CASE x # o
    BY <2>2, <1>3, <1>6 DEF PayOut, Locked, EscrowInv, EscrowTypeOK, Conserved
  <2> QED BY <2>1, <2>2
<1>9. OutcomeByExpiry'
  BY <1>1, <1>2, <1>3, <1>4, <1>6
  DEF PayOut, Locked, Terminal, EscrowInv, EscrowTypeOK, OutcomeByExpiry, new, m, old
<1> QED BY <1>7, <1>8, <1>9 DEF EscrowInv

LEMMA ReleasePreserves ==
  ASSUME EscrowInv, NEW o \in Orders, NEW a \in Parties, NEW m \in Parties, NEW i \in Parties,
         Release(o, a, m, i)
  PROVE  EscrowInv'
  BY PayOutPreserves DEF Release, ReleaseAccounts, ValidRelease

LEMMA RefundPreserves ==
  ASSUME EscrowInv, NEW o \in Orders, NEW i \in Parties, RefundTimeout(o, i)
  PROVE  EscrowInv'
<1>1. now \in Nat /\ order[o].expiresAt \in Nat
  BY DEF EscrowInv, EscrowTypeOK, OrderEscrow, RefundTimeout, Locked
<1> QED BY <1>1, PayOutPreserves DEF RefundTimeout, RefundAccounts, ValidRefund

(***************************************************************************)
(* The inductive invariant: accounts are well formed, money is conserved,  *)
(* and the outcome of every order is the one its expiry allows.            *)
(***************************************************************************)
THEOREM EscrowInvariant == EscrowSpec => []EscrowInv
<1>1. EscrowInv /\ [EscrowNext]_chainVars => EscrowInv'
  <2> SUFFICES ASSUME EscrowInv, [EscrowNext]_chainVars PROVE EscrowInv' OBVIOUS
  <2>1. CASE UNCHANGED chainVars
    BY <2>1 DEF chainVars, EscrowInv, EscrowTypeOK, Conserved, OutcomeByExpiry, Locked, Terminal
  <2>2. CASE Tick BY <2>2, TickPreserves
  <2>3. CASE EscrowNext /\ ~Tick
    BY <2>3, DepositPreserves, InitializePreserves, ReleasePreserves, RefundPreserves, TimeAssumption
    DEF EscrowNext
  <2> QED BY <2>1, <2>2, <2>3
<1> QED BY InitEstablishes, <1>1, PTL DEF EscrowSpec

(***************************************************************************)
(* Types: every field of an order account, the vaults and the history keep *)
(* theirs; no vault is ever overdrawn.                                     *)
(***************************************************************************)
THEOREM EscrowTypeCorrect == EscrowSpec => []EscrowTypeOK
  BY EscrowInvariant, PTL DEF EscrowInv

(***************************************************************************)
(* The merchant is paid exactly the amount, and only before the expiry; a  *)
(* refund happens from the expiry on.                                      *)
(***************************************************************************)
THEOREM OutcomesFollowExpiry == EscrowSpec => []OutcomeByExpiry
  BY EscrowInvariant, PTL DEF EscrowInv

(***************************************************************************)
(* The refinement: every instruction is a step of the promise.             *)
(***************************************************************************)
LEMMA InitMaps == EscrowInit => E!Init
  BY DEF EscrowInit, E!Init, Agreed, Settled, Terminal

LEMMA TickMaps == Tick => UNCHANGED E!escrowVars
  BY DEF Tick, E!escrowVars, Agreed, Settled, Terminal

LEMMA DepositMaps ==
  ASSUME EscrowInv, NEW o \in Orders, NEW amount \in 1 .. MaxDeposit, Deposit(o, amount)
  PROVE  E!Next
<1>1. amount \in Nat \ {0} /\ deposited \in [Orders -> Nat]
  BY TimeAssumption DEF EscrowInv, EscrowTypeOK
<1>2. deposited'[o] = deposited[o] + amount /\ deposited[o] \in Nat
  BY <1>1 DEF Deposit
<1>3. deposited'[o] > deposited[o] BY <1>1, <1>2
<1>4. deposited' = [deposited EXCEPT ![o] = deposited'[o]] BY <1>1 DEF Deposit
<1>5. UNCHANGED <<Agreed, received, Settled>> BY DEF Deposit, Agreed, Settled, Terminal
<1> QED BY <1>3, <1>4, <1>5 DEF E!Next, E!Deposit

LEMMA InitializeMaps ==
  ASSUME EscrowInv, NEW o \in Orders, NEW i \in Parties, NEW m \in Parties, NEW a \in Parties,
         NEW amount \in Amounts, NEW expiresAt \in Nat,
         InitializeOrder(o, i, m, a, amount, expiresAt)
  PROVE  E!Next
<1> DEFINE new == [institution |-> i, merchant |-> m, authority |-> a, amount |-> amount,
                   expiresAt |-> expiresAt, state |-> "Locked", terminalAt |-> 0]
           terms == [payer |-> i, payee |-> m, amount |-> amount]
<1>1. new \in OrderEscrow BY DEF OrderEscrow
<1>2. new # None BY <1>1, NoneAssumption
<1>3. /\ order[o] = None /\ i # m
      /\ order \in [Orders -> OrderEscrow \cup {None}]
      /\ order' = [order EXCEPT ![o] = new]
  BY DEF InitializeOrder, ValidInitialization, EscrowInv, EscrowTypeOK
<1>4. order'[o] = new /\ \A x \in Orders \ {o} : order'[x] = order[x] BY <1>3
<1>5. new.institution = i /\ new.merchant = m /\ new.amount = amount /\ new.state = "Locked"
  OBVIOUS
<1> HIDE DEF new
<1>6. Agreed' = [Agreed EXCEPT ![o] = terms]
  BY <1>2, <1>4, <1>5 DEF Agreed
<1>7. Agreed[o] = None /\ Agreed'[o] = terms
  BY <1>2, <1>3, <1>4, <1>5 DEF Agreed
<1>8. UNCHANGED <<deposited, received, Settled>>
  BY <1>3, <1>4, <1>5 DEF InitializeOrder, Settled, Terminal
<1>9. terms # None BY NoneAssumption DEF Agreement
<1> HIDE DEF terms
<1>10. terms.amount = amount BY DEF terms
<1>11. E!Agree(o, i, m, Agreed'[o].amount)
  BY <1>3, <1>6, <1>7, <1>8, <1>10 DEF E!Agree, terms
<1> QED BY <1>7, <1>9, <1>11 DEF E!Next

\* A release settles with the amount, a refund with nothing.
LEMMA PayOutMaps ==
  ASSUME EscrowInv, NEW o \in Orders, Locked(o), vault[o] >= order[o].amount,
         NEW state \in {"Released", "Refunded"},
         PayOut(o, state, order[o].merchant, order[o].institution)
  PROVE  E!Next
<1> DEFINE m == order[o].merchant
           i == order[o].institution
           paid == IF state = "Released" THEN order[o].amount ELSE 0
<1>1. /\ order[o] \in OrderEscrow /\ order[o] # None /\ m \in Parties /\ i \in Parties /\ m # i
      /\ order \in [Orders -> OrderEscrow \cup {None}]
  BY DEF EscrowInv, EscrowTypeOK, Conserved, Locked, OrderEscrow
<1>2. order[o].amount \in Nat BY <1>1, AmountAssumption DEF OrderEscrow
<1>3. vault[o] \in Nat /\ deposited[o] = vault[o] /\ \A p \in Parties : received[o][p] = 0
  <2>1. vault[o] \in Nat BY DEF EscrowInv, EscrowTypeOK
  <2>2. /\ deposited[o] = vault[o] + received[o][i] + received[o][m]
        /\ received[o][i] = 0 /\ received[o][m] = 0
        /\ \A p \in Parties \ {i, m} : received[o][p] = 0
    BY <1>1 DEF EscrowInv, Conserved
  <2> QED BY <2>1, <2>2
<1>4. received \in [Orders -> [Parties -> Nat]] BY DEF EscrowInv, EscrowTypeOK
<1>5. received' = [received EXCEPT ![o] = [p \in Parties |->
         IF p = m THEN received[o][p] + paid
         ELSE IF p = i THEN received[o][p] + (vault[o] - paid) ELSE received[o][p]]]
  BY DEF PayOut
<1> HIDE DEF m, i, paid
<1>6. paid \in Nat BY <1>2 DEF paid
<1>7. [p \in Parties |-> IF p = m THEN received[o][p] + paid
         ELSE IF p = i THEN received[o][p] + (vault[o] - paid) ELSE received[o][p]]
      = [p \in Parties |-> IF p = m THEN paid ELSE IF p = i THEN deposited[o] - paid ELSE 0]
  BY <1>3, <1>6
<1>8. received' = [received EXCEPT ![o] = [p \in Parties |->
         IF p = m THEN paid ELSE IF p = i THEN deposited[o] - paid ELSE 0]]
  BY <1>5, <1>7
<1>9. received'[o][m] = paid BY <1>1, <1>4, <1>8
<1>10. /\ Agreed[o] # None /\ Agreed[o].payer = i /\ Agreed[o].payee = m
       /\ Agreed[o].amount = order[o].amount
  <2>1. Agreed[o] = [payer |-> i, payee |-> m, amount |-> order[o].amount]
    BY <1>1 DEF Agreed, i, m
  <2>2. Agreed[o] \in Agreement BY <2>1, <1>1 DEF Agreement, OrderEscrow
  <2> QED BY <2>1, <2>2, NoneAssumption
<1>11. /\ order'[o] = [order[o] EXCEPT !.state = state, !.terminalAt = now]
       /\ \A x \in Orders \ {o} : order'[x] = order[x]
  BY <1>1 DEF PayOut
<1>12. /\ order'[o] \in OrderEscrow
       /\ order'[o].institution = order[o].institution /\ order'[o].merchant = order[o].merchant
       /\ order'[o].amount = order[o].amount /\ order'[o].state = state
  BY <1>1, <1>11 DEF OrderEscrow, EscrowInv, EscrowTypeOK
<1>13. UNCHANGED Agreed BY <1>1, <1>11, <1>12, NoneAssumption DEF Agreed
<1>14. Settled' = [Settled EXCEPT ![o] = TRUE] /\ ~Settled[o]
  BY <1>1, <1>11, <1>12, NoneAssumption DEF Settled, Terminal, Locked
<1>15. paid \in {0, Agreed[o].amount} /\ deposited[o] >= Agreed[o].amount
  BY <1>3, <1>10 DEF paid
<1>16. UNCHANGED deposited BY DEF PayOut
<1>17. E!Settle(o, received'[o][m])
  BY <1>8, <1>9, <1>10, <1>13, <1>14, <1>15, <1>16 DEF E!Settle
<1> QED BY <1>1, <1>17 DEF E!Next, m

(***************************************************************************)
(* The program implements the promise of an escrow: for any number of      *)
(* orders and whoever sends its instructions, an order is settled once and *)
(* its money goes to its payee and payer alone.                            *)
(***************************************************************************)
THEOREM ImplementsEscrow == EscrowSpec => KeepsPromise
<1>1. EscrowInv /\ [EscrowNext]_chainVars => [E!Next]_(E!escrowVars)
  <2> SUFFICES ASSUME EscrowInv, [EscrowNext]_chainVars PROVE [E!Next]_(E!escrowVars) OBVIOUS
  <2>1. CASE UNCHANGED chainVars
    BY <2>1 DEF chainVars, E!escrowVars, Agreed, Settled, Terminal
  <2>2. CASE Tick BY <2>2, TickMaps
  <2>3. ASSUME NEW o \in Orders, NEW a \in Parties, NEW m \in Parties, NEW i \in Parties,
               Release(o, a, m, i)
        PROVE E!Next
    BY <2>3, PayOutMaps DEF Release, ReleaseAccounts, ValidRelease
  <2>4. ASSUME NEW o \in Orders, NEW i \in Parties, RefundTimeout(o, i) PROVE E!Next
    BY <2>4, PayOutMaps DEF RefundTimeout, RefundAccounts, ValidRefund
  <2>5. CASE EscrowNext /\ ~Tick
    BY <2>3, <2>4, <2>5, DepositMaps, InitializeMaps, TimeAssumption DEF EscrowNext
  <2> QED BY <2>1, <2>2, <2>5
<1> QED BY InitMaps, <1>1, EscrowInvariant, PTL DEF EscrowSpec, KeepsPromise, E!Spec

-----------------------------------------------------------------------------
(***************************************************************************)
(* The purchase.                                                           *)
(***************************************************************************)
\* Before the interpretation, before the consent, after it.
Early == {"CALL_CONNECTED", "AUDIO_CAPTURED"}
Judged == {"INTERPRETED", "POLICY_CHECKING", "AWAITING_CONFIRMATION"}
Decided ==
  {"CONFIRMED", "PAYMENT_AUTHORIZING", "PAYMENT_REQUIRED", "PAYMENT_FAILED", "PAID",
   "ORDER_SUBMITTING", "ORDER_REVIEW_REQUIRED", "ORDERED"}
AfterPayment == {"PAID", "ORDER_SUBMITTING", "ORDER_REVIEW_REQUIRED", "ORDERED"}

\* The state of the case of a job that drives it.
StateAt(step) ==
  IF step = "authorize" THEN "CONFIRMED"
  ELSE IF step = "require" THEN "PAYMENT_AUTHORIZING"
  ELSE IF step = "submitting" THEN "PAID"
  ELSE IF step \in {"submit", "ordered", "review"} THEN "ORDER_SUBMITTING"
  ELSE "PAYMENT_REQUIRED"

PaidUp(c) == journal[c] = "DONE" /\ spent[c] = Amount /\ wallet[c] = 0 /\ order[c] # None

\* The case with its money, its escrow and its order.
CaseOK(c) ==
  /\ Consented(c) => /\ cases[c].consent = cases[c].candidate
                     /\ cases[c].state \in Decided
  /\ cases[c] # None /\ cases[c].state \in Decided => Consented(c)
  /\ cases[c] # None /\ cases[c].state \in Judged => cases[c].candidate # None
  /\ wallet[c] <= spent[c] /\ spent[c] <= Amount
  /\ spent[c] > 0 \/ order[c] # None \/ shop[c] # None => Consented(c)
  /\ order[c] # None => order[c].merchant = Merchant /\ order[c].amount = Amount
  /\ cases[c] # None /\ cases[c].state \in AfterPayment => PaidUp(c)
  /\ cases[c] # None /\ cases[c].state = "ORDERED" => shop[c] # None
  /\ shop[c] # None => cases[c].state \in AfterPayment /\ shop[c].wish = cases[c].consent

\* A release is for goods that a beneficiary has, of whatever order.
GoodsReceived == \E d \in Orders : shop[d] # None /\ shop[d].received
ReleaseOK(c) == order[c] # None /\ order[c].state = "Released" => GoodsReceived

\* What a job knows at its step is so.
JobOK(b) ==
  LET c == b.case
      s == b.step
  IN
    /\ s # "idle" => c \in Orders /\ cases[c] # None
    /\ s \in {"hear", "interpret"} => b.wish # None
    /\ s = "consume" => cases[c].state \notin Early /\ b.wish # None /\ b.wish = cases[c].candidate
    /\ s = "recover" => Consented(c) /\ b.wish = cases[c].consent
    /\ s \in Driving => cases[c].state = StateAt(s) /\ b.wish = cases[c].consent
    /\ s \in {"authorize", "require", "open"} => order[c] = None
    /\ s \in {"authorize", "require", "open", "fund"} => spent[c] = 0
    /\ s \in {"fund", "challenge", "pay", "fulfill", "check", "paid"} => order[c] # None
    /\ s \in {"challenge", "pay", "fulfill", "check", "paid"} => spent[c] = Amount
    /\ s \in {"fulfill", "check", "paid"} => wallet[c] = 0
    /\ s \in {"check", "paid"} => journal[c] = "DONE"
    /\ s = "ordered" => shop[c] # None

JobsOK == \A j \in Jobs, b \in Job : jobs[j] = b => JobOK(b)

\* A case belongs to one job at a time, from the consent to the end.
OneOwner ==
  \A j, k \in Jobs :
    jobs[j].step \in Driving /\ jobs[k].step \in Driving /\ jobs[j].case = jobs[k].case => j = k

PayInv ==
  /\ PayTypeOK /\ EscrowInv
  /\ \A c \in Orders : CaseOK(c) /\ ReleaseOK(c)
  /\ JobsOK
  /\ OneOwner

-----------------------------------------------------------------------------
(* What a step leaves alone.                                               *)

\* A case is not given up, nor its consent or its order, nor what has been received.
Grow(c) ==
  /\ cases[c] # None =>
       /\ cases'[c] # None
       /\ cases[c].state \notin Early =>
            cases'[c].state \notin Early /\ cases'[c].candidate = cases[c].candidate
       /\ cases[c].consent # None => cases'[c].consent = cases[c].consent
  /\ order[c] # None => order'[c] # None
  /\ shop[c] # None => shop'[c] # None /\ (shop[c].received => shop'[c].received)

\* What is released after the step is so for goods received before it.
ReleaseEarned(c) == order'[c] # None /\ order'[c].state = "Released" => GoodsReceived

\* What the owner of a case counts on.
Still(c) ==
  /\ cases'[c].state = cases[c].state
  /\ order[c] = None => order'[c] = None
  /\ spent'[c] = spent[c] /\ wallet'[c] = wallet[c] /\ journal'[c] = journal[c]

Untouched(c) ==
  /\ cases'[c] = cases[c] /\ order'[c] = order[c]
  /\ spent'[c] = spent[c] /\ wallet'[c] = wallet[c] /\ journal'[c] = journal[c]
  /\ shop'[c] = shop[c]

NoOther(j, c) == \A k \in Jobs \ {j} : jobs[k].step \in Driving => jobs[k].case # c

Moved(j, b) ==
  /\ jobs' \in [Jobs -> Job]
  /\ jobs'[j] = b
  /\ \A k \in Jobs \ {j} : jobs'[k] = jobs[k]

LEMMA StepsTyped == Driving \subseteq Steps \ {"idle"} /\ NoJob \in Job /\ NoJob.step = "idle"
BY DEF Driving, Steps, NoJob, Job

LEMMA UntouchedKept ==
  ASSUME PayInv, NEW c \in Orders, Untouched(c)
  PROVE  Grow(c) /\ Still(c) /\ CaseOK(c)' /\ ReleaseEarned(c)
<1>1. Grow(c) /\ Still(c) BY DEF Untouched, Grow, Still
<1>2. CaseOK(c) /\ ReleaseOK(c) BY DEF PayInv
<1>3. CaseOK(c)' BY <1>2 DEF Untouched, CaseOK, Consented, PaidUp
<1>4. ReleaseEarned(c) BY <1>2 DEF Untouched, ReleaseEarned, ReleaseOK
<1> QED BY <1>1, <1>3, <1>4

LEMMA ReleasesKept ==
  ASSUME \A c \in Orders : Grow(c) /\ ReleaseEarned(c)
  PROVE  \A c \in Orders : ReleaseOK(c)'
<1>1. GoodsReceived => GoodsReceived' BY DEF GoodsReceived, Grow
<1> QED BY <1>1 DEF ReleaseEarned, ReleaseOK

LEMMA EscrowKept ==
  ASSUME EscrowInv, UNCHANGED chainVars
  PROVE  EscrowInv'
BY DEF chainVars, EscrowInv, EscrowTypeOK, Conserved, OutcomeByExpiry, Locked, Terminal

LEMMA JobKept ==
  ASSUME PayInv, NEW b \in Job, JobOK(b), b.step # "idle" => Grow(b.case),
         b.step \in Driving => Still(b.case)
  PROVE  JobOK(b)'
<1>1. CASE b.step = "idle"
  BY <1>1, StepsTyped DEF JobOK
<1>2. CASE b.step # "idle"
  <2>1. b.case \in Orders /\ cases[b.case] # None /\ CaseOK(b.case) /\ Grow(b.case)
    BY <1>2 DEF JobOK, PayInv
  <2>2. Consented(b.case) => Consented(b.case)' /\ cases'[b.case].consent = cases[b.case].consent
    BY <2>1 DEF Grow, Consented
  <2>3. b.step \in Driving => Consented(b.case)
    <3>1. \A s \in Driving : StateAt(s) \in Decided BY DEF Driving, StateAt, Decided
    <3> QED BY <2>1, <3>1 DEF JobOK, CaseOK
  <2>4. b.step \in Driving => cases'[b.case].state = StateAt(b.step) /\ b.wish = cases'[b.case].consent
    BY <2>2, <2>3 DEF JobOK, Still
  <2>5. b.step = "consume" => /\ cases'[b.case].state \notin Early
                             /\ b.wish # None /\ b.wish = cases'[b.case].candidate
    BY <2>1 DEF JobOK, Grow
  <2>6. b.step = "recover" => Consented(b.case)' /\ b.wish = cases'[b.case].consent
    BY <2>2 DEF JobOK
  <2>7. cases'[b.case] # None BY <2>1 DEF Grow
  <2>8. b.step = "ordered" => shop'[b.case] # None BY <2>1 DEF JobOK, Grow
  <2>9. /\ b.step \in {"authorize", "require", "open"} => order'[b.case] = None
        /\ b.step \in {"authorize", "require", "open", "fund"} => spent'[b.case] = 0
        /\ b.step \in {"challenge", "pay", "fulfill", "check", "paid"} => spent'[b.case] = Amount
        /\ b.step \in {"fulfill", "check", "paid"} => wallet'[b.case] = 0
        /\ b.step \in {"check", "paid"} => journal'[b.case] = "DONE"
    BY DEF JobOK, Still, Driving
  <2>10. b.step \in {"fund", "challenge", "pay", "fulfill", "check", "paid"} => order'[b.case] # None
    BY <2>1 DEF JobOK, Grow
  <2>11. b.step \in {"hear", "interpret"} => b.wish # None BY DEF JobOK
  <2> QED BY <2>1, <2>4, <2>5, <2>6, <2>7, <2>8, <2>9, <2>10, <2>11 DEF JobOK
<1> QED BY <1>1, <1>2

\* One job moves, and if it touches a case that an owner counts on, it is the owner.
LEMMA JobStep ==
  ASSUME PayInv, PayTypeOK', EscrowInv', NEW j \in Jobs, NEW b \in Job, Moved(j, b), JobOK(b)',
         b.step \in Driving => NoOther(j, b.case),
         \A c \in Orders : /\ Grow(c) /\ CaseOK(c)' /\ ReleaseEarned(c)
                           /\ Still(c) \/ NoOther(j, c)
  PROVE  PayInv'
<1>1. JobsOK'
  <2> SUFFICES ASSUME NEW k \in Jobs, NEW d \in Job, jobs'[k] = d PROVE JobOK(d)'
    BY DEF JobsOK
  <2>1. CASE k = j BY <2>1 DEF Moved
  <2>2. CASE k # j
    <3>1. jobs[k] = d /\ JobOK(d) BY <2>2 DEF Moved, PayInv, JobsOK
    <3>2. d.step # "idle" => d.case \in Orders BY <3>1 DEF JobOK
    <3>3. d.step \in Driving => ~NoOther(j, d.case) BY <2>2, <3>1 DEF NoOther
    <3>4. d.step \in Driving => d.step # "idle" BY StepsTyped
    <3> QED BY <3>1, <3>2, <3>3, <3>4, JobKept
  <2> QED BY <2>1, <2>2
<1>2. OneOwner'
  BY DEF Moved, NoOther, OneOwner, PayInv
<1> QED BY <1>1, <1>2, ReleasesKept DEF PayInv

LEMMA CaseStep ==
  ASSUME PayInv, PayTypeOK', EscrowInv', NEW j \in Jobs, NEW b \in Job, Moved(j, b), JobOK(b)',
         NEW c \in Orders, NoOther(j, c), b.step \in Driving => b.case = c,
         \A d \in Orders \ {c} : Untouched(d),
         Grow(c), CaseOK(c)', ReleaseEarned(c)
  PROVE  PayInv'
<1>1. \A d \in Orders \ {c} : Grow(d) /\ Still(d) /\ CaseOK(d)' /\ ReleaseEarned(d)
  BY UntouchedKept
<1> QED BY <1>1, JobStep

LEMMA JobAlone ==
  ASSUME PayInv, UNCHANGED <<chainVars, cases, wallet, spent, journal, shop>>, dropped' \subseteq Orders,
         NEW j \in Jobs, NEW b \in Job, Moved(j, b), JobOK(b),
         b.step \in Driving => NoOther(j, b.case)
  PROVE  PayInv'
<1>1. PayTypeOK'
  BY DEF PayInv, PayTypeOK, EscrowTypeOK, chainVars, Moved
<1>2. EscrowInv' BY EscrowKept DEF PayInv
<1>3. \A c \in Orders : Untouched(c) BY DEF Untouched, chainVars
<1>4. \A c \in Orders : Grow(c) /\ Still(c) /\ CaseOK(c)' /\ ReleaseEarned(c)
  BY <1>3, UntouchedKept
<1>5. b.step # "idle" => b.case \in Orders BY DEF JobOK
<1>6. b.step \in Driving => b.step # "idle" BY StepsTyped
<1>7. JobOK(b)' BY <1>4, <1>5, <1>6, JobKept
<1> QED BY <1>1, <1>2, <1>4, <1>7, JobStep

LEMMA JobOnly ==
  ASSUME PayInv, Repository, UNCHANGED cases, NEW j \in Jobs, NEW b \in Job, Moved(j, b), JobOK(b),
         b.step \in Driving => NoOther(j, b.case)
  PROVE  PayInv'
<1>1. /\ UNCHANGED <<chainVars, cases, wallet, spent, journal, shop>>
      /\ dropped' \subseteq Orders
  BY DEF Repository, PayInv, PayTypeOK
<1> QED BY <1>1, JobAlone

\* Nobody but a job moves the case of a job.
LEMMA NoJobStep ==
  ASSUME PayInv, PayTypeOK', EscrowInv', UNCHANGED jobs,
         \A c \in Orders : Grow(c) /\ Still(c) /\ CaseOK(c)' /\ ReleaseEarned(c)
  PROVE  PayInv'
<1>1. JobsOK'
  <2> SUFFICES ASSUME NEW k \in Jobs, NEW d \in Job, jobs'[k] = d PROVE JobOK(d)'
    BY DEF JobsOK
  <2>1. JobOK(d) BY DEF PayInv, JobsOK
  <2>2. d.step # "idle" => d.case \in Orders BY <2>1 DEF JobOK
  <2>3. d.step \in Driving => d.step # "idle" BY StepsTyped
  <2> QED BY <2>1, <2>2, <2>3, JobKept
<1>2. OneOwner' BY DEF OneOwner, PayInv
<1> QED BY <1>1, <1>2, ReleasesKept DEF PayInv

-----------------------------------------------------------------------------
(* How jobs move, and who has a case.                                      *)

LEMMA EndMoves ==
  ASSUME PayInv, NEW j \in Jobs, End(j)
  PROVE  Moved(j, NoJob)
BY StepsTyped DEF PayInv, PayTypeOK, End, Moved

LEMMA GotoMoves ==
  ASSUME PayInv, NEW j \in Jobs, NEW a \in Job, jobs[j] = a, NEW s \in Steps, Goto(j, s)
  PROVE  /\ Moved(j, [a EXCEPT !.step = s]) /\ [a EXCEPT !.step = s] \in Job
         /\ [a EXCEPT !.step = s].step = s /\ [a EXCEPT !.step = s].case = a.case
         /\ [a EXCEPT !.step = s].wish = a.wish
BY DEF PayInv, PayTypeOK, Goto, Moved, Job

LEMMA TakeMoves ==
  ASSUME PayInv, NEW j \in Jobs, NEW c \in Orders, NEW s \in Steps, NEW w \in Wishes \cup {None},
         Take(j, c, s, w)
  PROVE  \E b \in Job : Moved(j, b) /\ b.step = s /\ b.case = c /\ b.wish = w
<1> DEFINE b == [NoJob EXCEPT !.step = s, !.case = c, !.wish = w]
<1>1. b \in Job /\ b.step = s /\ b.case = c /\ b.wish = w
  BY DEF NoJob, Job
<1>2. Moved(j, b)
  BY <1>1 DEF Take, Moved, PayInv, PayTypeOK
<1> QED BY <1>1, <1>2

LEMMA AtStep ==
  ASSUME PayInv, NEW j \in Jobs, NEW s \in Steps \ {"idle"}, At(j, s)
  PROVE  \E a \in Job : /\ jobs[j] = a /\ a.step = s /\ JobOK(a)
                        /\ a.case \in Orders /\ cases[a.case] \in CaseRecord
                        /\ cases[a.case] # None /\ CaseOK(a.case) /\ ReleaseOK(a.case)
<1>1. PICK a \in Job : jobs[j] = a BY DEF PayInv, PayTypeOK
<1>2. JobOK(a) /\ a.step = s BY <1>1 DEF PayInv, JobsOK, At
<1>3. a.case \in Orders /\ cases[a.case] # None BY <1>2 DEF JobOK
<1>4. cases[a.case] \in CaseRecord BY <1>3 DEF PayInv, PayTypeOK
<1> QED BY <1>1, <1>2, <1>3, <1>4 DEF PayInv

LEMMA OwnerAlone ==
  ASSUME PayInv, NEW j \in Jobs, NEW a \in Job, jobs[j] = a, a.step \in Driving
  PROVE  NoOther(j, a.case)
BY DEF PayInv, OneOwner, NoOther

Owned == {"CONFIRMED", "PAYMENT_AUTHORIZING", "PAYMENT_REQUIRED", "PAID", "ORDER_SUBMITTING"}

LEMMA FreeCase ==
  ASSUME PayInv, NEW c \in Orders, cases[c] = None \/ cases[c].state \notin Owned
  PROVE  \A j \in Jobs : NoOther(j, c)
<1>1. \A s \in Driving : StateAt(s) \in Owned BY DEF Driving, StateAt, Owned
<1>2. SUFFICES ASSUME NEW k \in Jobs, jobs[k].step \in Driving, jobs[k].case = c PROVE FALSE
  BY DEF NoOther
<1>3. PICK a \in Job : jobs[k] = a BY DEF PayInv, PayTypeOK
<1>4. JobOK(a) /\ a.step \in Driving /\ a.step # "idle" /\ a.case = c
  BY <1>2, <1>3, StepsTyped DEF PayInv, JobsOK
<1> QED BY <1>1, <1>4 DEF JobOK

\* The job only goes on, or ends.
LEMMA GoOn ==
  ASSUME PayInv, NEW j \in Jobs, NEW a \in Job, jobs[j] = a, NEW s \in Steps, Goto(j, s),
         Repository, UNCHANGED cases,
         \A b \in Job : b.step = s /\ b.case = a.case /\ b.wish = a.wish => JobOK(b),
         s \in Driving => a.step \in Driving
  PROVE  PayInv'
<1> DEFINE b == [a EXCEPT !.step = s]
<1>1. Moved(j, b) /\ b \in Job /\ b.step = s /\ b.case = a.case /\ b.wish = a.wish
  BY GotoMoves
<1>2. s \in Driving => NoOther(j, a.case) BY OwnerAlone
<1>3. JobOK(b) BY <1>1
<1> HIDE DEF b
<1> QED BY <1>1, <1>2, <1>3, JobOnly

LEMMA EndStep ==
  ASSUME PayInv, NEW j \in Jobs, End(j), Repository, UNCHANGED cases
  PROVE  PayInv'
<1>1. JobOK(NoJob) BY StepsTyped DEF JobOK, Driving
<1> QED BY <1>1, StepsTyped, EndMoves, JobOnly

\* The repository throws: the request ends, and knows nothing any more.
LEMMA StoreThrowsStep ==
  ASSUME PayInv, NEW j \in Jobs, StoreThrows(j)
  PROVE  PayInv'
<1>1. JobOK(NoJob) BY StepsTyped DEF JobOK, Driving
<1>2. Moved(j, NoJob) BY EndMoves DEF StoreThrows
<1>3. dropped' \subseteq Orders BY DEF StoreThrows, Drops, PayInv, PayTypeOK
<1> QED BY <1>1, <1>2, <1>3, StepsTyped, JobAlone DEF StoreThrows

-----------------------------------------------------------------------------
(* The transitions of a case.                                              *)

\* The new value n of the case fits its money, and the next step its state.
Fits(a, from, n, s) ==
  LET c == a.case IN
    /\ n.consent = cases[c].consent
    /\ from \in Early \/ (n.state \notin Early /\ n.candidate = cases[c].candidate)
    /\ n.state \in Decided <=> from \in Decided
    /\ n.state \in Judged => n.candidate # None
    /\ n.state \in AfterPayment => PaidUp(c)
    /\ from \in AfterPayment => n.state \in AfterPayment
    /\ n.state = "ORDERED" => shop[c] # None
    /\ a.step \in Driving \/ from \notin Owned
    /\ s \in {"idle", "analyze", "interpret", "judge", "policy", "require", "open", "submitting",
             "submit"}
    /\ s = "interpret" => a.step = "hear"
    /\ s \in Driving => n.state = StateAt(s) /\ a.step \in Driving \cup {"recover"}
    /\ s \in {"require", "open"} => a.step \in {"authorize", "require"}

LEMMA MoveStep ==
  ASSUME PayInv, NEW j \in Jobs, NEW a \in Job, jobs[j] = a, JobOK(a), a.step # "idle",
         NEW from, NEW n, NEW s \in Steps, Move(j, from, n, s),
         cases[a.case].state = from => n \in CaseRecord /\ Fits(a, from, n, s)
  PROVE  PayInv'
<1>1. PICK c \in Orders : c = a.case /\ cases[c] # None
  BY DEF JobOK
<1>2. CASE cases[c].state # from
  BY <1>1, <1>2, EndStep DEF Move
<1>3. CASE cases[c].state = from
  <2>1. n \in CaseRecord /\ n # None /\ Fits(a, from, n, s)
    BY <1>1, <1>3, RecordAssumption
  <2>2. cases' = [cases EXCEPT ![c] = n] /\ Repository
    BY <1>1, <1>3 DEF Move
  <2>3. /\ cases'[c] = n /\ \A d \in Orders \ {c} : cases'[d] = cases[d]
        /\ cases' \in [Orders -> CaseRecord \cup {None}]
    BY <2>1, <2>2 DEF PayInv, PayTypeOK
  <2>4. UNCHANGED <<now, order, vault, deposited, received, wallet, spent, journal, shop>>
    BY <2>2 DEF Repository, chainVars
  <2>5. CaseOK(c) /\ ReleaseOK(c) BY DEF PayInv
  <2>6. Grow(c)
    BY <1>1, <1>3, <2>1, <2>3, <2>4 DEF Grow, Fits
  <2>7. CaseOK(c)'
    <3>1. Consented(c)' <=> Consented(c)
      BY <1>1, <2>1, <2>3 DEF Consented, Fits
    <3>2. Consented(c) => n.consent = n.candidate /\ n.state \in Decided
      BY <1>1, <1>3, <2>1, <2>5 DEF CaseOK, Fits, Decided, Early
    <3>3. n.state \in Decided => Consented(c)
      BY <1>1, <1>3, <2>1, <2>5 DEF CaseOK, Fits
    <3>4. n.state \in AfterPayment => PaidUp(c)'
      BY <1>1, <2>1, <2>4 DEF Fits, PaidUp
    <3>5. shop[c] # None => n.state \in AfterPayment /\ shop[c].wish = n.consent
      BY <1>1, <1>3, <2>1, <2>5 DEF CaseOK, Fits
    <3>6. (n.state \in Judged => n.candidate # None) /\ (n.state = "ORDERED" => shop[c] # None)
      BY <1>1, <2>1 DEF Fits
    <3> QED BY <2>1, <2>3, <2>4, <2>5, <3>1, <3>2, <3>3, <3>4, <3>5, <3>6 DEF CaseOK
  <2>8. ReleaseEarned(c) BY <2>4, <2>5 DEF ReleaseEarned, ReleaseOK
  <2>9. NoOther(j, c)
    BY <1>1, <1>3, <2>1, OwnerAlone, FreeCase DEF Fits
  <2>10. PICK b \in Job : /\ Moved(j, b) /\ b.step = s
                          /\ s # "idle" => b.case = c /\ b.wish = a.wish
    <3>1. CASE s = "idle" BY <1>1, <1>3, <3>1, EndMoves, StepsTyped DEF Move
    <3>2. CASE s # "idle"
      <4>1. Goto(j, s) BY <1>1, <1>3, <3>2 DEF Move
      <4> DEFINE b == [a EXCEPT !.step = s]
      <4>2. Moved(j, b) /\ b \in Job /\ b.step = s /\ b.case = a.case /\ b.wish = a.wish
        BY <4>1, GotoMoves
      <4> HIDE DEF b
      <4> QED BY <1>1, <4>2
    <3> QED BY <3>1, <3>2
  <2>11. JobOK(b)'
    <3>1. s \in Driving => b.wish = n.consent
      <4>1. a.step \in Driving \cup {"recover"} => a.wish = cases[c].consent
        BY <1>1 DEF JobOK
      <4>2. s \in Driving => s # "idle" BY StepsTyped
      <4> QED BY <1>1, <2>1, <2>10, <4>1, <4>2 DEF Fits
    <3>2. s \in {"require", "open"} => order'[c] = None /\ spent'[c] = 0
      BY <1>1, <2>1, <2>4 DEF Fits, JobOK
    <3>3. s = "interpret" => b.wish # None
      BY <1>1, <2>1, <2>10 DEF Fits, JobOK
    <3>4. s \in Driving => cases'[c].state = StateAt(s)
      BY <2>1, <2>3 DEF Fits
    <3>5. s \in {"idle", "analyze", "interpret", "judge", "policy", "require", "open", "submitting",
                "submit"}
      BY <2>1 DEF Fits
    <3> QED BY <2>1, <2>3, <2>10, <3>1, <3>2, <3>3, <3>4, <3>5, StepsTyped DEF JobOK
  <2>12. PayTypeOK'
    BY <2>2, <2>3, <2>4, <2>10 DEF Repository, PayInv, PayTypeOK, EscrowTypeOK, Moved
  <2>13. EscrowInv' BY <2>2, EscrowKept DEF Repository, PayInv
  <2>14. \A d \in Orders \ {c} : Untouched(d) BY <2>3, <2>4 DEF Untouched
  <2>15. b.step \in Driving => b.case = c BY <2>10, StepsTyped
  <2> QED BY <2>6, <2>7, <2>8, <2>9, <2>10, <2>11, <2>12, <2>13, <2>14, <2>15, CaseStep
<1> QED BY <1>2, <1>3

\* Only the state changes.
LEMMA ToStep ==
  ASSUME PayInv, NEW j \in Jobs, NEW a \in Job, jobs[j] = a, JobOK(a), a.step # "idle",
         NEW from, NEW state \in CaseStates, NEW s \in Steps, Move(j, from, To(j, state), s),
         from \in Early \/ state \notin Early,
         state \in Decided <=> from \in Decided,
         state \in Judged => from \in Judged,
         state \in AfterPayment <=> from \in AfterPayment,
         state = "ORDERED" => a.step = "ordered",
         a.step \in Driving \/ from \notin Owned,
         s \in {"idle", "analyze", "interpret", "judge", "policy", "require", "open", "submitting",
               "submit"},
         s = "interpret" => a.step = "hear",
         s \in Driving => state = StateAt(s) /\ a.step \in Driving \cup {"recover"},
         s \in {"require", "open"} => a.step \in {"authorize", "require"}
  PROVE  PayInv'
<1>1. PICK r \in CaseRecord : r = cases[a.case] /\ a.case \in Orders /\ cases[a.case] # None
  BY DEF JobOK, PayInv, PayTypeOK
<1> DEFINE n == [r EXCEPT !.state = state]
<1>2. /\ n \in CaseRecord /\ n.state = state /\ n.consent = r.consent
      /\ n.candidate = r.candidate
  BY DEF CaseRecord
<1>3. Move(j, from, n, s)
  BY <1>1 DEF Move, To
<1>4. r.state = from => Fits(a, from, n, s)
  <2>1. CaseOK(a.case) BY <1>1 DEF PayInv
  <2>2. a.step = "ordered" => shop[a.case] # None BY DEF JobOK
  <2> QED BY <1>1, <1>2, <2>1, <2>2 DEF Fits, CaseOK
<1> HIDE DEF n
<1> QED BY <1>1, <1>2, <1>3, <1>4, MoveStep

LEMMA CaptureStep ==
  ASSUME PayInv, NEW j \in Jobs, Capture(j)
  PROVE  PayInv'
<1> USE DEF Steps, CaseStates, Early, Judged, Decided, AfterPayment, Owned, Driving
<1>1. PICK a \in Job : jobs[j] = a /\ a.step = "capture" /\ JobOK(a)
  BY AtStep DEF Capture
<1> QED BY <1>1, ToStep DEF Capture

LEMMA RefusalStep ==
  ASSUME PayInv, NEW j \in Jobs, Refusal(j)
  PROVE  PayInv'
<1> USE DEF Steps, CaseStates, Early, Judged, Decided, AfterPayment, Owned, Driving
<1>1. PICK state \in {"CONFIRMATION_EXPIRED", "USER_REJECTED"}, s \in {"lapse", "reject"} :
        At(j, s) /\ Move(j, "AWAITING_CONFIRMATION", To(j, state), "idle")
  BY DEF Refusal
<1>2. PICK a \in Job : jobs[j] = a /\ a.step = s /\ JobOK(a)
  BY <1>1, AtStep
<1> QED BY <1>1, <1>2, ToStep

LEMMA InterpretStep ==
  ASSUME PayInv, NEW j \in Jobs, At(j, "interpret"),
         Move(j, "AUDIO_CAPTURED", [To(j, "INTERPRETED") EXCEPT !.candidate = jobs[j].wish], "judge")
  PROVE  PayInv'
<1>1. PICK a \in Job : /\ jobs[j] = a /\ a.step = "interpret" /\ JobOK(a)
                       /\ a.case \in Orders /\ cases[a.case] \in CaseRecord
  BY AtStep DEF Steps
<1>2. PICK r \in CaseRecord : r = cases[a.case]
  BY <1>1
<1> DEFINE n == [r EXCEPT !.state = "INTERPRETED", !.candidate = a.wish]
<1>3. /\ n \in CaseRecord /\ n.state = "INTERPRETED" /\ n.consent = r.consent
      /\ n.candidate = a.wish
  BY DEF CaseRecord, CaseStates, Job
<1>4. Move(j, "AUDIO_CAPTURED", n, "judge")
  <2>1. [To(j, "INTERPRETED") EXCEPT !.candidate = jobs[j].wish] = n
    BY <1>1, <1>2 DEF To, CaseRecord
  <2> QED BY <2>1
<1>5. Fits(a, "AUDIO_CAPTURED", n, "judge")
  <2>1. a.wish # None BY <1>1 DEF JobOK
  <2> QED BY <1>2, <1>3, <2>1 DEF Fits, Early, Decided, Judged, AfterPayment, Owned, Driving
<1> HIDE DEF n
<1> QED BY <1>1, <1>3, <1>4, <1>5, MoveStep DEF Steps

LEMMA AllowStep ==
  ASSUME PayInv, NEW j \in Jobs, At(j, "policy"),
         Move(j, "POLICY_CHECKING", [To(j, "AWAITING_CONFIRMATION") EXCEPT !.open = TRUE], "idle")
  PROVE  PayInv'
<1>1. PICK a \in Job : /\ jobs[j] = a /\ a.step = "policy" /\ JobOK(a)
                       /\ a.case \in Orders /\ cases[a.case] \in CaseRecord
                       /\ cases[a.case] # None /\ CaseOK(a.case)
  BY AtStep DEF Steps
<1>2. PICK r \in CaseRecord : r = cases[a.case]
  BY <1>1
<1> DEFINE n == [r EXCEPT !.state = "AWAITING_CONFIRMATION", !.open = TRUE]
<1>3. /\ n \in CaseRecord /\ n.state = "AWAITING_CONFIRMATION" /\ n.consent = r.consent
      /\ n.candidate = r.candidate
  BY DEF CaseRecord, CaseStates
<1>4. Move(j, "POLICY_CHECKING", n, "idle")
  <2>1. [To(j, "AWAITING_CONFIRMATION") EXCEPT !.open = TRUE] = n
    BY <1>1, <1>2 DEF To, CaseRecord
  <2> QED BY <2>1
<1>5. r.state = "POLICY_CHECKING" => Fits(a, "POLICY_CHECKING", n, "idle")
  BY <1>1, <1>2, <1>3 DEF Fits, CaseOK, Early, Decided, Judged, AfterPayment, Owned, Driving
<1> HIDE DEF n
<1> QED BY <1>1, <1>2, <1>3, <1>4, <1>5, MoveStep DEF Steps

LEMMA InterpretationStep ==
  ASSUME PayInv, NEW j \in Jobs, Interpretation(j)
  PROVE  PayInv'
<1> USE DEF Steps, CaseStates, Early, Judged, Decided, AfterPayment, Owned, Driving
<1>1. \A s \in Steps \ {"idle"} : At(j, s) =>
        \E a \in Job : jobs[j] = a /\ a.step = s /\ JobOK(a)
  BY AtStep
<1>2. ASSUME At(j, "unclear"), Move(j, "AUDIO_CAPTURED", To(j, "NEEDS_CLARIFICATION"), "idle")
      PROVE  PayInv'
  BY <1>1, <1>2, ToStep
<1>3. ASSUME At(j, "hear"), Move(j, "CALL_CONNECTED", To(j, "AUDIO_CAPTURED"), "interpret")
      PROVE  PayInv'
  BY <1>1, <1>3, ToStep
<1>4. ASSUME At(j, "judge"), Move(j, "INTERPRETED", To(j, "NEEDS_CLARIFICATION"), "idle")
      PROVE  PayInv'
  BY <1>1, <1>4, ToStep
<1>5. ASSUME At(j, "judge"), Move(j, "INTERPRETED", To(j, "POLICY_CHECKING"), "policy")
      PROVE  PayInv'
  BY <1>1, <1>5, ToStep
<1>6. ASSUME At(j, "policy"), Move(j, "POLICY_CHECKING", To(j, "POLICY_BLOCKED"), "idle")
      PROVE  PayInv'
  BY <1>1, <1>6, ToStep
<1> QED BY <1>2, <1>3, <1>4, <1>5, <1>6, InterpretStep, AllowStep DEF Interpretation

LEMMA PaidStep ==
  ASSUME PayInv, NEW j \in Jobs, At(j, "paid"),
         Move(j, "PAYMENT_REQUIRED", [To(j, "PAID") EXCEPT !.intent = TRUE], "submitting")
  PROVE  PayInv'
<1>1. PICK a \in Job : /\ jobs[j] = a /\ a.step = "paid" /\ JobOK(a)
                       /\ a.case \in Orders /\ cases[a.case] \in CaseRecord
                       /\ cases[a.case] # None /\ CaseOK(a.case)
  BY AtStep DEF Steps
<1>2. PICK r \in CaseRecord : r = cases[a.case]
  BY <1>1
<1> DEFINE n == [r EXCEPT !.state = "PAID", !.intent = TRUE]
<1>3. /\ n \in CaseRecord /\ n.state = "PAID" /\ n.consent = r.consent
      /\ n.candidate = r.candidate
  BY DEF CaseRecord, CaseStates
<1>4. Move(j, "PAYMENT_REQUIRED", n, "submitting")
  <2>1. [To(j, "PAID") EXCEPT !.intent = TRUE] = n
    BY <1>1, <1>2 DEF To, CaseRecord
  <2> QED BY <2>1
<1>5. PaidUp(a.case) BY <1>1 DEF JobOK, PaidUp
<1>6. Fits(a, "PAYMENT_REQUIRED", n, "submitting")
  BY <1>1, <1>2, <1>3, <1>5
  DEF Fits, StateAt, Early, Decided, Judged, AfterPayment, Owned, Driving
<1> HIDE DEF n
<1> QED BY <1>1, <1>3, <1>4, <1>6, MoveStep DEF Steps

LEMMA PaymentStep ==
  ASSUME PayInv, NEW j \in Jobs, Authorize(j) \/ Paid(j)
  PROVE  PayInv'
<1> USE DEF Steps, CaseStates, Early, Judged, Decided, AfterPayment, Owned, Driving, StateAt
<1>1. \A s \in Steps \ {"idle"} : At(j, s) =>
        \E a \in Job : jobs[j] = a /\ a.step = s /\ JobOK(a)
  BY AtStep
<1>2. ASSUME At(j, "authorize"), Move(j, "CONFIRMED", To(j, "PAYMENT_AUTHORIZING"), "require")
      PROVE  PayInv'
  BY <1>1, <1>2, ToStep
<1>3. ASSUME At(j, "require"), Move(j, "PAYMENT_AUTHORIZING", To(j, "PAYMENT_REQUIRED"), "open")
      PROVE  PayInv'
  BY <1>1, <1>3, ToStep
<1>4. ASSUME At(j, "fail"), Move(j, "PAYMENT_REQUIRED", To(j, "PAYMENT_FAILED"), "idle")
      PROVE  PayInv'
  BY <1>1, <1>4, ToStep
<1>5. ASSUME At(j, "submitting"), Move(j, "PAID", To(j, "ORDER_SUBMITTING"), "submit")
      PROVE  PayInv'
  BY <1>1, <1>5, ToStep
<1> QED BY <1>2, <1>3, <1>4, <1>5, PaidStep DEF Authorize, Paid

LEMMA OrderStep ==
  ASSUME PayInv, NEW j \in Jobs, OrderSubmitted(j) \/ Recovery(j)
  PROVE  PayInv'
<1> USE DEF Steps, CaseStates, Early, Judged, Decided, AfterPayment, Owned, Driving, StateAt
<1>1. \A s \in Steps \ {"idle"} : At(j, s) =>
        \E a \in Job : jobs[j] = a /\ a.step = s /\ JobOK(a)
  BY AtStep
<1>2. ASSUME At(j, "ordered"), Move(j, "ORDER_SUBMITTING", To(j, "ORDERED"), "idle")
      PROVE  PayInv'
  BY <1>1, <1>2, ToStep
<1>3. ASSUME At(j, "review"), Move(j, "ORDER_SUBMITTING", To(j, "ORDER_REVIEW_REQUIRED"), "idle")
      PROVE  PayInv'
  BY <1>1, <1>3, ToStep
<1>4. ASSUME At(j, "recover"), Move(j, "ORDER_REVIEW_REQUIRED", To(j, "ORDER_SUBMITTING"), "submit")
      PROVE  PayInv'
  BY <1>1, <1>4, ToStep
<1> QED BY <1>2, <1>3, <1>4 DEF OrderSubmitted, Recovery

-----------------------------------------------------------------------------
(* Requests, and steps of a job that leave the case alone.                 *)

LEMMA NewJob ==
  ASSUME PayInv, NEW j \in Jobs, NEW c \in Orders, NEW s \in Steps, NEW w \in Wishes \cup {None},
         Take(j, c, s, w), Repository, UNCHANGED cases, s \notin Driving,
         \A b \in Job : b.step = s /\ b.case = c /\ b.wish = w => JobOK(b)
  PROVE  PayInv'
<1>1. PICK b \in Job : Moved(j, b) /\ b.step = s /\ b.case = c /\ b.wish = w
  BY TakeMoves
<1> QED BY <1>1, JobOnly

LEMMA RequestStep ==
  ASSUME PayInv, NEW j \in Jobs, NEW c \in Orders,
         \/ RecoverOrder(j, c)
         \/ \E w \in Wishes : SubmitInterpretation(j, c, w)
         \/ \E digit \in {"1", "2", "other"} : Confirm(j, c, digit)
  PROVE  PayInv'
<1>1. cases[c] # None => cases[c] \in CaseRecord /\ CaseOK(c)
  BY DEF PayInv, PayTypeOK
<1>2. CASE RecoverOrder(j, c)
  <2>1. cases[c] # None /\ cases[c].state = "ORDER_REVIEW_REQUIRED"
    BY <1>2 DEF RecoverOrder, State
  <2>2. Consented(c) /\ cases[c].candidate = cases[c].consent
    BY <1>1, <2>1 DEF CaseOK, Decided
  <2>3. \A b \in Job : b.step = "recover" /\ b.case = c /\ b.wish = cases[c].candidate => JobOK(b)
    BY <2>1, <2>2 DEF JobOK, Driving
  <2>4. cases[c].candidate \in Wishes \cup {None} BY <1>1, <2>1 DEF CaseRecord
  <2> QED BY <1>2, <2>3, <2>4, NewJob DEF RecoverOrder, Steps, Driving
<1>3. ASSUME NEW w \in Wishes, SubmitInterpretation(j, c, w) PROVE PayInv'
  <2>1. cases[c] # None /\ Submitted(c) \in {"hear", "interpret"}
    BY <1>3 DEF SubmitInterpretation, Submitted, State
  <2>2. PICK s \in {"hear", "interpret"} : s = Submitted(c) BY <2>1
  <2>3. \A b \in Job : b.step = s /\ b.case = c /\ b.wish = w => JobOK(b)
    BY <2>1, PaymentAssumption DEF JobOK, Driving
  <2> QED BY <1>3, <2>2, <2>3, NewJob DEF SubmitInterpretation, Steps, Driving
<1>4. ASSUME NEW digit \in {"1", "2", "other"}, Confirm(j, c, digit) PROVE PayInv'
  <2>1. cases[c] # None /\ cases[c].state = "AWAITING_CONFIRMATION"
    BY <1>4 DEF Confirm, State
  <2>2. PICK s \in {"lapse", "consume", "reject"} : Take(j, c, s, cases[c].candidate)
    BY <1>4 DEF Confirm
  <2>3. cases[c].candidate \in Wishes \cup {None} /\ cases[c].candidate # None
    BY <1>1, <2>1 DEF CaseRecord, CaseOK, Judged
  <2>4. \A b \in Job : b.step = s /\ b.case = c /\ b.wish = cases[c].candidate => JobOK(b)
    BY <2>1, <2>3 DEF JobOK, Driving, Early
  <2> QED BY <1>4, <2>2, <2>3, <2>4, NewJob DEF Confirm, Steps, Driving
<1> QED BY <1>2, <1>3, <1>4

LEMMA BeginCallStep ==
  ASSUME PayInv, NEW j \in Jobs, NEW c \in Orders, BeginCall(j, c)
  PROVE  PayInv'
<1>1. CASE cases[c] # None
  <2>1. Take(j, c, "capture", None) /\ Repository /\ UNCHANGED cases
    BY <1>1 DEF BeginCall
  <2>2. \A b \in Job : b.step = "capture" /\ b.case = c /\ b.wish = None => JobOK(b)
    BY <1>1 DEF JobOK, Driving
  <2> QED BY <2>1, <2>2, NewJob DEF Steps, Driving
<1>2. CASE cases[c] = None
  <2> DEFINE n == NewCase
  <2>1. n \in CaseRecord /\ n.state = "CALL_CONNECTED" /\ n.consent = None
    BY DEF NewCase, CaseRecord, CaseStates
  <2> HIDE DEF n
  <2>2. n # None BY <2>1, RecordAssumption
  <2>3. cases' = [cases EXCEPT ![c] = n] /\ Repository
    BY <1>2 DEF BeginCall, n
  <2>4. /\ cases'[c] = n /\ \A d \in Orders \ {c} : cases'[d] = cases[d]
        /\ cases' \in [Orders -> CaseRecord \cup {None}]
    BY <2>1, <2>3 DEF PayInv, PayTypeOK
  <2>5. UNCHANGED <<now, order, vault, deposited, received, wallet, spent, journal, shop>>
    BY <2>3 DEF Repository, chainVars
  <2>6. PICK b \in Job : Moved(j, b) /\ (b.step = "idle" \/ (b.step = "capture" /\ b.case = c))
    <3>1. CASE Take(j, c, "capture", None) BY <3>1, TakeMoves DEF Steps
    <3>2. CASE At(j, "idle") /\ UNCHANGED jobs
      BY <3>2 DEF At, Moved, PayInv, PayTypeOK
    <3> QED BY <3>1, <3>2 DEF BeginCall
  <2>7. CaseOK(c) /\ ReleaseOK(c) BY DEF PayInv
  <2>8. Grow(c) BY <1>2, <2>5 DEF Grow
  <2>9. CaseOK(c)'
    <3>1. ~Consented(c) /\ ~Consented(c)' BY <1>2, <2>1, <2>4 DEF Consented
    <3> QED BY <2>1, <2>2, <2>4, <2>5, <2>7, <3>1 DEF CaseOK, Decided, Judged, AfterPayment
  <2>10. ReleaseEarned(c) BY <2>5, <2>7 DEF ReleaseEarned, ReleaseOK
  <2>11. NoOther(j, c) BY <1>2, FreeCase
  <2>12. JobOK(b)' BY <2>2, <2>4, <2>6 DEF JobOK, Driving
  <2>13. PayTypeOK'
    BY <2>3, <2>4, <2>5, <2>6 DEF Repository, PayInv, PayTypeOK, EscrowTypeOK, Moved
  <2>14. EscrowInv' BY <2>3, EscrowKept DEF Repository, PayInv
  <2>15. \A d \in Orders \ {c} : Untouched(d) BY <2>4, <2>5 DEF Untouched
  <2>16. b.step \notin Driving BY <2>6 DEF Driving
  <2> QED BY <2>8, <2>9, <2>10, <2>11, <2>12, <2>13, <2>14, <2>15, <2>16, <2>6, CaseStep
<1> QED BY <1>1, <1>2

LEMMA AnalyzeStep ==
  ASSUME PayInv, NEW j \in Jobs, AnalyzeAudio(j)
  PROVE  PayInv'
<1>1. PICK a \in Job : /\ jobs[j] = a /\ a.step = "analyze" /\ JobOK(a)
                       /\ a.case \in Orders /\ cases[a.case] # None
  BY AtStep DEF AnalyzeAudio, Steps
<1>2. Repository /\ UNCHANGED cases BY DEF AnalyzeAudio
<1>3. CASE Goto(j, "unclear")
  <2>1. \A b \in Job : b.step = "unclear" /\ b.case = a.case /\ b.wish = a.wish => JobOK(b)
    BY <1>1 DEF JobOK, Driving
  <2> QED BY <1>1, <1>2, <1>3, <2>1, GoOn DEF Steps, Driving
<1>4. ASSUME NEW w \in Wishes, State(a.case) \in {"CALL_CONNECTED", "AUDIO_CAPTURED"},
             jobs' = [jobs EXCEPT ![j].step = Submitted(a.case), ![j].wish = w]
      PROVE  PayInv'
  <2>1. PICK s \in {"hear", "interpret"} : s = Submitted(a.case)
    BY <1>4 DEF Submitted
  <2> DEFINE b == [a EXCEPT !.step = s, !.wish = w]
  <2>2. b \in Job /\ b.step = s /\ b.case = a.case /\ b.wish = w BY DEF Job, Steps
  <2>3. Moved(j, b)
    BY <1>1, <1>4, <2>1, <2>2 DEF Moved, PayInv, PayTypeOK
  <2>4. JobOK(b) BY <1>1, <2>2, PaymentAssumption DEF JobOK, Driving
  <2>5. b.step \notin Driving BY <2>2 DEF Driving
  <2> HIDE DEF b
  <2> QED BY <1>2, <2>2, <2>3, <2>4, <2>5, JobOnly
<1>5. CASE End(j) BY <1>2, <1>5, EndStep
<1> QED BY <1>1, <1>3, <1>4, <1>5 DEF AnalyzeAudio

LEMMA ChallengeStep ==
  ASSUME PayInv, NEW j \in Jobs, Challenge(j)
  PROVE  PayInv'
<1>1. PICK a \in Job : /\ jobs[j] = a /\ a.step = "challenge" /\ JobOK(a) /\ a.case \in Orders
  BY AtStep DEF Challenge, Steps
<1>2. Repository /\ UNCHANGED cases BY DEF Challenge
<1>3. CASE Goto(j, "fail")
  <2>1. \A b \in Job : b.step = "fail" /\ b.case = a.case /\ b.wish = a.wish => JobOK(b)
    BY <1>1 DEF JobOK, Driving, StateAt
  <2> QED BY <1>1, <1>2, <1>3, <2>1, GoOn DEF Steps, Driving
<1>4. CASE jobs' = [jobs EXCEPT ![j].step = "pay", ![j].before = vault[jobs[j].case]]
  <2>1. PICK v \in Nat : v = vault[a.case]
    BY <1>1 DEF PayInv, EscrowInv, EscrowTypeOK
  <2> DEFINE b == [a EXCEPT !.step = "pay", !.before = v]
  <2>2. b \in Job /\ b.step = "pay" /\ b.case = a.case /\ b.wish = a.wish
    BY DEF Job, Steps
  <2>3. Moved(j, b)
    BY <1>1, <1>4, <2>1, <2>2 DEF Moved, PayInv, PayTypeOK
  <2>4. JobOK(b) BY <1>1, <2>2 DEF JobOK, Driving, StateAt
  <2>5. NoOther(j, b.case) BY <1>1, <2>2, OwnerAlone DEF Driving
  <2> HIDE DEF b
  <2> QED BY <1>2, <2>2, <2>3, <2>4, <2>5, JobOnly
<1> QED BY <1>3, <1>4 DEF Challenge

LEMMA EvidenceStep ==
  ASSUME PayInv, NEW j \in Jobs, CheckEvidence(j)
  PROVE  PayInv'
<1>1. PICK a \in Job : /\ jobs[j] = a /\ a.step = "check" /\ JobOK(a) /\ a.case \in Orders
  BY AtStep DEF CheckEvidence, Steps
<1>2. Repository /\ UNCHANGED cases BY DEF CheckEvidence
<1>3. PICK s \in {"paid", "fail"} : Goto(j, s) BY DEF CheckEvidence
<1>4. \A b \in Job : b.step = s /\ b.case = a.case /\ b.wish = a.wish => JobOK(b)
  BY <1>1 DEF JobOK, Driving, StateAt
<1> QED BY <1>1, <1>2, <1>3, <1>4, GoOn DEF Steps, Driving

-----------------------------------------------------------------------------
(* The consent, the payment and the order: the owner of a case moves on.   *)

\* The owner goes on to a step that its case is ready for.
LEMMA OwnerStep ==
  ASSUME PayInv, PayTypeOK', EscrowInv', NEW j \in Jobs, NEW a \in Job, jobs[j] = a,
         a.step \in Driving, NEW b \in Job, Moved(j, b), b.case = a.case, JobOK(b)',
         NEW c \in Orders, c = a.case,
         \A d \in Orders \ {c} : Untouched(d), Grow(c), CaseOK(c)', ReleaseEarned(c)
  PROVE  PayInv'
BY OwnerAlone, CaseStep

LEMMA ConsumeStep ==
  ASSUME PayInv, NEW j \in Jobs, ConsumeConfirmation(j)
  PROVE  PayInv'
<1>1. PICK a \in Job : /\ jobs[j] = a /\ a.step = "consume" /\ JobOK(a)
                       /\ a.case \in Orders /\ cases[a.case] \in CaseRecord
                       /\ cases[a.case] # None /\ CaseOK(a.case) /\ ReleaseOK(a.case)
  BY AtStep DEF ConsumeConfirmation, Steps
<1>2. PICK c \in Orders, r \in CaseRecord : c = a.case /\ r = cases[c]
  BY <1>1
<1>3. CASE ~Consumable(c)
  BY <1>1, <1>2, <1>3, EndStep DEF ConsumeConfirmation
<1>4. CASE Consumable(c)
  <2> DEFINE n == [r EXCEPT !.state = "CONFIRMED", !.consent = a.wish]
             b == [a EXCEPT !.step = "authorize"]
  <2>1. /\ n \in CaseRecord /\ n.state = "CONFIRMED" /\ n.consent = a.wish
        /\ n.candidate = r.candidate
    BY DEF CaseRecord, CaseStates, Job
  <2>2. n # None BY <2>1, RecordAssumption
  <2>3. /\ cases'[c] = n /\ \A d \in Orders \ {c} : cases'[d] = cases[d]
        /\ cases' \in [Orders -> CaseRecord \cup {None}] /\ Repository
    BY <1>1, <1>2, <1>4, <2>1 DEF ConsumeConfirmation, PayInv, PayTypeOK
  <2>4. UNCHANGED <<now, order, vault, deposited, received, wallet, spent, journal, shop>>
    BY <2>3 DEF Repository, chainVars
  <2>5. Moved(j, b) /\ b \in Job /\ b.step = "authorize" /\ b.case = c /\ b.wish = a.wish
    <3>1. Goto(j, "authorize") BY <1>1, <1>2, <1>4 DEF ConsumeConfirmation
    <3>2. "authorize" \in Steps BY DEF Steps
    <3> HIDE DEF n
    <3> QED BY <1>1, <1>2, <3>1, <3>2, GotoMoves
  <2> HIDE DEF n, b
  <2>6. a.wish # None /\ a.wish = r.candidate
    BY <1>1, <1>2 DEF JobOK
  <2>7. r.state = "AWAITING_CONFIRMATION" /\ r.consent = None /\ ~Consented(c)
    BY <1>2, <1>4 DEF Consumable, Consented
  <2>8. spent[c] = 0 /\ order[c] = None /\ shop[c] = None
    BY <1>1, <1>2, <2>7 DEF CaseOK, PayInv, PayTypeOK
  <2>9. Grow(c) BY <1>2, <2>1, <2>2, <2>3, <2>4, <2>7 DEF Grow, Early
  <2>10. CaseOK(c)'
    <3>1. Consented(c)' BY <2>1, <2>2, <2>3, <2>6 DEF Consented
    <3> QED BY <1>1, <1>2, <2>1, <2>3, <2>4, <2>6, <2>8, <3>1
            DEF CaseOK, Decided, Judged, AfterPayment
  <2>11. ReleaseEarned(c) BY <2>4, <2>8 DEF ReleaseEarned, ReleaseOK
  <2>12. NoOther(j, c) BY <1>2, <2>7, FreeCase DEF Owned
  <2>13. JobOK(b)' BY <2>1, <2>2, <2>3, <2>4, <2>5, <2>8 DEF JobOK, StateAt
  <2>14. PayTypeOK' BY <2>3, <2>4, <2>5 DEF Repository, PayInv, PayTypeOK, EscrowTypeOK, Moved
  <2>15. EscrowInv' BY <2>3, EscrowKept DEF Repository, PayInv
  <2>16. \A d \in Orders \ {c} : Untouched(d) BY <2>3, <2>4 DEF Untouched
  <2> QED BY <2>5, <2>9, <2>10, <2>11, <2>12, <2>13, <2>14, <2>15, <2>16, CaseStep
<1> QED BY <1>3, <1>4

LEMMA OpenStep ==
  ASSUME PayInv, NEW j \in Jobs, OpenEscrow(j)
  PROVE  PayInv'
<1>1. PICK a \in Job : /\ jobs[j] = a /\ a.step = "open" /\ JobOK(a)
                       /\ a.case \in Orders /\ cases[a.case] \in CaseRecord
                       /\ cases[a.case] # None /\ CaseOK(a.case) /\ ReleaseOK(a.case)
  BY AtStep DEF OpenEscrow, Steps
<1>2. UNCHANGED <<cases, wallet, spent, journal, shop, dropped>> BY DEF OpenEscrow
<1>3. CASE Goto(j, "fail") /\ OffChain
  <2>1. \A b \in Job : b.step = "fail" /\ b.case = a.case /\ b.wish = a.wish => JobOK(b)
    BY <1>1 DEF JobOK, Driving, StateAt
  <2>2. Repository BY <1>2, <1>3 DEF Repository, OffChain
  <2> QED BY <1>1, <1>2, <1>3, <2>1, <2>2, GoOn DEF Steps, Driving
<1>4. ASSUME CreateInitializeOrder(a.case), NEW s \in {"fund", "fail"}, Goto(j, s)
      PROVE  PayInv'
  <2>1. PICK c \in Orders : c = a.case BY <1>1
  <2>2. PICK e \in Nat : e = now + Ttl
    BY ConfigurationAssumption DEF PayInv, EscrowInv, EscrowTypeOK, Configured
  <2>3. {Institution, Merchant, Authority} \subseteq Parties /\ Amount \in Amounts
    BY ConfigurationAssumption, PaymentAssumption DEF Configured
  <2>4. InitializeOrder(c, Institution, Merchant, Authority, Amount, e)
    BY <1>4, <2>1, <2>2 DEF CreateInitializeOrder
  <2>5. EscrowInv' BY <2>3, <2>4, InitializePreserves DEF PayInv
  <2> DEFINE new == [institution |-> Institution, merchant |-> Merchant, authority |-> Authority,
                     amount |-> Amount, expiresAt |-> e, state |-> "Locked", terminalAt |-> 0]
             b == [a EXCEPT !.step = s]
  <2>6. /\ new \in OrderEscrow /\ new.merchant = Merchant /\ new.amount = Amount
        /\ new.state = "Locked"
    BY <2>3 DEF OrderEscrow
  <2>7. order' = [order EXCEPT ![c] = new] BY <2>4 DEF InitializeOrder
  <2>8. Moved(j, b) /\ b \in Job /\ b.step = s /\ b.case = c /\ b.wish = a.wish
    <3>1. s \in Steps BY DEF Steps
    <3> HIDE DEF new
    <3> QED BY <1>1, <1>4, <2>1, <3>1, GotoMoves
  <2> HIDE DEF new, b
  <2>9. new # None BY <2>6, NoneAssumption
  <2>10. order'[c] = new /\ \A d \in Orders \ {c} : order'[d] = order[d]
    BY <2>7 DEF PayInv, EscrowInv, EscrowTypeOK
  <2>11. /\ cases[c].state = "PAYMENT_REQUIRED" /\ cases[c].consent = a.wish /\ order[c] = None
         /\ spent[c] = 0
    BY <1>1, <2>1 DEF JobOK, Driving, StateAt
  <2>12. Consented(c) /\ CaseOK(c)
    BY <1>1, <2>1, <2>11 DEF CaseOK, Decided
  <2>13. Grow(c) BY <1>2, <2>9, <2>10 DEF Grow
  <2>14. CaseOK(c)'
    <3>1. Consented(c)' BY <1>2, <2>12 DEF Consented
    <3> QED BY <1>2, <2>6, <2>10, <2>11, <2>12, <3>1 DEF CaseOK, AfterPayment
  <2>15. ReleaseEarned(c) BY <2>6, <2>10 DEF ReleaseEarned, ReleaseOK
  <2>16. JobOK(b)' BY <1>1, <1>2, <2>1, <2>8, <2>9, <2>10, <2>11 DEF JobOK, StateAt
  <2>17. PayTypeOK' BY <1>2, <2>5, <2>8 DEF PayInv, PayTypeOK, EscrowInv, Moved
  <2>18. \A d \in Orders \ {c} : Untouched(d) BY <1>2, <2>10 DEF Untouched
  <2>19. a.step \in Driving BY <1>1 DEF Driving
  <2> QED BY <1>1, <2>1, <2>5, <2>8, <2>13, <2>14, <2>15, <2>16, <2>17, <2>18, <2>19, OwnerStep
<1> QED BY <1>1, <1>3, <1>4 DEF OpenEscrow

\* A step of the payment: no case, order or shop's order changes.
LEMMA MoneyStep ==
  ASSUME PayInv, EscrowInv', NEW j \in Jobs, NEW a \in Job, jobs[j] = a, a.step \in Driving,
         JobOK(a), NEW b \in Job, Moved(j, b), b.case = a.case, b.wish = a.wish,
         NEW c \in Orders, c = a.case, JobOK(b)',
         UNCHANGED <<cases, order, shop, dropped>>, cases[c].state = "PAYMENT_REQUIRED",
         \A d \in Orders \ {c} :
           spent'[d] = spent[d] /\ wallet'[d] = wallet[d] /\ journal'[d] = journal[d],
         wallet' \in [Orders -> Nat], spent' \in [Orders -> Nat],
         journal' \in [Orders -> {"none", "PENDING", "DONE"}],
         wallet'[c] <= spent'[c], spent'[c] <= Amount
  PROVE  PayInv'
<1>1. cases[c] # None /\ Consented(c) /\ CaseOK(c) /\ ReleaseOK(c)
  BY StepsTyped DEF JobOK, PayInv, CaseOK, Decided
<1>2. Grow(c) BY DEF Grow
<1>3. CaseOK(c)'
  <2>1. Consented(c)' BY <1>1 DEF Consented
  <2> QED BY <1>1, <2>1 DEF CaseOK, AfterPayment, Judged, Decided
<1>4. ReleaseEarned(c) BY <1>1 DEF ReleaseEarned, ReleaseOK
<1>5. PayTypeOK' BY DEF PayInv, PayTypeOK, EscrowInv, Moved
<1>6. \A d \in Orders \ {c} : Untouched(d) BY DEF Untouched
<1> QED BY <1>2, <1>3, <1>4, <1>5, <1>6, OwnerStep

\* What a job of the payment knows of its case.
LEMMA InPayment ==
  ASSUME PayInv, NEW a \in Job, JobOK(a), a.case \in Orders,
         a.step \in {"fund", "challenge", "pay", "fulfill", "check"}
  PROVE  /\ cases[a.case].state = "PAYMENT_REQUIRED" /\ order[a.case] # None
         /\ cases[a.case] # None /\ a.wish = cases[a.case].consent
         /\ wallet[a.case] \in Nat /\ spent[a.case] \in Nat
         /\ wallet[a.case] <= spent[a.case] /\ spent[a.case] <= Amount /\ Amount \in Nat
<1>1. Amount \in Nat BY PaymentAssumption, AmountAssumption
<1> QED BY <1>1 DEF JobOK, Driving, StateAt, PayInv, PayTypeOK, CaseOK

LEMMA FundStep ==
  ASSUME PayInv, NEW j \in Jobs, FundWallet(j)
  PROVE  PayInv'
<1>1. PICK a \in Job : /\ jobs[j] = a /\ a.step = "fund" /\ JobOK(a) /\ a.case \in Orders
  BY AtStep DEF FundWallet, Steps
<1>2. PICK c \in Orders : c = a.case BY <1>1
<1>3. UNCHANGED <<cases, journal, shop, dropped>> /\ UNCHANGED chainVars
  BY DEF FundWallet, OffChain
<1>4. CASE Goto(j, "fail") /\ UNCHANGED <<wallet, spent>>
  <2>1. \A b \in Job : b.step = "fail" /\ b.case = a.case /\ b.wish = a.wish => JobOK(b)
    BY <1>1 DEF JobOK, Driving, StateAt
  <2>2. Repository BY <1>3, <1>4 DEF Repository
  <2> QED BY <1>1, <1>3, <1>4, <2>1, <2>2, GoOn DEF Steps, Driving
<1>5. ASSUME wallet' = [wallet EXCEPT ![c] = @ + Amount], spent' = [spent EXCEPT ![c] = @ + Amount],
             NEW s \in {"challenge", "fail"}, Goto(j, s)
      PROVE  PayInv'
  <2>1. /\ cases[c].state = "PAYMENT_REQUIRED" /\ order[c] # None /\ cases[c] # None
        /\ a.wish = cases[c].consent /\ Amount \in Nat
        /\ wallet[c] = 0 /\ spent[c] = 0
    BY <1>1, <1>2, InPayment DEF JobOK
  <2> DEFINE b == [a EXCEPT !.step = s]
  <2>2. Moved(j, b) /\ b \in Job /\ b.step = s /\ b.case = c /\ b.wish = a.wish
    <3>1. s \in Steps BY DEF Steps
    <3> QED BY <1>1, <1>2, <1>5, <3>1, GotoMoves
  <2> HIDE DEF b
  <2>3. /\ wallet'[c] = Amount /\ spent'[c] = Amount
        /\ wallet' \in [Orders -> Nat] /\ spent' \in [Orders -> Nat]
        /\ \A d \in Orders \ {c} : wallet'[d] = wallet[d] /\ spent'[d] = spent[d]
    BY <1>5, <2>1 DEF PayInv, PayTypeOK
  <2>4. UNCHANGED order BY <1>3 DEF chainVars
  <2>5. JobOK(b)' BY <1>3, <2>1, <2>2, <2>3, <2>4 DEF JobOK, StateAt
  <2>6. EscrowInv' BY <1>3, EscrowKept DEF PayInv
  <2>7. journal' \in [Orders -> {"none", "PENDING", "DONE"}] BY <1>3 DEF PayInv, PayTypeOK
  <2>8. a.step \in Driving BY <1>1 DEF Driving
  <2>9. wallet'[c] <= spent'[c] /\ spent'[c] <= Amount BY <2>1, <2>3
  <2> QED BY <1>1, <1>2, <1>3, <2>1, <2>2, <2>3, <2>4, <2>5, <2>6, <2>7, <2>8, <2>9, MoneyStep
<1> QED BY <1>1, <1>2, <1>4, <1>5 DEF FundWallet

LEMMA FulfillStep ==
  ASSUME PayInv, NEW j \in Jobs, Fulfill(j)
  PROVE  PayInv'
<1>1. PICK a \in Job : /\ jobs[j] = a /\ a.step = "fulfill" /\ JobOK(a) /\ a.case \in Orders
  BY AtStep DEF Fulfill, Steps
<1>2. PICK c \in Orders : c = a.case BY <1>1
<1>3. UNCHANGED <<cases, wallet, spent, shop, dropped>> /\ UNCHANGED chainVars
  BY DEF Fulfill, OffChain
<1>4. /\ cases[c].state = "PAYMENT_REQUIRED" /\ order[c] # None /\ cases[c] # None
      /\ a.wish = cases[c].consent /\ wallet[c] = 0 /\ spent[c] = Amount /\ Amount \in Nat
  BY <1>1, <1>2, InPayment DEF JobOK
<1> DEFINE b == [a EXCEPT !.step = "check"]
<1>5. Moved(j, b) /\ b \in Job /\ b.step = "check" /\ b.case = c /\ b.wish = a.wish
  <2>1. "check" \in Steps BY DEF Steps
  <2> QED BY <1>1, <1>2, <2>1, GotoMoves DEF Fulfill
<1> HIDE DEF b
<1>6. /\ journal'[c] = "DONE" /\ journal' \in [Orders -> {"none", "PENDING", "DONE"}]
      /\ \A d \in Orders \ {c} : journal'[d] = journal[d]
  BY <1>1, <1>2 DEF Fulfill, PayInv, PayTypeOK
<1>7. UNCHANGED order BY <1>3 DEF chainVars
<1>8. JobOK(b)' BY <1>3, <1>4, <1>5, <1>6, <1>7 DEF JobOK, StateAt
<1>9. EscrowInv' BY <1>3, EscrowKept DEF PayInv
<1>10. wallet' \in [Orders -> Nat] /\ spent' \in [Orders -> Nat] BY <1>3 DEF PayInv, PayTypeOK
<1>11. a.step \in Driving BY <1>1 DEF Driving
<1>12. wallet'[c] <= spent'[c] /\ spent'[c] <= Amount BY <1>3, <1>4
<1> QED BY <1>1, <1>2, <1>3, <1>4, <1>5, <1>6, <1>7, <1>8, <1>9, <1>10, <1>11, <1>12, MoneyStep

LEMMA SettleStep ==
  ASSUME PayInv, NEW j \in Jobs, Settle(j)
  PROVE  PayInv'
<1>1. PICK a \in Job : /\ jobs[j] = a /\ a.step = "pay" /\ JobOK(a) /\ a.case \in Orders
  BY AtStep DEF Settle, Steps
<1>2. PICK c \in Orders : c = a.case BY <1>1
<1>3. UNCHANGED <<cases, spent, shop, dropped>> BY DEF Settle
<1>4. /\ cases[c].state = "PAYMENT_REQUIRED" /\ order[c] # None /\ cases[c] # None
      /\ a.wish = cases[c].consent /\ spent[c] = Amount /\ Amount \in Nat
      /\ wallet[c] \in Nat /\ wallet[c] <= Amount
  BY <1>1, <1>2, InPayment DEF JobOK
<1>5. a.step \in Driving BY <1>1 DEF Driving
<1>6. PICK b \in Job : /\ Moved(j, b) /\ b.case = c /\ b.wish = a.wish
                       /\ b.step \in {"pay", "fail", "fulfill"}
                       /\ b.step = "fulfill" => Transfer(c) /\ Journal(j)
                       /\ b.step # "fulfill" => UNCHANGED journal
  <2>1. CASE Transfer(c) /\ Journal(j)
    <3>1. Goto(j, "fulfill") BY <2>1 DEF Journal
    <3>2. "fulfill" \in Steps BY DEF Steps
    <3> DEFINE b == [a EXCEPT !.step = "fulfill"]
    <3>3. Moved(j, b) /\ b \in Job /\ b.step = "fulfill" /\ b.case = c /\ b.wish = a.wish
      BY <1>1, <1>2, <3>1, <3>2, GotoMoves
    <3> HIDE DEF b
    <3> QED BY <2>1, <3>3
  <2>2. CASE Goto(j, "fail") /\ UNCHANGED journal
    <3>1. "fail" \in Steps BY DEF Steps
    <3> DEFINE b == [a EXCEPT !.step = "fail"]
    <3>2. Moved(j, b) /\ b \in Job /\ b.step = "fail" /\ b.case = c /\ b.wish = a.wish
      BY <1>1, <1>2, <2>2, <3>1, GotoMoves
    <3> HIDE DEF b
    <3> QED BY <2>2, <3>2
  <2>3. CASE Again(j) /\ UNCHANGED journal
    <3>1. PICK s \in {"fail", "pay"} :
            jobs' = [jobs EXCEPT ![j].attempt = @ + 1, ![j].step = s]
      BY <2>3 DEF Again
    <3>2. PICK n \in Nat : n = a.attempt + 1 BY DEF Job
    <3> DEFINE b == [a EXCEPT !.attempt = n, !.step = s]
    <3>3. b \in Job /\ b.step = s /\ b.case = c /\ b.wish = a.wish
      BY <1>2 DEF Job, Steps
    <3>4. Moved(j, b)
      BY <1>1, <3>1, <3>2, <3>3 DEF Moved, PayInv, PayTypeOK
    <3> HIDE DEF b
    <3> QED BY <2>3, <3>3, <3>4
  <2> QED BY <1>1, <1>2, <2>1, <2>2, <2>3 DEF Settle
<1>7. CASE Transfer(c)
  <2>1. wallet[c] = Amount /\ wallet' = [wallet EXCEPT ![c] = @ - Amount] /\ Deposit(c, Amount)
    BY <1>4, <1>7 DEF Transfer, Payable
  <2>2. /\ wallet'[c] = 0 /\ wallet' \in [Orders -> Nat]
        /\ \A d \in Orders \ {c} : wallet'[d] = wallet[d]
    BY <1>4, <2>1 DEF PayInv, PayTypeOK
  <2>3. Amount \in 1 .. MaxDeposit
    BY <1>4, <2>1, PaymentAssumption, TimeAssumption
    DEF Deposit, PayInv, EscrowInv, EscrowTypeOK
  <2>4. EscrowInv' BY <2>1, <2>3, DepositPreserves DEF PayInv
  <2>5. UNCHANGED order BY <2>1 DEF Deposit
  <2>6. /\ journal' \in [Orders -> {"none", "PENDING", "DONE"}]
        /\ \A d \in Orders \ {c} : journal'[d] = journal[d]
    BY <1>1, <1>2, <1>6 DEF Journal, PayInv, PayTypeOK
  <2>7. JobOK(b)' BY <1>3, <1>4, <1>6, <2>2, <2>5 DEF JobOK, StateAt
  <2>8. spent' \in [Orders -> Nat] BY <1>3 DEF PayInv, PayTypeOK
  <2>9. wallet'[c] <= spent'[c] /\ spent'[c] <= Amount BY <1>3, <1>4, <2>2
  <2> QED BY <1>1, <1>2, <1>3, <1>4, <1>5, <1>6, <2>2, <2>4, <2>5, <2>6, <2>7, <2>8, <2>9, MoneyStep
<1>8. CASE ~Transfer(c)
  <2>1. OffChain /\ UNCHANGED wallet /\ UNCHANGED journal
    BY <1>1, <1>2, <1>6, <1>8 DEF Settle
  <2>2. Repository /\ UNCHANGED cases BY <1>3, <2>1 DEF Repository, OffChain
  <2>3. JobOK(b) BY <1>4, <1>6, <1>8 DEF JobOK, StateAt
  <2>4. NoOther(j, b.case) BY <1>1, <1>2, <1>5, <1>6, OwnerAlone
  <2> QED BY <1>6, <2>2, <2>3, <2>4, JobOnly
<1> QED BY <1>7, <1>8

LEMMA SubmitStep ==
  ASSUME PayInv, NEW j \in Jobs, SubmitOrder(j)
  PROVE  PayInv'
<1>1. PICK a \in Job : /\ jobs[j] = a /\ a.step = "submit" /\ JobOK(a) /\ a.case \in Orders
                       /\ cases[a.case] \in CaseRecord
                       /\ cases[a.case] # None /\ CaseOK(a.case) /\ ReleaseOK(a.case)
  BY AtStep DEF SubmitOrder, Steps
<1>2. PICK c \in Orders : c = a.case BY <1>1
<1>3. UNCHANGED <<cases, wallet, spent, journal, dropped>> /\ UNCHANGED chainVars
  BY DEF SubmitOrder, OffChain
<1>4. UNCHANGED order BY <1>3 DEF chainVars
<1>5. /\ cases[c].state = "ORDER_SUBMITTING" /\ a.wish = cases[c].consent
      /\ Consented(c) /\ a.wish \in Wishes
  BY <1>1, <1>2 DEF JobOK, Driving, StateAt, CaseOK, Decided, Consented, CaseRecord
<1>6. PICK s \in {"ordered", "review"} :
        Goto(j, s) /\ (Create(c, a.wish) \/ (s = "review" /\ UNCHANGED shop))
  BY <1>1, <1>2 DEF SubmitOrder, SubmitThrows
<1> DEFINE b == [a EXCEPT !.step = s]
<1>7. Moved(j, b) /\ b \in Job /\ b.step = s /\ b.case = c /\ b.wish = a.wish
  <2>1. s \in Steps BY DEF Steps
  <2> QED BY <1>1, <1>2, <1>6, <2>1, GotoMoves
<1> HIDE DEF b
<1> DEFINE new == [wish |-> a.wish, tracking |-> "ORDERED", received |-> FALSE]
<1>8. new \in ShopOrder /\ new.wish = a.wish BY <1>5 DEF ShopOrder
<1>9. new # None BY <1>8, RecordAssumption
<1> HIDE DEF new
<1>10. /\ shop' \in [Orders -> ShopOrder \cup {None}]
       /\ \A d \in Orders \ {c} : shop'[d] = shop[d]
       /\ shop[c] # None => shop'[c] = shop[c]
       /\ shop[c] = None => shop'[c] = None \/ shop'[c].wish = a.wish
       /\ s = "ordered" => shop'[c] # None
  <2>1. CASE shop[c] # None
    BY <1>6, <2>1 DEF Create, PayInv, PayTypeOK
  <2>2. CASE shop[c] = None
    <3>1. shop' = [shop EXCEPT ![c] = new] \/ (s = "review" /\ UNCHANGED shop)
      BY <1>6, <2>2 DEF Create, new
    <3> QED BY <1>8, <1>9, <2>2, <3>1 DEF PayInv, PayTypeOK
  <2> QED BY <2>1, <2>2
<1>11. Grow(c) BY <1>3, <1>4, <1>10 DEF Grow
<1>12. CaseOK(c)'
  <2>1. Consented(c)' BY <1>3, <1>5 DEF Consented
  <2>2. PaidUp(c) /\ PaidUp(c)'
    BY <1>1, <1>2, <1>3, <1>4, <1>5 DEF CaseOK, PaidUp, AfterPayment
  <2>3. shop'[c] # None => shop'[c].wish = cases[c].consent
    BY <1>1, <1>2, <1>5, <1>10 DEF CaseOK
  <2> QED BY <1>1, <1>2, <1>3, <1>4, <1>5, <2>1, <2>2, <2>3 DEF CaseOK, AfterPayment
<1>13. ReleaseEarned(c) BY <1>1, <1>2, <1>4, <1>10 DEF ReleaseEarned, ReleaseOK
<1>14. JobOK(b)' BY <1>1, <1>2, <1>3, <1>5, <1>7, <1>10 DEF JobOK, StateAt
<1>15. EscrowInv' BY <1>3, EscrowKept DEF PayInv
<1>16. PayTypeOK' BY <1>3, <1>7, <1>10, <1>15 DEF PayInv, PayTypeOK, EscrowInv, Moved
<1>17. \A d \in Orders \ {c} : Untouched(d) BY <1>3, <1>4, <1>10 DEF Untouched
<1>18. a.step \in Driving BY <1>1 DEF Driving
<1> QED BY <1>1, <1>2, <1>7, <1>11, <1>12, <1>13, <1>14, <1>15, <1>16, <1>17, <1>18, OwnerStep

-----------------------------------------------------------------------------
(* What happens to a case, its shop and its escrow without a job.          *)

LEMMA LapseStep ==
  ASSUME PayInv, NEW c \in Orders, ConfirmationLapses(c)
  PROVE  PayInv'
<1>1. UNCHANGED jobs /\ Repository /\ cases[c] # None
  BY DEF ConfirmationLapses, State
<1>2. PICK r \in CaseRecord : r = cases[c] BY <1>1 DEF PayInv, PayTypeOK
<1> DEFINE n == [r EXCEPT !.open = FALSE]
<1>3. /\ n \in CaseRecord /\ n.state = r.state /\ n.consent = r.consent
      /\ n.candidate = r.candidate
  BY DEF CaseRecord
<1>4. /\ cases'[c] = n /\ \A d \in Orders \ {c} : cases'[d] = cases[d]
      /\ cases' \in [Orders -> CaseRecord \cup {None}]
  BY <1>2, <1>3 DEF ConfirmationLapses, PayInv, PayTypeOK
<1> HIDE DEF n
<1>5. n # None BY <1>3, RecordAssumption
<1>6. UNCHANGED <<now, order, vault, deposited, received, wallet, spent, journal, shop>>
  BY <1>1 DEF Repository, chainVars
<1>7. CaseOK(c) /\ ReleaseOK(c) BY DEF PayInv
<1>8. Grow(c) /\ Still(c) BY <1>2, <1>3, <1>4, <1>5, <1>6 DEF Grow, Still
<1>9. CaseOK(c)'
  <2>1. Consented(c)' <=> Consented(c) BY <1>1, <1>2, <1>3, <1>4, <1>5 DEF Consented
  <2>2. PaidUp(c)' <=> PaidUp(c) BY <1>6 DEF PaidUp
  <2> QED BY <1>1, <1>2, <1>3, <1>4, <1>5, <1>6, <1>7, <2>1, <2>2 DEF CaseOK
<1>10. ReleaseEarned(c) BY <1>6, <1>7 DEF ReleaseEarned, ReleaseOK
<1>11. \A d \in Orders \ {c} : Untouched(d) BY <1>4, <1>6 DEF Untouched
<1>12. PayTypeOK' BY <1>1, <1>4, <1>6 DEF Repository, PayInv, PayTypeOK, EscrowTypeOK
<1>13. EscrowInv' BY <1>1, EscrowKept DEF Repository, PayInv
<1>14. \A d \in Orders : Grow(d) /\ Still(d) /\ CaseOK(d)' /\ ReleaseEarned(d)
  BY <1>8, <1>9, <1>10, <1>11, UntouchedKept
<1> QED BY <1>1, <1>12, <1>13, <1>14, NoJobStep

\* The parcel goes on; an order stays what it is, and what was received stays received.
LEMMA ShopStep ==
  ASSUME PayInv, NEW c \in Orders, AdvanceTracking(c) \/ Receive(c)
  PROVE  PayInv'
<1>1. UNCHANGED chainVars /\ UNCHANGED <<cases, jobs, wallet, spent, journal, dropped>> /\ shop[c] # None
  BY DEF AdvanceTracking, Receive, OffChain
<1>2. PICK r \in ShopOrder : r = shop[c] BY <1>1 DEF PayInv, PayTypeOK
<1>3. PICK n \in ShopOrder : /\ shop' = [shop EXCEPT ![c] = n]
                             /\ n.wish = r.wish
                             /\ r.received => n.received
  <2>1. CASE AdvanceTracking(c)
    <3>1. PICK t \in {"PACKED", "SHIPPED", "DELIVERED"} :
            shop' = [shop EXCEPT ![c] = [r EXCEPT !.tracking = t]]
      BY <1>2, <2>1 DEF AdvanceTracking, ShopOrder
    <3> DEFINE n == [r EXCEPT !.tracking = t]
    <3>2. n \in ShopOrder /\ n.wish = r.wish /\ n.received = r.received BY DEF ShopOrder
    <3> HIDE DEF n
    <3>3. shop' = [shop EXCEPT ![c] = n] BY <3>1 DEF n
    <3> QED BY <3>2, <3>3
  <2>2. CASE Receive(c)
    <3> DEFINE n == [r EXCEPT !.received = TRUE]
    <3>1. n \in ShopOrder /\ n.wish = r.wish /\ n.received BY DEF ShopOrder
    <3>2. shop' = [shop EXCEPT ![c] = n] BY <1>2, <2>2 DEF Receive
    <3> HIDE DEF n
    <3> QED BY <3>1, <3>2
  <2> QED BY <2>1, <2>2
<1>4. /\ shop'[c] = n /\ \A d \in Orders \ {c} : shop'[d] = shop[d]
      /\ shop' \in [Orders -> ShopOrder \cup {None}]
  BY <1>3 DEF PayInv, PayTypeOK
<1>5. n # None BY RecordAssumption
<1>6. UNCHANGED order BY <1>1 DEF chainVars
<1>7. CaseOK(c) /\ ReleaseOK(c) BY DEF PayInv
<1>8. Grow(c) /\ Still(c) BY <1>1, <1>2, <1>3, <1>4, <1>5, <1>6 DEF Grow, Still
<1>9. CaseOK(c)'
  BY <1>1, <1>2, <1>3, <1>4, <1>5, <1>6, <1>7 DEF CaseOK, Consented, PaidUp
<1>10. ReleaseEarned(c) BY <1>6, <1>7 DEF ReleaseEarned, ReleaseOK
<1>11. \A d \in Orders \ {c} : Untouched(d) BY <1>1, <1>4, <1>6 DEF Untouched
<1>12. EscrowInv' BY <1>1, EscrowKept DEF PayInv
<1>13. PayTypeOK' BY <1>1, <1>4, <1>12 DEF PayInv, PayTypeOK, EscrowInv
<1>14. \A d \in Orders : Grow(d) /\ Still(d) /\ CaseOK(d)' /\ ReleaseEarned(d)
  BY <1>8, <1>9, <1>10, <1>11, UntouchedKept
<1> QED BY <1>1, <1>12, <1>13, <1>14, NoJobStep

\* The clock, and transfers to a vault by anybody.
LEMMA ChainStep ==
  ASSUME PayInv, EscrowInv', UNCHANGED <<order, payVars>>
  PROVE  PayInv'
<1>1. PayTypeOK' BY DEF PayInv, PayTypeOK, EscrowInv, payVars
<1>2. \A c \in Orders : Untouched(c) BY DEF Untouched, payVars
<1>3. UNCHANGED jobs BY DEF payVars
<1> QED BY <1>1, <1>2, <1>3, UntouchedKept, NoJobStep

\* An escrow is settled; for a release, goods have been received.
LEMMA OutcomeStep ==
  ASSUME PayInv, EscrowInv', NEW c \in Orders, Locked(c), NEW state \in {"Released", "Refunded"},
         NEW m, NEW i, PayOut(c, state, m, i), UNCHANGED payVars,
         state = "Released" => GoodsReceived
  PROVE  PayInv'
<1>1. UNCHANGED <<cases, jobs, wallet, spent, journal, shop, dropped>> BY DEF payVars
<1>2. PICK o \in OrderEscrow : o = order[c] /\ order[c] # None
  BY DEF Locked, PayInv, EscrowInv, EscrowTypeOK
<1>3. PICK t \in Nat : t = now BY DEF PayInv, EscrowInv, EscrowTypeOK
<1> DEFINE n == [o EXCEPT !.state = state, !.terminalAt = t]
<1>4. /\ n \in OrderEscrow /\ n.state = state /\ n.merchant = o.merchant /\ n.amount = o.amount
  BY DEF OrderEscrow
<1>5. order'[c] = n /\ \A d \in Orders \ {c} : order'[d] = order[d]
  BY <1>2, <1>3 DEF PayOut, PayInv, EscrowInv, EscrowTypeOK
<1> HIDE DEF n
<1>6. n # None BY <1>4, NoneAssumption
<1>7. CaseOK(c) BY DEF PayInv
<1>8. Grow(c) /\ Still(c) BY <1>1, <1>2, <1>5, <1>6 DEF Grow, Still
<1>9. CaseOK(c)'
  <2>1. Consented(c)' <=> Consented(c) BY <1>1 DEF Consented
  <2>2. PaidUp(c) => PaidUp(c)' BY <1>1, <1>5, <1>6 DEF PaidUp
  <2> QED BY <1>1, <1>2, <1>4, <1>5, <1>6, <1>7, <2>1, <2>2 DEF CaseOK
<1>10. ReleaseEarned(c) BY <1>1, <1>4, <1>5 DEF ReleaseEarned, ReleaseOK
<1>11. \A d \in Orders \ {c} : Untouched(d) BY <1>1, <1>5 DEF Untouched
<1>12. PayTypeOK' BY <1>1 DEF PayInv, PayTypeOK, EscrowInv
<1>13. \A d \in Orders : Grow(d) /\ Still(d) /\ CaseOK(d)' /\ ReleaseEarned(d)
  BY <1>8, <1>9, <1>10, <1>11, UntouchedKept
<1> QED BY <1>1, <1>12, <1>13, NoJobStep

LEMMA ReleaseStep ==
  ASSUME PayInv, NEW c \in Orders, NEW d \in Orders, NEW b \in Orders, NEW e \in Orders,
         ReleaseDelivered(c, d, b, e)
  PROVE  PayInv'
<1>1. Release(e, Authority, Merchant, Institution) /\ UNCHANGED payVars
  BY DEF ReleaseDelivered, CreateRelease
<1>2. EscrowInv' BY <1>1, ConfigurationAssumption, ReleasePreserves DEF PayInv, Configured
<1>3. GoodsReceived BY DEF ReleaseDelivered, Verified, GoodsReceived
<1> QED BY <1>1, <1>2, <1>3, OutcomeStep DEF Release

LEMMA RefundStep ==
  ASSUME PayInv, NEW c \in Orders, Refund(c)
  PROVE  PayInv'
<1>1. EscrowInv' BY ConfigurationAssumption, RefundPreserves DEF Refund, PayInv, Configured
<1> QED BY <1>1, OutcomeStep DEF Refund, RefundTimeout

LEMMA GiftStep ==
  ASSUME PayInv, NEW c \in Orders, Gift(c)
  PROVE  PayInv'
<1>1. Amount \in 1 .. MaxDeposit
  BY PaymentAssumption, AmountAssumption, TimeAssumption
  DEF Gift, Deposit, PayInv, EscrowInv, EscrowTypeOK
<1>2. EscrowInv' BY <1>1, DepositPreserves DEF Gift, PayInv
<1> QED BY <1>2, ChainStep DEF Gift, Deposit

LEMMA TimeStep ==
  ASSUME PayInv, Time
  PROVE  PayInv'
BY TickPreserves, ChainStep DEF Time, Tick, PayInv

\* A crash ends the jobs; what they knew is on the case, the disk and the chain.
LEMMA CrashStep ==
  ASSUME PayInv, Crash
  PROVE  PayInv'
<1>1. UNCHANGED chainVars /\ UNCHANGED <<cases, wallet, spent, journal, shop>>
  BY DEF Crash, OffChain
<1>2. jobs' = [j \in Jobs |-> NoJob] BY DEF Crash
<1>3. dropped' \subseteq Orders BY DEF Crash, Drops, PayInv, PayTypeOK
<1>4. EscrowInv' BY <1>1, EscrowKept DEF PayInv
<1>5. PayTypeOK' BY <1>1, <1>2, <1>3, <1>4, StepsTyped DEF PayInv, PayTypeOK, EscrowInv
<1>6. \A c \in Orders : Untouched(c) BY <1>1 DEF Untouched, chainVars
<1>7. JobsOK'
  <2>1. JobOK(NoJob)' BY StepsTyped DEF JobOK, Driving
  <2> QED BY <1>2, <2>1 DEF JobsOK
<1>8. OneOwner' BY <1>2, StepsTyped DEF OneOwner
<1> QED BY <1>4, <1>5, <1>6, <1>7, <1>8, UntouchedKept, ReleasesKept DEF PayInv

-----------------------------------------------------------------------------
(* The invariant and what follows from it.                                 *)

LEMMA PayInitially == Init => PayInv
<1> SUFFICES ASSUME Init PROVE PayInv OBVIOUS
<1>1. EscrowInv BY InitEstablishes DEF Init
<1>2. PayTypeOK BY <1>1, StepsTyped DEF Init, PayTypeOK, EscrowInv
<1>3. \A c \in Orders : CaseOK(c) /\ ReleaseOK(c)
  <2> SUFFICES ASSUME NEW c \in Orders PROVE CaseOK(c) /\ ReleaseOK(c) OBVIOUS
  <2>1. cases[c] = None /\ order[c] = None /\ shop[c] = None /\ wallet[c] = 0 /\ spent[c] = 0
    BY DEF Init, EscrowInit
  <2>2. Amount >= 0 /\ ~Consented(c) BY <2>1, PaymentAssumption, AmountAssumption DEF Consented
  <2> QED BY <2>1, <2>2 DEF CaseOK, ReleaseOK
<1>4. JobsOK
  <2>1. JobOK(NoJob) BY StepsTyped DEF JobOK, Driving
  <2> QED BY <2>1 DEF Init, JobsOK
<1>5. OneOwner BY StepsTyped DEF Init, OneOwner
<1> QED BY <1>1, <1>2, <1>3, <1>4, <1>5 DEF PayInv

LEMMA WorkStep ==
  ASSUME PayInv, NEW j \in Jobs, Work(j)
  PROVE  PayInv'
BY CaptureStep, AnalyzeStep, InterpretationStep, RefusalStep, ConsumeStep, PaymentStep, OpenStep,
   FundStep, ChallengeStep, SettleStep, FulfillStep, EvidenceStep, SubmitStep, OrderStep
DEF Work

LEMMA PayStep ==
  ASSUME PayInv, [Next]_vars
  PROVE  PayInv'
<1>1. CASE UNCHANGED vars
  <2>1. EscrowInv' BY <1>1, EscrowKept DEF vars, PayInv
  <2>2. UNCHANGED <<order, payVars>> BY <1>1 DEF vars, chainVars
  <2> QED BY <2>1, <2>2, ChainStep
<1>2. ASSUME NEW j \in Jobs, Request(j) PROVE PayInv'
  BY <1>2, BeginCallStep, RequestStep DEF Request
<1>3. ASSUME NEW c \in Orders,
             \/ ConfirmationLapses(c) \/ AdvanceTracking(c) \/ Receive(c) \/ Refund(c) \/ Gift(c)
      PROVE  PayInv'
  BY <1>3, LapseStep, ShopStep, RefundStep, GiftStep
<1> QED BY <1>1, <1>2, <1>3, WorkStep, StoreThrowsStep, ReleaseStep, TimeStep, CrashStep DEF Next

(***************************************************************************)
(* The inductive invariant: a case has one owner from the consent on, who  *)
(* knows what was paid; what a case says was paid and ordered is so on the *)
(* chain, on the disk and in the shop.                                     *)
(***************************************************************************)
THEOREM PayInvariant == Spec => []PayInv
BY PayInitially, PayStep, PTL DEF Spec

(***************************************************************************)
(* Types of the case documents, the jobs, the wallets, journals and orders *)
(* (no wallet is overdrawn).                                               *)
(***************************************************************************)
THEOREM PayTypeCorrect == Spec => []PayTypeOK
BY PayInvariant, PTL DEF PayInv

(***************************************************************************)
(* However many digits, recordings and retries overlap and wherever a      *)
(* crash strikes: an institution pays for a case once at most, and only    *)
(* after the consent.                                                      *)
(***************************************************************************)
THEOREM MoneyFollowsConsent == Spec => []PaysOncePerConsent
<1>1. PayInv => PaysOncePerConsent
  BY DEF PayInv, CaseOK, Consented, Decided, PaysOncePerConsent
<1> QED BY <1>1, PayInvariant, PTL

(***************************************************************************)
(* An order in the shop is of the wish consented to, and is paid for by    *)
(* the institution into an escrow for this shop.                           *)
(***************************************************************************)
THEOREM OrdersArePaidFor == Spec => []OrderedIsPaidFor
<1>1. PayInv => OrderedIsPaidFor
  <2> SUFFICES ASSUME PayInv PROVE OrderedIsPaidFor OBVIOUS
  <2>1. PayTypeOK BY DEF PayInv
  <2>2. ASSUME NEW c \in Orders, shop[c] # None
        PROVE  /\ Consented(c) /\ shop[c].wish = cases[c].consent
               /\ cases[c].consent = cases[c].candidate /\ PaidUp(c)
               /\ order[c].merchant = Merchant /\ order[c].amount = Amount
    <3>1. CaseOK(c) BY DEF PayInv
    <3>2. Consented(c) /\ cases[c] # None BY <2>2, <3>1 DEF CaseOK, Consented
    <3>3. PaidUp(c) BY <2>2, <3>1, <3>2 DEF CaseOK
    <3> QED BY <2>2, <3>1, <3>2, <3>3 DEF CaseOK, PaidUp
  <2>3. \A c \in Orders : State(c) = "ORDERED" => shop[c] # None
    BY DEF PayInv, CaseOK, State
  <2> QED BY <2>1, <2>2, <2>3 DEF OrderedIsPaidFor, PaidUp
<1> QED BY <1>1, PayInvariant, PTL

(***************************************************************************)
(* The shop gets the money of an escrow only once a beneficiary has goods  *)
(* of some order, the whole amount and before the expiry, and of a case    *)
(* that was consented to.  That the goods are those of the case cannot be  *)
(* proved: the release is given a commitment that no paper has to name.    *)
(***************************************************************************)
THEOREM ReleasesAreEarned == Spec => []ShopPaidOnReceipt
<1>1. PayInv => ShopPaidOnReceipt
  <2> SUFFICES ASSUME PayInv, NEW e \in Orders, received[e][Merchant] > 0
               PROVE  /\ GoodsReceived
                      /\ order[e].state = "Released" /\ order[e].terminalAt < order[e].expiresAt
                      /\ received[e][Merchant] = Amount /\ Consented(e)
    BY DEF ShopPaidOnReceipt, GoodsReceived
  <2>1. Merchant \in Parties BY ConfigurationAssumption DEF Configured
  <2>2. order[e] # None BY <2>1 DEF PayInv, EscrowInv, Conserved
  <2>3. order[e].merchant = Merchant /\ order[e].amount = Amount /\ Consented(e)
    BY <2>2 DEF PayInv, CaseOK
  <2>4. order[e].state = "Released" BY <2>2, <2>3 DEF PayInv, EscrowInv, OutcomeByExpiry
  <2>5. order[e].terminalAt < order[e].expiresAt /\ received[e][Merchant] = Amount
    BY <2>2, <2>3, <2>4 DEF PayInv, EscrowInv, OutcomeByExpiry, Terminal
  <2> QED BY <2>2, <2>3, <2>4, <2>5 DEF PayInv, ReleaseOK
<1> QED BY <1>1, PayInvariant, PTL

-----------------------------------------------------------------------------
(* The purchase on the promise of an escrow.                               *)

LEMMA ChainKept == UNCHANGED chainVars => UNCHANGED E!escrowVars
BY DEF chainVars, E!escrowVars, Agreed, Settled, Terminal

\* Jobs touch the chain when they open an escrow and when a payment is settled.
LEMMA OpenMaps ==
  ASSUME PayInv, NEW j \in Jobs, OpenEscrow(j)
  PROVE  [E!Next]_(E!escrowVars)
<1>1. CASE OffChain BY <1>1, ChainKept DEF OffChain
<1>2. ASSUME CreateInitializeOrder(jobs[j].case) PROVE E!Next
  <2>1. jobs[j].case \in Orders BY AtStep DEF OpenEscrow, Steps
  <2>2. now + Ttl \in Nat
    BY ConfigurationAssumption DEF PayInv, EscrowInv, EscrowTypeOK, Configured
  <2>3. {Institution, Merchant, Authority} \subseteq Parties /\ Amount \in Amounts
    BY ConfigurationAssumption, PaymentAssumption DEF Configured
  <2> QED BY <1>2, <2>1, <2>2, <2>3, InitializeMaps DEF CreateInitializeOrder, PayInv
<1> QED BY <1>1, <1>2 DEF OpenEscrow

LEMMA PaymentMaps ==
  ASSUME PayInv, NEW c \in Orders, Deposit(c, Amount)
  PROVE  E!Next
<1>1. Amount \in 1 .. MaxDeposit
  BY PaymentAssumption, AmountAssumption, TimeAssumption
  DEF Deposit, PayInv, EscrowInv, EscrowTypeOK
<1> QED BY <1>1, DepositMaps DEF PayInv

LEMMA SettleMaps ==
  ASSUME PayInv, NEW j \in Jobs, Settle(j)
  PROVE  [E!Next]_(E!escrowVars)
<1>1. jobs[j].case \in Orders BY AtStep DEF Settle, Steps
<1>2. CASE OffChain BY <1>2, ChainKept DEF OffChain
<1>3. CASE Transfer(jobs[j].case) BY <1>1, <1>3, PaymentMaps DEF Transfer
<1> QED BY <1>2, <1>3 DEF Settle

LEMMA WorkMaps ==
  ASSUME PayInv, NEW j \in Jobs, Work(j)
  PROVE  [E!Next]_(E!escrowVars)
<1>1. CASE OpenEscrow(j) BY <1>1, OpenMaps
<1>2. CASE Settle(j) BY <1>2, SettleMaps
<1>3. CASE \/ Capture(j) \/ AnalyzeAudio(j) \/ Interpretation(j) \/ Refusal(j)
           \/ ConsumeConfirmation(j) \/ Authorize(j) \/ Challenge(j) \/ CheckEvidence(j)
           \/ Paid(j) \/ OrderSubmitted(j) \/ Recovery(j)
  <2>1. UNCHANGED chainVars
    BY <1>3 DEF Capture, AnalyzeAudio, Interpretation, Refusal, ConsumeConfirmation, Authorize,
      Challenge, CheckEvidence, Paid, OrderSubmitted, Recovery, Move, Repository
  <2> QED BY <2>1, ChainKept
<1>4. CASE FundWallet(j) \/ Fulfill(j) \/ SubmitOrder(j)
  BY <1>4, ChainKept DEF FundWallet, Fulfill, SubmitOrder, OffChain
<1> QED BY <1>1, <1>2, <1>3, <1>4 DEF Work

LEMMA PurchaseMaps ==
  ASSUME PayInv, [Next]_vars
  PROVE  [E!Next]_(E!escrowVars)
<1>1. CASE UNCHANGED vars BY <1>1, ChainKept DEF vars
<1>2. ASSUME NEW j \in Jobs, Request(j) PROVE UNCHANGED chainVars
  BY <1>2 DEF Request, BeginCall, RecoverOrder, SubmitInterpretation, Confirm, Repository
<1>3. ASSUME NEW c \in Orders, ConfirmationLapses(c) \/ AdvanceTracking(c) \/ Receive(c)
      PROVE  UNCHANGED chainVars
  BY <1>3 DEF ConfirmationLapses, AdvanceTracking, Receive, Repository, OffChain
<1>4. ASSUME NEW c \in Orders, Refund(c) PROVE E!Next
  BY <1>4, PayOutMaps DEF Refund, RefundTimeout, RefundAccounts, ValidRefund, PayInv
<1>5. ASSUME NEW c \in Orders, Gift(c) PROVE E!Next BY <1>5, PaymentMaps DEF Gift
<1>6. ASSUME NEW c \in Orders, NEW d \in Orders, NEW b \in Orders, NEW e \in Orders,
             ReleaseDelivered(c, d, b, e)
      PROVE  E!Next
  BY <1>6, PayOutMaps
  DEF ReleaseDelivered, CreateRelease, Release, ReleaseAccounts, ValidRelease, PayInv
<1>7. CASE Time BY <1>7, TickMaps DEF Time
<1>8. CASE Crash BY <1>8, ChainKept DEF Crash, OffChain
<1>9. ASSUME NEW j \in Jobs, StoreThrows(j) PROVE UNCHANGED chainVars BY <1>9 DEF StoreThrows
<1> QED BY <1>1, <1>2, <1>3, <1>4, <1>5, <1>6, <1>7, <1>8, <1>9, WorkMaps, ChainKept DEF Next

(***************************************************************************)
(* The payment adapter, the x402 server, the settlement and the refunds    *)
(* use the escrow as it is meant to be used: under all their jobs, retries *)
(* and crashes, what happens to the money of a case is what an escrow      *)
(* promises (KeepsPromise).                                                *)
(***************************************************************************)
THEOREM PurchaseKeepsPromise == Spec => KeepsPromise
<1>1. Init => E!Init BY InitMaps DEF Init
<1> QED BY <1>1, PurchaseMaps, PayInvariant, PTL DEF Spec, KeepsPromise, E!Spec
=============================================================================
