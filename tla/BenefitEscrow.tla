---------------------------- MODULE BenefitEscrow ----------------------------
(***************************************************************************)
(* The escrow program on Solana: programs/benefit-escrow/src/lib.rs.  An   *)
(* order account and its vault belong to one commitment.  An instruction   *)
(* happens as a whole or not at all, and anybody may send one, with any    *)
(* accounts: what the #[account] constraints check is part of its guard.   *)
(* The vault is a token account that anybody may pay into at any time,     *)
(* also before the order exists (init_if_needed) and after it was closed.  *)
(*                                                                         *)
(* deposited and received are history: what has come into and out of the   *)
(* vault of each order.                                                    *)
(***************************************************************************)
EXTENDS Integers

CONSTANTS
  Orders,       \* event commitments
  Parties,      \* public keys
  Amounts,      \* u64 amounts an order may be opened with
  MaxDuration,  \* MAX_EXPIRY_DURATION
  MaxTime,      \* bound on the clock and on expiries
  MaxDeposit,   \* bound on what is paid into one vault
  None

ASSUME AmountAssumption == Amounts \subseteq Nat
ASSUME TimeAssumption == MaxDuration \in Nat /\ MaxTime \in Nat /\ MaxDeposit \in Nat
OrderEscrow == [institution : Parties, merchant : Parties, authority : Parties,
  amount : Amounts, expiresAt : Nat, state : {"Locked", "Released", "Refunded"}, terminalAt : Nat]
Agreement == [payer : Parties, payee : Parties, amount : Amounts]
ASSUME NoneAssumption == None \notin OrderEscrow \cup Agreement

VARIABLES now, order, vault, deposited, received

chainVars == <<now, order, vault, deposited, received>>

EscrowTypeOK ==
  /\ now \in Nat \ {0}
  /\ order \in [Orders -> OrderEscrow \cup {None}]
  /\ vault \in [Orders -> Nat]
  /\ deposited \in [Orders -> Nat]
  /\ received \in [Orders -> [Parties -> Nat]]

EscrowInit ==
  /\ now = 1
  /\ order     = [o \in Orders |-> None]
  /\ vault     = [o \in Orders |-> 0]
  /\ deposited = [o \in Orders |-> 0]
  /\ received  = [o \in Orders |-> [p \in Parties |-> 0]]
-----------------------------------------------------------------------------
(***************************************************************************)
(* The checks.                                                             *)
(***************************************************************************)
Locked(o)   == order[o] # None /\ order[o].state = "Locked"
Terminal(o) == order[o] # None /\ order[o].state # "Locked"

ValidInitialization(i, m, a, amount, expiresAt) ==
  /\ amount > 0
  /\ now < expiresAt /\ expiresAt <= now + MaxDuration
  /\ i # m /\ i # a /\ m # a

\* Mutant: the order may be released until the end of its last second.
ReleaseAtExpiry(o) == now <= order[o].expiresAt /\ vault[o] >= order[o].amount
\* Mutant: the vault's balance is not checked.
ReleaseUnfunded(o) == now < order[o].expiresAt
ValidRelease(o) == now < order[o].expiresAt /\ vault[o] >= order[o].amount
\* Mutant: only a vault with exactly the amount is refunded.
RefundExactly(o) == now >= order[o].expiresAt /\ vault[o] = order[o].amount
ValidRefund(o) == now >= order[o].expiresAt /\ vault[o] >= order[o].amount

\* Mutant: has_one = merchant is missing.
AnyMerchant(o, authority, merchant, institution) ==
  order[o].authority = authority /\ order[o].institution = institution
\* has_one: the accounts a release names are those of the order.
ReleaseAccounts(o, authority, merchant, institution) ==
  /\ order[o].authority = authority
  /\ order[o].merchant = merchant
  /\ order[o].institution = institution
RefundAccounts(o, institution) == order[o].institution = institution
-----------------------------------------------------------------------------
(***************************************************************************)
(* The instructions.                                                       *)
(***************************************************************************)
\* init: the order account must not exist; the vault may.
InitializeOrder(o, i, m, a, amount, expiresAt) ==
  /\ order[o] = None
  /\ ValidInitialization(i, m, a, amount, expiresAt)
  /\ order' = [order EXCEPT ![o] = [institution |-> i, merchant |-> m, authority |-> a,
       amount |-> amount, expiresAt |-> expiresAt, state |-> "Locked", terminalAt |-> 0]]
  /\ UNCHANGED <<now, vault, deposited, received>>

\* Mutant: the surplus is left in the vault, which is closed.
PayOutAmount(o, state, merchant, institution) ==
  /\ order' = [order EXCEPT ![o].state = state, ![o].terminalAt = now]
  /\ received' = [received EXCEPT
       ![o][IF state = "Released" THEN merchant ELSE institution] = @ + order[o].amount]
  /\ vault' = [vault EXCEPT ![o] = 0]
  /\ UNCHANGED <<now, deposited>>
\* The amount goes where the outcome says, the surplus to the institution, and
\* the vault is closed.
PayOut(o, state, merchant, institution) ==
  LET toMerchant == IF state = "Released" THEN order[o].amount ELSE 0 IN
    /\ order' = [order EXCEPT ![o].state = state, ![o].terminalAt = now]
    /\ received' = [received EXCEPT ![o] = [p \in Parties |->
         IF p = merchant THEN @[p] + toMerchant
         ELSE IF p = institution THEN @[p] + (vault[o] - toMerchant) ELSE @[p]]]
    /\ vault' = [vault EXCEPT ![o] = 0]
    /\ UNCHANGED <<now, deposited>>

Release(o, authority, merchant, institution) ==
  /\ Locked(o) /\ ReleaseAccounts(o, authority, merchant, institution)
  /\ ValidRelease(o)
  /\ PayOut(o, "Released", merchant, institution)

RefundTimeout(o, institution) ==
  /\ Locked(o) /\ RefundAccounts(o, institution)
  /\ ValidRefund(o)
  /\ PayOut(o, "Refunded", order[o].merchant, institution)

\* A transfer to the vault's address, which is created anew if it was closed.
Deposit(o, amount) ==
  /\ deposited[o] + amount <= MaxDeposit
  /\ vault' = [vault EXCEPT ![o] = @ + amount]
  /\ deposited' = [deposited EXCEPT ![o] = @ + amount]
  /\ UNCHANGED <<now, order, received>>

Tick == now < MaxTime /\ now' = now + 1 /\ UNCHANGED <<order, vault, deposited, received>>

EscrowNext ==
  \/ Tick
  \/ \E o \in Orders :
       \/ \E i, m, a \in Parties, amount \in Amounts, expiresAt \in 1 .. MaxTime :
            InitializeOrder(o, i, m, a, amount, expiresAt)
       \/ \E a, m, i \in Parties : Release(o, a, m, i)
       \/ \E i \in Parties : RefundTimeout(o, i)
       \/ \E amount \in 1 .. MaxDeposit : Deposit(o, amount)

\* The chain's clock goes on, and an institution that can have its money back
\* sends the refund in the end.
Fairness == WF_chainVars(Tick) /\ \A o \in Orders, i \in Parties : WF_chainVars(RefundTimeout(o, i))

EscrowSpec == EscrowInit /\ [][EscrowNext]_chainVars /\ Fairness
-----------------------------------------------------------------------------
(***************************************************************************)
(* Properties.                                                             *)
(***************************************************************************)
\* Money neither appears nor disappears, whatever surplus a vault has when it
\* is closed (saturating_sub, close_account) and whoever is named as a
\* destination.
Conserved ==
  \A o \in Orders :
    IF order[o] = None
    THEN deposited[o] = vault[o] /\ \A p \in Parties : received[o][p] = 0
    ELSE LET i == order[o].institution
             m == order[o].merchant IN
           /\ i # m
           /\ deposited[o] = vault[o] + received[o][i] + received[o][m]
           /\ \A p \in Parties \ {i, m} : received[o][p] = 0
           /\ Locked(o) => received[o][i] = 0 /\ received[o][m] = 0

\* Release and refund exclude each other by time, not only by state: what the
\* merchant gets it gets before the expiry, what is refunded is refunded from the
\* expiry on.  And every account the program writes is one decodeOrderEscrow of
\* escrowClient.ts reads: a terminal order, and only that, has a time.
OutcomeByExpiry ==
  \A o \in Orders : order[o] # None =>
    /\ Locked(o) <=> order[o].terminalAt = 0
    /\ Terminal(o) => (order[o].state = "Released" <=> order[o].terminalAt < order[o].expiresAt)
    /\ received[o][order[o].merchant] = IF order[o].state = "Released" THEN order[o].amount ELSE 0

\* What was agreed for each order, and which orders are settled.
Agreed == [o \in Orders |-> IF order[o] = None THEN None
  ELSE [payer |-> order[o].institution, payee |-> order[o].merchant, amount |-> order[o].amount]]
Settled == [o \in Orders |-> Terminal(o)]

\* The program implements the promise of an escrow (module Escrow): whatever
\* instructions are sent, an order is settled once, for everything in its vault,
\* with the agreed amount or nothing to the payee and all else to the payer.
E == INSTANCE Escrow WITH agreed <- Agreed, settled <- Settled
KeepsPromise == E!Spec

\* An order whose vault has its amount is settled: at the expiry at the latest
\* nothing is in the way of its refund.
FundedOrdersSettle ==
  \A o \in Orders : Locked(o) /\ vault[o] >= order[o].amount ~> Terminal(o)
=============================================================================
