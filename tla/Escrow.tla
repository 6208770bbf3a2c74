------------------------------- MODULE Escrow -------------------------------
(***************************************************************************)
(* What an escrow promises, without accounts, clocks and signatures: what  *)
(* was paid in for an order stays there until it is settled, once, and     *)
(* then the payee has exactly the agreed amount and the payer the rest, or *)
(* the payer has it all.  Nobody else ever gets any of it.                 *)
(***************************************************************************)
EXTENDS Integers

CONSTANTS Orders, Parties, None

VARIABLES
  agreed,    \* for each order who pays whom how much, or None
  deposited, \* what was paid in for each order
  received,  \* what each party got out of each order
  settled

escrowVars == <<agreed, deposited, received, settled>>

Init ==
  /\ agreed    = [o \in Orders |-> None]
  /\ deposited = [o \in Orders |-> 0]
  /\ received  = [o \in Orders |-> [p \in Parties |-> 0]]
  /\ settled   = [o \in Orders |-> FALSE]

Agree(o, payer, payee, amount) ==
  /\ agreed[o] = None /\ payer # payee
  /\ agreed' = [agreed EXCEPT ![o] = [payer |-> payer, payee |-> payee, amount |-> amount]]
  /\ UNCHANGED <<deposited, received, settled>>

\* Anybody may pay in, before the agreement and after the settlement too.
Deposit(o) ==
  /\ deposited'[o] > deposited[o]
  /\ deposited' = [deposited EXCEPT ![o] = deposited'[o]]
  /\ UNCHANGED <<agreed, received, settled>>

Settle(o, toPayee) ==
  /\ agreed[o] # None /\ ~settled[o]
  /\ toPayee \in {0, agreed[o].amount}
  /\ deposited[o] >= agreed[o].amount
  /\ received' = [received EXCEPT ![o] = [p \in Parties |->
       IF p = agreed[o].payee THEN toPayee
       ELSE IF p = agreed[o].payer THEN deposited[o] - toPayee ELSE 0]]
  /\ settled' = [settled EXCEPT ![o] = TRUE]
  /\ UNCHANGED <<agreed, deposited>>

Next ==
  \E o \in Orders :
    \/ \E payer, payee \in Parties : agreed'[o] # None /\ Agree(o, payer, payee, agreed'[o].amount)
    \/ Deposit(o)
    \/ \E payee \in Parties : Settle(o, received'[o][payee])

Spec == Init /\ [][Next]_escrowVars
=============================================================================
