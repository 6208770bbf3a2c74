---------------------------- MODULE MCCasePayment ----------------------------
(***************************************************************************)
(* A call, two wishes and requests that overlap, crashes, and a gift to    *)
(* the vault besides its payment.  A second purchase was ordered before:   *)
(* its escrow is refunded, as it expired while the goods were under way;   *)
(* the beneficiary may take them at any time, so that true papers of it    *)
(* can be put to the escrow of the call.                                   *)
(***************************************************************************)
EXTENDS CasePayment

CONSTANTS c1, c2, w1, w2, institution, merchant, authority

MCOrders == {c1, c2}
MCParties == {institution, merchant, authority}
MCAmounts == {1}
MCWishes == {w1, w2}
MCJobs == {1, 2}

Else(value, over) == [c \in Orders |-> IF c = c2 THEN over ELSE value]

MCInit ==
  /\ now = 2
  /\ order = Else(None,
       [institution |-> institution, merchant |-> merchant, authority |-> authority, amount |-> 1,
        expiresAt |-> 2, state |-> "Refunded", terminalAt |-> 2])
  /\ vault = Else(0, 0)
  /\ deposited = Else(0, MaxDeposit)
  /\ received = Else([p \in Parties |-> 0],
       [p \in Parties |-> IF p = institution THEN MaxDeposit ELSE 0])
  /\ cases = Else(None,
       [state |-> "ORDERED", candidate |-> w1, open |-> FALSE, consent |-> w1, intent |-> TRUE])
  /\ jobs = [j \in Jobs |-> NoJob]
  /\ wallet = Else(0, 0)
  /\ spent = Else(0, 1)
  /\ journal = Else("none", "DONE")
  /\ shop = Else(None, [wish |-> w1, tracking |-> "DELIVERED", received |-> FALSE])
  /\ dropped = {}

MCSpec == MCInit /\ [][Next]_vars /\ AwaitsEnd

=============================================================================
