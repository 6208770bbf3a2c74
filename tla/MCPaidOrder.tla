---------------------------- MODULE MCPaidOrder ----------------------------
(***************************************************************************)
(* One case (cases share the budget account, which MCBudgetLedger checks   *)
(* with three, and the supplier's orders: the account has one order of     *)
(* each offer that is not of this case, which an operator may name), two   *)
(* offers that fit the budget (one that does not fit only makes a request  *)
(* stop), two requests at a time in any number after each other, two       *)
(* consents and two approval requests; a case from the phone, which orders *)
(* directly, has a second consent or an approval request (PhoneBound).     *)
(***************************************************************************)
EXTENDS PaidOrder, TLC
CONSTANTS c1, s1, o1, o2, j1, j2, r1, r2
MCCases    == {c1}
MCScopes   == {s1}
MCOffers   == {o1, o2}
MCPrice    == [o \in MCOffers |-> 2]
MCJobs     == {j1, j2}
MCOthers   == {[of |-> None, no |-> 1, terms |-> o] : o \in MCOffers}
MCRequests == {r1, r2}
Symmetry   == Permutations(MCJobs) \cup Permutations(MCRequests)
              \cup Permutations(MCOffers)
PhoneBound == \A c \in phone :
  Len(consents[c]) + Cardinality({r \in Requests : approvals[r] # None}) <= 2
=============================================================================
