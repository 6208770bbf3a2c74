--------------------------- MODULE MCBudgetLedger ---------------------------
(***************************************************************************)
(* Three cases of two scopes (the case of one month can come back in the   *)
(* next), with amounts of which two fit the smaller allocation and three   *)
(* the larger, and callers that disagree about the allocation.             *)
(***************************************************************************)
EXTENDS BudgetLedger, TLC
CONSTANTS c1, c2, c3, s1, s2, f1, f2
MCCases        == {c1, c2, c3}
MCScopes       == {s1, s2}
MCFingerprints == {f1, f2}
Allocations    == {2, 4}
Amounts        == 1 .. 2
Symmetry       == Permutations(MCCases) \cup Permutations(MCScopes)
                  \cup Permutations(MCFingerprints)
MCNext         == BudgetNext(Allocations, Amounts)
MCSpec         == BudgetInit /\ [][MCNext]_budgetVars
=============================================================================
