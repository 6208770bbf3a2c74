---------------------------- MODULE MCPhoneFood ----------------------------
(***************************************************************************)
(* One call, two requests at a time in any number after each other, one    *)
(* utterance that leads to candidates and two terms to select.             *)
(***************************************************************************)
EXTENDS PhoneFood, TLC
CONSTANTS call, u1, t1, t2, j1, j2
MCUtterances == {u1}
MCOffers      == {t1, t2}
MCConditions == {call} \cup MCUtterances \cup MCOffers
MCJobs       == {j1, j2}
MCKeys       == {PHONE_CONNECTED, INTENT_INTERPRETED, POLICY_EVALUATED, USER_CONFIRMED}
Symmetry     == Permutations(MCJobs) \cup Permutations(MCOffers)
=============================================================================
