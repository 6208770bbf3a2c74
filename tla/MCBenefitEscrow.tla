--------------------------- MODULE MCBenefitEscrow ---------------------------
(***************************************************************************)
(* Two orders of three parties, each in any role, amounts of one and two   *)
(* and vaults paid up to three: exactly, too little and too much.          *)
(***************************************************************************)
EXTENDS BenefitEscrow, TLC
CONSTANTS o1, o2, p1, p2, p3
MCOrders  == {o1, o2}
MCParties == {p1, p2, p3}
MCAmounts == {1, 2}
=============================================================================
