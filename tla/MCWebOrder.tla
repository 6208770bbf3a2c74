----------------------------- MODULE MCWebOrder -----------------------------
(* The web order with two products and two calls under way at a time.      *)
EXTENDS WebOrder

CONSTANTS g1, g2, r1

MCGoods == {g1, g2}
MCQuantities == {1, 2}
MCRecipients == {r1}
MCCalls == {1, 2}

=============================================================================
