-------------------------- MODULE MCCaseProcedure --------------------------
(***************************************************************************)
(* The case procedure with two priced conditions, so that a reevaluation   *)
(* can come back with other terms or with the same ones, and approvals     *)
(* that are invalidated twice, the second time in the middle of the first  *)
(* revalidation or after it.                                               *)
(***************************************************************************)
EXTENDS CaseProcedure
CONSTANTS c1, c2
MCConditions == {c1, c2}
=============================================================================
