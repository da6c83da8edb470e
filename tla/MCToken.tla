------------------------------ MODULE MCToken ------------------------------
(* Token with two holders, one of whom has allowances (its own included),  *)
(* over three ledgers in which balances, allowances and the instance end.   *)
EXTENDS Token
=============================================================================
