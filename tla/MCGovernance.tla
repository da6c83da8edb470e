---------------------------- MODULE MCGovernance ----------------------------
(* Governance of two channels with one auth contract by two admins, over   *)
(* four ledgers in which nominations and instances run out, for TLC.       *)
EXTENDS Governance
=============================================================================
