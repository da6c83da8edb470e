---------------------------- MODULE AuthRequest ----------------------------
(***************************************************************************)
(* What a bundle asks of the auth contract (modules/utxo-core): for each   *)
(* UTXO it spends, the key of its owner and the owner's conditions.        *)
(***************************************************************************)
EXTENDS Payload

CalculateAuthRequirements(spend) ==
  [s \in {P256(x.utxo) : x \in ToSet(spend)} |->
     (CHOOSE x \in ToSet(spend) : P256(x.utxo) = s).conds]

(* The context of require_auth_for_args in process_bundle, which has no    *)
(* argument when nothing is spent.                                         *)
Contexts(contract, spend) ==
  <<[kind |-> "contract", contract |-> contract,
     arg |-> IF spend = <<>> THEN "none" ELSE "reqs",
     reqs |-> CalculateAuthRequirements(spend)]>>
=============================================================================
