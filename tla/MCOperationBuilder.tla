------------------------ MODULE MCOperationBuilder ------------------------
(* OperationBuilder with three UTXOs and condition lists of which some     *)
(* contradict others, for TLC.                                             *)
EXTENDS OperationBuilder

CONSTANTS u1, u2, u3, alice, bob

MCCondLists ==
  {<<>>, <<Create(u3, 1)>>, <<ExtWithdraw(alice, 1), Create(u3, 2)>>,
   <<ExtIntegration(alice, <<u3>>, 1)>>, <<ExtIntegration(bob, <<u3, u2>>, 1)>>}
=============================================================================
