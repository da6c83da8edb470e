---------------------------- MODULE MCUtxoModule ----------------------------
(* UtxoModule with three UTXOs, vectors of up to two elements and amounts  *)
(* that leave the integer type when two of them are added, for TLC.        *)
EXTENDS UtxoModule
=============================================================================
