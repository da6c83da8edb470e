---------------------------- MODULE MCUtxoStore ----------------------------
(* UtxoStore with two UTXOs and days of one ledger: an extension of three  *)
(* ledgers, a threshold of two and a host minimum of two, over eight       *)
(* ledgers, so that entries archive, are restored and expire again.        *)
EXTENDS UtxoStore, FiniteSetsExt

(* Counting units is adding amounts.                                       *)
ASSUME \A f \in [{1, 2, 3} -> Absent .. MaxAmount] :
  Total(f, {1, 2, 3}) =
    FoldSet(LAMBDA x, sum : sum + (IF f[x] > 0 THEN f[x] ELSE 0), 0, {1, 2, 3})
=============================================================================
