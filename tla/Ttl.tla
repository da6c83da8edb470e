-------------------------------- MODULE Ttl --------------------------------
(***************************************************************************)
(* The time-to-live rules of the Soroban host, as the contracts use them   *)
(* (external: the host is not part of the repository).  A ledger entry     *)
(* carries the number of the last ledger it is live in.  The contracts     *)
(* read nothing of it; they only ask the host to extend it.                *)
(***************************************************************************)
EXTENDS Integers

(* The host refuses to load an entry whose last live ledger has passed:    *)
(* the invocation fails, it does not read the entry as absent.             *)
Live(until, seq) == until >= seq

(* extend_ttl(key, threshold, extend_to): extend only when at most         *)
(* threshold ledgers are left, and then up to extend_to from now.          *)
ExtendTtl(until, seq, threshold, bump) ==
  IF until - seq <= threshold /\ until < seq + bump THEN seq + bump ELSE until

(* The last live ledger of an entry written, or restored, in ledger seq.   *)
FreshTtl(seq, minTtl) == seq + minTtl - 1
=============================================================================
