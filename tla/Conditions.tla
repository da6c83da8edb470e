----------------------------- MODULE Conditions -----------------------------
(***************************************************************************)
(* modules/primitives/src/lib.rs: the conditions that the signers of a     *)
(* bundle attach to it, and when two of them contradict each other.  A     *)
(* condition is a record; two conditions are equal records exactly when    *)
(* their XDR encodings are equal.                                          *)
(***************************************************************************)
EXTENDS Integers, Sequences, SequencesExt

Create(utxo, amount) == [kind |-> "Create", target |-> utxo, amount |-> amount]
ExtDeposit(addr, amount) ==
  [kind |-> "ExtDeposit", target |-> addr, amount |-> amount]
ExtWithdraw(addr, amount) ==
  [kind |-> "ExtWithdraw", target |-> addr, amount |-> amount]
ExtIntegration(adapter, utxos, amount) ==
  [kind |-> "ExtIntegration", target |-> adapter, utxos |-> utxos, amount |-> amount]

Condition(Utxos, Addresses, Amount) ==
       [kind : {"Create"}, target : Utxos, amount : Amount]
  \cup [kind : {"ExtDeposit", "ExtWithdraw"}, target : Addresses, amount : Amount]
  \cup [kind : {"ExtIntegration"}, target : Addresses, utxos : Seq(Utxos), amount : Amount]

(* Condition::conflicts_with.  Conditions of different kinds never do.     *)
ConflictsWith(c, d) ==
  /\ c.kind = d.kind
  /\ IF c.kind # "ExtIntegration"
     THEN c.target = d.target /\ c.amount # d.amount
     ELSE IF c.target # d.target
     THEN ToSet(c.utxos) \cap ToSet(d.utxos) # {}
     ELSE \/ c.amount # d.amount
          \/ Len(c.utxos) # Len(d.utxos)
          \/ ToSet(c.utxos) # ToSet(d.utxos)

(* The scan of op_has_no_conflicting_conditions: each condition is held    *)
(* against the ones already verified (condition_does_not_conflict_with_set). *)
NoConflicts(conds) ==
  \A j \in DOMAIN conds : \A i \in 1 .. (j - 1) : ~ ConflictsWith(conds[i], conds[j])

(* no_duplicate_keys and no_duplicate_addresses.                           *)
NoDuplicates(keys) == \A i, j \in DOMAIN keys : keys[i] = keys[j] => i = j

EqualConditionSequence(a, b) ==
  Len(a) = Len(b) /\ \A i \in DOMAIN a : a[i] = b[i]

(* The only conditions that describe value the bundle itself moves.        *)
IsExecutionBound(c) == c.kind \in {"Create", "ExtWithdraw"}
=============================================================================
