------------------------------- MODULE Totals -------------------------------
(***************************************************************************)
(* The value held by a family of amounts, as the number of units in it.    *)
(* An amount of 0 or -1 (a spent UTXO, an absent one) holds no unit.       *)
(* Counting units rather than folding an addition keeps the conservation   *)
(* of value within reach of first-order proof.                             *)
(***************************************************************************)
EXTENDS Integers, Sequences, FiniteSets

CONSTANT MaxAmount       \* i128::MAX

ASSUME MaxAmountAssumption == MaxAmount \in Nat \ {0}

I128 == (-MaxAmount - 1) .. MaxAmount

Units(f, S) == {c \in S \X (1 .. MaxAmount) : c[2] <= f[c[1]]}

Total(f, S) == Cardinality(Units(f, S))

(* The amounts of a vector of (key, amount, ...) tuples, and what is left  *)
(* of their sum from position i on.                                        *)
Amounts(s) == [k \in DOMAIN s |-> s[k].amount]

SumFrom(s, i) == Total(Amounts(s), i .. Len(s))
=============================================================================
