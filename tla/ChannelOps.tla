----------------------------- MODULE ChannelOps -----------------------------
(***************************************************************************)
(* contracts/privacy-channel/src/transact.rs: the checks of a bundle that  *)
(* read nothing but the bundle.  And, for the modules that take a bundle   *)
(* in one step, the ledgers on which a whole call of transact goes through *)
(* and the ledger it leaves.                                               *)
(*                                                                         *)
(* A definition that no other definition uses is a slip the code could     *)
(* have made, in the place of the definition that follows.                 *)
(***************************************************************************)
EXTENDS Totals, Conditions

CondsOf(items) == FlattenSeq([k \in DOMAIN items |-> items[k].conds])

AllConds(o) == CondsOf(o.spend) \o CondsOf(o.deposit) \o CondsOf(o.withdraw)

OpHasNoConflictingSigners(o) == NoConflicts(CondsOf(o.spend) \o CondsOf(o.deposit))

OpHasNoConflictingConditions(o) == NoConflicts(AllConds(o))

TotalDeposit(o) == SumFrom(o.deposit, 1)
TotalWithdraw(o) == SumFrom(o.withdraw, 1)

(* Positive amounts whose running total, which then only grows, never      *)
(* leaves i128.                                                            *)
ExternalAmountsOk(items) ==
  /\ \A k \in DOMAIN items : items[k].amount > 0
  /\ SumFrom(items, 1) <= MaxAmount

AddressesOf(items) == [k \in DOMAIN items |-> items[k].addr]

VerifyExternalOperations(o) ==
  /\ NoDuplicates(AddressesOf(o.deposit))
  /\ NoDuplicates(AddressesOf(o.withdraw))
  /\ \A d \in ToSet(o.deposit), w \in ToSet(o.withdraw) :
       d.addr = w.addr => EqualConditionSequence(d.conds, w.conds)

(* The effects the spend owners and the depositors signed for, and the     *)
(* effects the bundle has.                                                 *)
AuthorizedEffects(o) ==
  {c \in UNION {ToSet(x.conds) : x \in ToSet(o.spend) \cup ToSet(o.deposit)} :
     IsExecutionBound(c)}

ExecutedEffects(o) ==
       {Create(x.utxo, x.amount) : x \in ToSet(o.create)}
  \cup {ExtWithdraw(x.addr, x.amount) : x \in ToSet(o.withdraw)}

SpendEffectsAreExecuted(o) ==
  AuthorizedEffects([o EXCEPT !.deposit = <<>>]) \subseteq ExecutedEffects(o)

AssertSignedEffectsAreExecuted(o) == AuthorizedEffects(o) \subseteq ExecutedEffects(o)

UtxosOf(items) == [k \in DOMAIN items |-> items[k].utxo]

(* pre_process_channel_operation, and the duplicate checks of              *)
(* process_bundle.                                                         *)
PreProcessed(o) ==
  /\ OpHasNoConflictingConditions(o)
  /\ ExternalAmountsOk(o.deposit)
  /\ ExternalAmountsOk(o.withdraw)
  /\ VerifyExternalOperations(o)
  /\ AssertSignedEffectsAreExecuted(o)

NoUtxoTwice(o) == NoDuplicates(UtxosOf(o.spend)) /\ NoDuplicates(UtxosOf(o.create))

WellFormed(o) == PreProcessed(o) /\ NoUtxoTwice(o)
-----------------------------------------------------------------------------
(* A whole call of the channel `self`, on the ledger l: the UTXOs and the  *)
(* supply of the channel, and the balances of the asset.                   *)
SpentBy(o) == ToSet(UtxosOf(o.spend))
CreatedBy(o) == ToSet(UtxosOf(o.create))

(* What an account pays in, or is paid out.  Accounts do not repeat.       *)
AmountFor(items, a) == Total(Amounts(items), {k \in DOMAIN items : items[k].addr = a})

(* process_bundle: what is spent exists, what is created does not, the     *)
(* running total stays in its type and comes out even.                     *)
Balanced(l, o) ==
  LET funds == TotalDeposit(o) + Total(l.utxo, SpentBy(o))
  IN  /\ \A u \in SpentBy(o) : l.utxo[u] > 0
      /\ \A c \in ToSet(o.create) : l.utxo[c.utxo] = -1 /\ c.amount > 0
      /\ funds <= MaxAmount
      /\ funds = SumFrom(o.create, 1) + TotalWithdraw(o)

Paid(self, l, o, a) ==
  IF a = self
  THEN l.bal[a] + TotalDeposit(o) - (TotalWithdraw(o) - AmountFor(o.withdraw, a))
  ELSE l.bal[a] - AmountFor(o.deposit, a) + AmountFor(o.withdraw, a)

PayableOnCredit(self, l, o) ==
  /\ \A d \in ToSet(o.deposit) : d.addr # self
  /\ l.bal[self] + TotalDeposit(o) \in TotalWithdraw(o) .. MaxAmount
  /\ l.supply + TotalDeposit(o) <= MaxAmount
  /\ \A w \in ToSet(o.withdraw) : w.addr = self \/ Paid(self, l, o, w.addr) <= MaxAmount

(* execute_external_operations: every depositor but the channel can pay,   *)
(* and no balance leaves its type on the way.                              *)
Payable(self, l, o) ==
  /\ \A d \in ToSet(o.deposit) : d.addr # self /\ l.bal[d.addr] >= d.amount
  /\ l.bal[self] + TotalDeposit(o) \in TotalWithdraw(o) .. MaxAmount
  /\ l.supply + TotalDeposit(o) <= MaxAmount
  /\ \A w \in ToSet(o.withdraw) : w.addr = self \/ Paid(self, l, o, w.addr) <= MaxAmount

Accepts(self, l, o) == WellFormed(o) /\ Balanced(l, o) /\ Payable(self, l, o)

(* The UTXOs after process_bundle.                                         *)
UtxosAfter(l, o) ==
  [u \in DOMAIN l.utxo |->
     IF u \in SpentBy(o) THEN 0
     ELSE IF u \in CreatedBy(o) THEN (CHOOSE c \in ToSet(o.create) : c.utxo = u).amount
     ELSE l.utxo[u]]

SettlementOfDeposits(self, l, o) ==
  [utxo |-> UtxosAfter(l, o),
   supply |-> l.supply + TotalDeposit(o),
   bal |-> [a \in DOMAIN l.bal |-> Paid(self, l, o, a)]]

Settlement(self, l, o) ==
  [utxo |-> UtxosAfter(l, o),
   supply |-> l.supply + TotalDeposit(o) - TotalWithdraw(o),
   bal |-> [a \in DOMAIN l.bal |-> Paid(self, l, o, a)]]
=============================================================================
