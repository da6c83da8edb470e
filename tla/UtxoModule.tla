----------------------------- MODULE UtxoModule -----------------------------
(***************************************************************************)
(* modules/utxo-core on its own: the trait UtxoHandlerTrait as the test    *)
(* contract of testutils/contract.rs exports it, with mint and burn, which *)
(* no other contract has, next to bundles whose incoming and outgoing      *)
(* amounts are whatever the caller says.                                   *)
(*                                                                         *)
(* No call leaves the contract once it has asked for its authorization, so *)
(* a call is one step: its loop over a vector takes a ledger that          *)
(* remembers whether something panicked from one element to the next, and  *)
(* a call that panics has no step.  TTLs are those of UtxoStore and left   *)
(* out.  Each of Addresses stands for an auth contract                     *)
(* (MockedAuthContract, which says what it is told to), and `by` for the   *)
(* one that a transaction has the consent of.                              *)
(*                                                                         *)
(* A definition before the properties that no other definition uses is a   *)
(* slip the code could have made, in the place of the one that follows.    *)
(***************************************************************************)
EXTENDS Totals, Conditions

CONSTANTS Keys,          \* UTXO keys
          Addresses,     \* auth contracts
          MaxLen         \* bound: the elements of a vector

ASSUME UtxoModuleAssumption == IsFiniteSet(Keys) /\ MaxLen \in Nat

VARIABLES utxo,          \* what Store::balance returns
          auth,          \* UTXO_AUTH, in the instance
          net            \* history: minted and brought in, less burned and taken out

coreVars == <<utxo, auth, net>>

(* __constructor.                                                          *)
CoreInit ==
  /\ utxo = [u \in Keys |-> -1]
  /\ auth \in Addresses
  /\ net = 0
-----------------------------------------------------------------------------
(* The ledger inside a call, with total_available_balance.                 *)
Begin(incoming) == [ok |-> TRUE, utxo |-> utxo, avail |-> incoming]

(* The ledger after a loop over list that starts on s.                     *)
After(one(_, _), s, list) ==
  LET ledger[k \in 0 .. Len(list)] == IF k = 0 THEN s ELSE one(ledger[k - 1], list[k])
  IN  ledger[Len(list)]

(* One round of the spend loop: store.balance, store.spend and the sum.    *)
SpendOne(s, u) ==
  IF s.ok /\ s.utxo[u] > 0 /\ s.avail + s.utxo[u] \in I128
  THEN [s EXCEPT !.utxo[u] = 0, !.avail = @ + s.utxo[u]]
  ELSE [s EXCEPT !.ok = FALSE]

CreateOneOverTombstone(s, c) ==
  IF s.ok /\ s.utxo[c.utxo] <= 0 /\ c.amount > 0 /\ s.avail - c.amount \in I128
  THEN [s EXCEPT !.utxo[c.utxo] = c.amount, !.avail = @ - c.amount]
  ELSE [s EXCEPT !.ok = FALSE]

(* One round of the create loop.                                           *)
CreateOne(s, c) ==
  IF s.ok /\ s.utxo[c.utxo] = -1 /\ c.amount > 0 /\ s.avail - c.amount \in I128
  THEN [s EXCEPT !.utxo[c.utxo] = c.amount, !.avail = @ - c.amount]
  ELSE [s EXCEPT !.ok = FALSE]

BundleOf(spend, create, incoming) ==
  After(CreateOne, After(SpendOne, Begin(incoming), spend), create)

Covers(s, outgoing) == s.ok /\ s.avail >= outgoing

(* The end of process_bundle.                                              *)
Comes(s, outgoing) == s.ok /\ s.avail = outgoing

(* transact_with_external; transact has nothing come in or go out.         *)
TransactWithExternal(spend, create, incoming, outgoing, by) ==
  LET s == BundleOf(spend, create, incoming)
  IN  /\ NoDuplicates(spend)
      /\ NoDuplicates([k \in DOMAIN create |-> create[k].utxo])
      /\ auth = by
      /\ Comes(s, outgoing)
      /\ utxo' = s.utxo
      /\ net' = net + incoming - outgoing
      /\ UNCHANGED auth
-----------------------------------------------------------------------------
(* The trait's create and spend, one element of mint and of burn.  They    *)
(* keep no running total: the sums below are what history counts.          *)
CreateUtxo(s, c) ==
  IF s.ok /\ s.utxo[c.utxo] = -1 /\ c.amount > 0
  THEN [s EXCEPT !.utxo[c.utxo] = c.amount, !.avail = @ + c.amount]
  ELSE [s EXCEPT !.ok = FALSE]

SpendUtxo(s, u) ==
  IF s.ok /\ s.utxo[u] > 0
  THEN [s EXCEPT !.utxo[u] = 0, !.avail = @ - s.utxo[u]]
  ELSE [s EXCEPT !.ok = FALSE]

(* The end of mint and of burn, whose loops ended in s.                    *)
Return(s) ==
  /\ s.ok
  /\ utxo' = s.utxo
  /\ net' = net + s.avail
  /\ UNCHANGED auth

Mint(list) == Return(After(CreateUtxo, Begin(0), list))

Burn(list) == Return(After(SpendUtxo, Begin(0), list))

SetAuth(new_auth) ==
  /\ auth' = new_auth
  /\ UNCHANGED <<utxo, net>>
-----------------------------------------------------------------------------
Creates == BoundedSeq([utxo : Keys, amount : 0 .. MaxAmount], MaxLen)

CoreNext ==
  \/ \E spend \in BoundedSeq(Keys, MaxLen), create \in Creates :
       \E incoming, outgoing \in I128, by \in Addresses :
         TransactWithExternal(spend, create, incoming, outgoing, by)
  \/ \E list \in Creates : Mint(list)
  \/ \E list \in BoundedSeq(Keys, MaxLen) : Burn(list)
  \/ \E a \in Addresses : SetAuth(a)

CoreSpec == CoreInit /\ [][CoreNext]_coreVars
-----------------------------------------------------------------------------
(* The unspent UTXOs are worth what every mint and every bundle brought    *)
(* in, less what every burn and every bundle took out, whatever the order  *)
(* of the calls, with elements that repeat in a vector and with amounts    *)
(* below zero: process_bundle checks neither of the two amounts it takes.  *)
ValueAccountedFor == Total(utxo, Keys) = net

(* No call moves a UTXO twice: spent and created again by one bundle,      *)
(* created by a mint after a burn, or named twice in one vector.           *)
MovesOnce ==
  [][\A u \in Keys : \/ utxo'[u] = utxo[u]
                     \/ utxo[u] = -1 /\ utxo'[u] > 0
                     \/ utxo[u] > 0 /\ utxo'[u] = 0]_coreVars
=============================================================================
