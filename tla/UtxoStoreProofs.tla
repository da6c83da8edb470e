-------------------------- MODULE UtxoStoreProofs --------------------------
(***************************************************************************)
(* The store keeps its types, never archives an entry that was touched     *)
(* recently, and only moves records forward.                               *)
(***************************************************************************)
EXTENDS UtxoStore, TLAPS

(* bump_ttl leaves more than Threshold ledgers, whatever was left before.  *)
LEMMA ExtendedLasts ==
  ASSUME seq \in Nat, NEW last \in Nat
  PROVE  Extended(last) \in Nat /\ Extended(last) > seq + Threshold
BY TtlAssumption DEF Extended, ExtendTtl

LEMMA FreshType ==
  ASSUME seq \in Nat
  PROVE  FreshTtl(seq, MinTtl) \in Nat /\ FreshTtl(seq, MinTtl) >= seq
BY TtlAssumption DEF FreshTtl

(* Each of balance, create and spend touches one entry and gives it one of *)
(* the amounts a record can hold.                                          *)
LEMMA TouchKeeps ==
  ASSUME TypeOK, TouchedStaysLive, NEW u \in Utxos, NEW last \in Nat,
         NEW amount \in Absent .. MaxAmount,
         utxo' = [utxo EXCEPT ![u] = amount], Touch(u, last)
  PROVE  TypeOK' /\ TouchedStaysLive'
<1>1. Extended(last) \in Nat /\ Extended(last) > seq + Threshold
  BY ExtendedLasts DEF TypeOK
<1>2. TypeOK'  BY <1>1 DEF TypeOK, Touch
<1>3. TouchedStaysLive'
  <2> SUFFICES ASSUME NEW v \in Utxos, utxo'[v] # Absent
               PROVE  until'[v] > touched'[v] + Threshold
    BY DEF TouchedStaysLive
  <2>1. CASE v = u  BY <1>1, <2>1 DEF TypeOK, Touch
  <2>2. CASE v # u
    <3>1. utxo'[v] = utxo[v] /\ until'[v] = until[v] /\ touched'[v] = touched[v]
      BY <2>2 DEF TypeOK, Touch
    <3> QED  BY <3>1 DEF TouchedStaysLive
  <2> QED  BY <2>1, <2>2
<1> QED  BY <1>2, <1>3

(* The two invariants hold initially and are inductive together.           *)
LEMMA StoreInit == Init => TypeOK /\ TouchedStaysLive
BY MaxAmountAssumption DEF Init, TypeOK, TouchedStaysLive, Absent

LEMMA StoreStep == TypeOK /\ TouchedStaysLive /\ [Next]_vars => TypeOK' /\ TouchedStaysLive'
<1> SUFFICES ASSUME TypeOK, TouchedStaysLive, [Next]_vars
             PROVE  TypeOK' /\ TouchedStaysLive'
  OBVIOUS
<1>1. ASSUME NEW u \in Utxos, Balance(u)  PROVE TypeOK' /\ TouchedStaysLive'
  <2>1. utxo' = [utxo EXCEPT ![u] = utxo[u]] /\ utxo[u] \in Absent .. MaxAmount
    BY <1>1 DEF Balance, TypeOK
  <2>2. Touch(u, until[u]) /\ until[u] \in Nat  BY <1>1 DEF Balance, TypeOK
  <2> QED  BY <2>1, <2>2, TouchKeeps
<1>2. ASSUME NEW u \in Utxos, Spend(u)  PROVE TypeOK' /\ TouchedStaysLive'
  <2>1. utxo' = [utxo EXCEPT ![u] = Spent] /\ Spent \in Absent .. MaxAmount
    BY <1>2, MaxAmountAssumption DEF Spend, Spent, Absent
  <2>2. Touch(u, until[u]) /\ until[u] \in Nat  BY <1>2 DEF Spend, TypeOK
  <2> QED  BY <2>1, <2>2, TouchKeeps
<1>3. ASSUME NEW u \in Utxos, NEW a \in 1 .. MaxAmount, Create(u, a)
      PROVE  TypeOK' /\ TouchedStaysLive'
  <2>1. utxo' = [utxo EXCEPT ![u] = a] /\ a \in Absent .. MaxAmount
    BY <1>3, MaxAmountAssumption DEF Create, Absent
  <2>2. Touch(u, FreshTtl(seq, MinTtl)) /\ FreshTtl(seq, MinTtl) \in Nat
    BY <1>3, FreshType DEF Create, TypeOK
  <2> QED  BY <2>1, <2>2, TouchKeeps
<1>4. ASSUME NEW u \in Utxos, Restore(u)  PROVE TypeOK' /\ TouchedStaysLive'
  <2>1. FreshTtl(seq, MinTtl) \in Nat /\ FreshTtl(seq, MinTtl) >= seq
    BY FreshType DEF TypeOK
  <2>2. TypeOK'  BY <1>4, <2>1 DEF TypeOK, Restore
  <2>3. until[u] < seq  BY <1>4 DEF Restore, Readable, Live, TypeOK
  <2>4. TouchedStaysLive'
    <3> SUFFICES ASSUME NEW v \in Utxos, utxo'[v] # Absent
                 PROVE  until'[v] > touched'[v] + Threshold
      BY DEF TouchedStaysLive
    <3>1. until[v] > touched[v] + Threshold /\ touched'[v] = touched[v]
      BY <1>4 DEF Restore, TouchedStaysLive
    <3>2. until'[v] >= until[v]  BY <1>4, <2>1, <2>3 DEF Restore, TypeOK
    <3> QED  BY <3>1, <3>2, <2>2, TtlAssumption DEF TypeOK
  <2> QED  BY <2>2, <2>4
<1>5. CASE CloseLedger
  BY <1>5 DEF CloseLedger, entries, TypeOK, TouchedStaysLive
<1>6. CASE UNCHANGED vars
  BY <1>6 DEF vars, TypeOK, TouchedStaysLive
<1> QED  BY <1>1, <1>2, <1>3, <1>4, <1>5, <1>6 DEF Next

(* Type correctness of the store, for any number of UTXOs and any TTL      *)
(* settings.                                                               *)
THEOREM StoreTypeCorrect == Spec => []TypeOK
<1>1. Spec => [](TypeOK /\ TouchedStaysLive)  BY StoreInit, StoreStep, PTL DEF Spec
<1> QED  BY <1>1, PTL

(* MOON-02: balance, create and spend each keep an entry alive for more    *)
(* than Threshold ledgers.                                                 *)
THEOREM StoreTouchedStaysLive == Spec => []TouchedStaysLive
<1>1. Spec => [](TypeOK /\ TouchedStaysLive)  BY StoreInit, StoreStep, PTL DEF Spec
<1> QED  BY <1>1, PTL

(* A UTXO is created once and spent once, across archival and restoration. *)
THEOREM StoreLifecycle == Spec => Lifecycle
<1>1. TypeOK /\ [Next]_vars => [\A u \in Utxos : Forward(utxo[u], utxo'[u])]_vars
  <2> SUFFICES ASSUME TypeOK, Next, NEW v \in Utxos
               PROVE  Forward(utxo[v], utxo'[v])
    OBVIOUS
  <2>1. ASSUME NEW u \in Utxos, Spend(u)  PROVE Forward(utxo[v], utxo'[v])
    BY <2>1 DEF Spend, CanSpend, Forward, TypeOK
  <2>2. ASSUME NEW u \in Utxos, NEW a \in 1 .. MaxAmount, Create(u, a)
        PROVE  Forward(utxo[v], utxo'[v])
    BY <2>2 DEF Create, CanCreate, Forward, TypeOK, Spent
  <2>3. ASSUME utxo' = utxo  PROVE Forward(utxo[v], utxo'[v])
    BY <2>3 DEF Forward
  <2> QED  BY <2>1, <2>2, <2>3 DEF Next, Balance, Restore, CloseLedger, entries
<1> QED  BY <1>1, StoreTypeCorrect, PTL DEF Spec, Lifecycle
=============================================================================
