----------------------------- MODULE UtxoStore -----------------------------
(***************************************************************************)
(* modules/storage/src/lib.rs: one persistent entry per UTXO, holding its  *)
(* amount.  utxo[u] is what Store::balance returns for u: -1 with no       *)
(* entry, 0 for a spent one (the tombstone), and the amount otherwise.     *)
(* until[u] is the last ledger the entry is live in, seq the current       *)
(* ledger, and touched[u] (history) the last ledger in which the contract  *)
(* created, spent or observed u.                                           *)
(*                                                                         *)
(* process_bundle calls balance and then spend (or create) on each         *)
(* element.  The second extension of the TTL in one ledger changes         *)
(* nothing, so that pair is one Spend (one Create) here.                   *)
(***************************************************************************)
EXTENDS Totals, Ttl

CONSTANTS Utxos,         \* the UTXO keys (65-byte public keys)
          Threshold,     \* PERSISTENT_LIFETIME_THRESHOLD
          Bump,          \* PERSISTENT_BUMP_AMOUNT
          MinTtl,        \* the host's least TTL of a new persistent entry
          MaxLedger      \* bound: the last ledger of the model

ASSUME UtxosAssumption == IsFiniteSet(Utxos)
ASSUME TtlAssumption ==
  /\ Threshold \in Nat /\ Bump \in Nat /\ Threshold < Bump
  /\ MinTtl \in Nat \ {0}
  /\ MaxLedger \in Nat

VARIABLES utxo, until, touched, seq

entries == <<utxo, until, touched>>
vars == <<utxo, until, touched, seq>>

Absent == -1
Spent == 0

TypeOK ==
  /\ utxo \in [Utxos -> Absent .. MaxAmount]
  /\ until \in [Utxos -> Nat]
  /\ touched \in [Utxos -> Nat]
  /\ seq \in Nat

Init ==
  /\ utxo = [u \in Utxos |-> Absent]
  /\ until = [u \in Utxos |-> 0]
  /\ touched = [u \in Utxos |-> 0]
  /\ seq = 0
-----------------------------------------------------------------------------
(* bump_ttl: the last live ledger of an entry that had `last` before.      *)
Extended(last) == ExtendTtl(last, seq, Threshold, Bump)

Touch(u, last) ==
  /\ until' = [until EXCEPT ![u] = Extended(last)]
  /\ touched' = [touched EXCEPT ![u] = seq]
  /\ UNCHANGED seq

(* Reading u goes through only when there is no entry or it is live.       *)
Readable(u) == utxo[u] = Absent \/ Live(until[u], seq)

(* Here and below, a definition that no other definition uses is a slip    *)
(* the code could have made, in the place of the definition that follows:  *)
(* the properties are shown to fail with it.                               *)
BalanceNoBump(u) ==
  /\ Readable(u)
  /\ utxo[u] # Absent
  /\ touched' = [touched EXCEPT ![u] = seq]
  /\ UNCHANGED <<utxo, until, seq>>

(* Store::balance of an existing entry.  With no entry nothing changes.    *)
Balance(u) ==
  /\ Readable(u)
  /\ utxo[u] # Absent
  /\ Touch(u, until[u])
  /\ UNCHANGED utxo

CanCreateOverTombstone(u, amount) == amount > 0 /\ Readable(u) /\ utxo[u] <= Spent

(* What Store::create checks: any record, spent ones too, blocks it.       *)
CanCreate(u, amount) == amount > 0 /\ utxo[u] = Absent

CreateCredits(u, amount) ==
  /\ amount > 0 /\ Readable(u)
  /\ utxo' = [utxo EXCEPT ![u] = (IF @ = Absent THEN 0 ELSE @) + amount]
  /\ Touch(u, FreshTtl(seq, MinTtl))

(* Store::create.                                                          *)
Create(u, amount) ==
  /\ CanCreate(u, amount)
  /\ utxo' = [utxo EXCEPT ![u] = amount]
  /\ Touch(u, FreshTtl(seq, MinTtl))

CanSpend(u) == Readable(u) /\ utxo[u] > Spent

SpendRemoves(u) ==
  /\ CanSpend(u)
  /\ utxo' = [utxo EXCEPT ![u] = Absent]
  /\ Touch(u, until[u])

(* Store::spend: the entry stays, as a tombstone.                          *)
Spend(u) ==
  /\ CanSpend(u)
  /\ utxo' = [utxo EXCEPT ![u] = Spent]
  /\ Touch(u, until[u])
-----------------------------------------------------------------------------
(* The host (external): ledgers close, and an archived entry can be        *)
(* restored with the value it had.                                         *)
CloseLedger ==
  /\ seq < MaxLedger
  /\ seq' = seq + 1
  /\ UNCHANGED entries

Restore(u) ==
  /\ ~ Readable(u)
  /\ until' = [until EXCEPT ![u] = FreshTtl(seq, MinTtl)]
  /\ UNCHANGED <<utxo, touched, seq>>

Next ==
  \/ \E u \in Utxos : \/ Balance(u)
                      \/ Spend(u)
                      \/ Restore(u)
                      \/ \E a \in 1 .. MaxAmount : Create(u, a)
  \/ CloseLedger

Spec == Init /\ [][Next]_vars
-----------------------------------------------------------------------------
(* A UTXO is created at most once and spent at most once: its record only  *)
(* goes from absent to unspent to spent, keeps its amount while unspent,   *)
(* and no archival or restoration in between undoes it (create's           *)
(* "including a spent record, which can never be recreated").              *)
Forward(before, after) ==
  \/ after = before
  \/ before = Absent /\ after > Spent
  \/ before > Spent /\ after = Spent

Lifecycle == [][\A u \in Utxos : Forward(utxo[u], utxo'[u])]_vars

(* "A holder keeps their own UTXO alive simply by observing it": an entry  *)
(* touched at most Threshold + 1 ledgers ago (29 days and a ledger) is     *)
(* never archived, whichever of create, spend and balance touched it, and  *)
(* even when the TTL it had at that moment was just above the threshold    *)
(* and the host therefore did not extend it.                               *)
TouchedStaysLive ==
  \A u \in Utxos : utxo[u] # Absent => until[u] > touched[u] + Threshold

=============================================================================
