------------------------------- MODULE Token -------------------------------
(***************************************************************************)
(* contracts/token: the asset of a channel in the repository's tests.  A   *)
(* balance is a persistent entry, an allowance a temporary one (it is gone *)
(* once its TTL has passed), the administrator lives in the instance.      *)
(*                                                                         *)
(* Every operation is one step: a call that panics changes nothing.  `by`  *)
(* is who authorizes the call (require_auth).  Metadata and events are     *)
(* left out.  A definition before the properties that no other definition  *)
(* uses is a slip the code could have made, in the place of the one that   *)
(* follows.                                                                *)
(***************************************************************************)
EXTENDS Totals, Ttl

CONSTANTS Accounts,       \* the addresses that hold balances
          Spenders,       \* the addresses that are given allowances
          FirstAdmin,     \* the administrator of the deployment
          Threshold,      \* BALANCE_LIFETIME_THRESHOLD
          Bump,           \* BALANCE_BUMP_AMOUNT
          InstThreshold,  \* INSTANCE_LIFETIME_THRESHOLD
          InstBump,       \* INSTANCE_BUMP_AMOUNT
          MinTtl,         \* the host's least TTL of a persistent entry
          MinTempTtl,     \* and of a temporary one
          MaxTtl,         \* the host's greatest TTL
          MaxLedger       \* bound: the last ledger of the model

ASSUME TokenAccountsAssumption ==
  IsFiniteSet(Accounts) /\ FirstAdmin \in Accounts /\ Spenders \subseteq Accounts
ASSUME TokenTtlAssumption ==
  /\ Threshold \in Nat /\ Bump \in Nat /\ Threshold < Bump
  /\ InstThreshold \in Nat /\ InstBump \in Nat /\ InstThreshold < InstBump
  /\ MinTtl \in Nat \ {0} /\ MinTempTtl \in Nat \ {0} /\ MaxTtl \in Nat \ {0}
  /\ MaxLedger \in Nat

VARIABLES
  acct,      \* the balance of each account and the last ledger it is live in
  allow,     \* the same for each allowance, with its expiration_ledger
  admin, inst, seq,
  issued,    \* history: minted less burned
  grant      \* history: each allowance as approved, less what was used of it

vars == <<acct, allow, admin, inst, seq, issued, grant>>

Never == -1                    \* the TTL of an entry that was never written
Ledgers == 0 .. MaxLedger
AllowanceDataKey == Accounts \X Spenders
Inputs == -1 .. MaxAmount      \* the amounts of the calls, a negative one among them

Init ==
  /\ acct = [a \in Accounts |-> [amount |-> 0, until |-> Never]]
  /\ allow = [k \in AllowanceDataKey |-> [amount |-> 0, exp |-> 0, until |-> Never]]
  /\ admin = FirstAdmin
  /\ inst = FreshTtl(0, MinTtl)
  /\ seq = 0
  /\ issued = 0
  /\ grant = [k \in AllowanceDataKey |-> [amount |-> 0, exp |-> 0]]

TypeOK ==
  /\ acct \in [Accounts -> [amount : 0 .. MaxAmount, until : Nat \cup {Never}]]
  /\ allow \in [AllowanceDataKey ->
                  [amount : 0 .. MaxAmount, exp : Ledgers, until : Nat \cup {Never}]]
  /\ admin \in Accounts
  /\ inst \in Nat /\ seq \in Ledgers
  /\ issued \in Nat
  /\ grant \in [AllowanceDataKey -> [amount : 0 .. MaxAmount, exp : Ledgers]]
-----------------------------------------------------------------------------
CheckNonnegativeAny(amount) == TRUE

CheckNonnegativeAmount(amount) == amount >= 0

(* Every entry point but the constructor and the metadata's getters.       *)
BumpInstance ==
  /\ Live(inst, seq)
  /\ inst' = ExtendTtl(inst, seq, InstThreshold, InstBump)

(* The balances, as functions of the accounts a, so that the second of two *)
(* writes reads what the first has left.  The host refuses to read or to   *)
(* overwrite an archived entry; reading one extends its TTL as writing it  *)
(* does, so a read before a write shows in the write alone.                *)
Readable(e) == e.until = Never \/ Live(e.until, seq)

ReadBalance(a, x) ==
  IF a[x].until = Never THEN a
  ELSE [a EXCEPT ![x].until = ExtendTtl(@, seq, Threshold, Bump)]

WriteBalance(a, x, amount) ==
  LET last == IF a[x].until = Never THEN FreshTtl(seq, MinTtl) ELSE a[x].until
  IN  [a EXCEPT ![x] = [amount |-> amount, until |-> ExtendTtl(last, seq, Threshold, Bump)]]

CanReceive(a, x, amount) == Readable(a[x]) /\ a[x].amount + amount <= MaxAmount
ReceiveBalance(a, x, amount) == WriteBalance(a, x, a[x].amount + amount)

CanSpend(a, x, amount) == Readable(a[x]) /\ a[x].amount >= amount
SpendBalance(a, x, amount) == WriteBalance(a, x, a[x].amount - amount)

(* The allowances.                                                         *)
ReadAllowance(k) ==
  IF Live(allow[k].until, seq) /\ allow[k].exp >= seq THEN allow[k].amount ELSE 0

WriteAllowanceUnextended(k, amount, exp) ==
  /\ amount > 0 => exp >= seq /\ exp - seq < MaxTtl
  /\ LET last == IF Live(allow[k].until, seq) THEN allow[k].until ELSE FreshTtl(seq, MinTempTtl)
     IN  allow' = [allow EXCEPT ![k] = [amount |-> amount, exp |-> exp, until |-> last]]

(* extend_ttl(live_for, live_for), which the host refuses beyond its       *)
(* greatest TTL.  A set of a live entry keeps its TTL.                     *)
WriteAllowance(k, amount, exp) ==
  /\ amount > 0 => exp >= seq /\ exp - seq < MaxTtl
  /\ LET last == IF Live(allow[k].until, seq) THEN allow[k].until ELSE FreshTtl(seq, MinTempTtl)
     IN  allow' = [allow EXCEPT ![k] =
                     [amount |-> amount, exp |-> exp,
                      until |-> IF amount > 0 THEN ExtendTtl(last, seq, exp - seq, exp - seq)
                                ELSE last]]

SpendAllowance(k, amount) ==
  /\ ReadAllowance(k) >= amount
  /\ IF amount > 0 THEN WriteAllowance(k, ReadAllowance(k) - amount, allow[k].exp)
                   ELSE UNCHANGED allow
  /\ grant' = [grant EXCEPT ![k].amount = @ - amount]
-----------------------------------------------------------------------------
Mint(by, to, amount) ==
  /\ CheckNonnegativeAmount(amount)
  /\ by = admin
  /\ BumpInstance
  /\ CanReceive(acct, to, amount)
  /\ acct' = ReceiveBalance(acct, to, amount)
  /\ issued' = issued + amount
  /\ UNCHANGED <<allow, admin, seq, grant>>

SetAdmin(by, new) ==
  /\ by = admin
  /\ BumpInstance
  /\ admin' = new
  /\ UNCHANGED <<acct, allow, seq, issued, grant>>

Approve(from, spender, amount, exp) ==
  /\ CheckNonnegativeAmount(amount)
  /\ BumpInstance
  /\ WriteAllowance(<<from, spender>>, amount, exp)
  /\ grant' = [grant EXCEPT ![<<from, spender>>] = [amount |-> amount, exp |-> exp]]
  /\ UNCHANGED <<acct, admin, seq, issued>>

MovedStale(from, to, amount) ==
  WriteBalance(SpendBalance(acct, from, amount), to, acct[to].amount + amount)

(* The balances after a transfer, and whether it goes through.             *)
Moved(from, to, amount) == ReceiveBalance(SpendBalance(acct, from, amount), to, amount)
CanMove(from, to, amount) ==
  CanSpend(acct, from, amount) /\ CanReceive(SpendBalance(acct, from, amount), to, amount)

Transfer(from, to, amount) ==
  /\ CheckNonnegativeAmount(amount)
  /\ BumpInstance
  /\ CanMove(from, to, amount)
  /\ acct' = Moved(from, to, amount)
  /\ UNCHANGED <<allow, admin, seq, issued, grant>>

TransferFrom(spender, from, to, amount) ==
  /\ CheckNonnegativeAmount(amount)
  /\ BumpInstance
  /\ SpendAllowance(<<from, spender>>, amount)
  /\ CanMove(from, to, amount)
  /\ acct' = Moved(from, to, amount)
  /\ UNCHANGED <<admin, seq, issued>>

Burn(from, amount) ==
  /\ CheckNonnegativeAmount(amount)
  /\ BumpInstance
  /\ CanSpend(acct, from, amount)
  /\ acct' = SpendBalance(acct, from, amount)
  /\ issued' = issued - amount
  /\ UNCHANGED <<allow, admin, seq, grant>>

BurnFrom(spender, from, amount) ==
  /\ CheckNonnegativeAmount(amount)
  /\ BumpInstance
  /\ SpendAllowance(<<from, spender>>, amount)
  /\ CanSpend(acct, from, amount)
  /\ acct' = SpendBalance(acct, from, amount)
  /\ issued' = issued - amount
  /\ UNCHANGED <<admin, seq>>

(* The views balance and allowance, which extend TTLs.                     *)
Balance(x) ==
  /\ BumpInstance
  /\ Readable(acct[x])
  /\ acct' = ReadBalance(acct, x)
  /\ UNCHANGED <<allow, admin, seq, issued, grant>>

Allowance(k) ==
  /\ BumpInstance
  /\ UNCHANGED <<acct, allow, admin, seq, issued, grant>>
-----------------------------------------------------------------------------
(* The host (external).                                                    *)
CloseLedger ==
  /\ seq < MaxLedger
  /\ seq' = seq + 1
  /\ UNCHANGED <<acct, allow, admin, inst, issued, grant>>

Restore(x) ==
  /\ ~ Readable(acct[x])
  /\ acct' = [acct EXCEPT ![x].until = FreshTtl(seq, MinTtl)]
  /\ UNCHANGED <<allow, admin, inst, seq, issued, grant>>

RestoreInstance ==
  /\ ~ Live(inst, seq)
  /\ inst' = FreshTtl(seq, MinTtl)
  /\ UNCHANGED <<acct, allow, admin, seq, issued, grant>>

Next ==
  \/ \E a, b \in Accounts : SetAdmin(a, b)
  \/ \E a, b \in Accounts, n \in Inputs : Mint(a, b, n) \/ Transfer(a, b, n)
  \/ \E a \in Accounts, n \in Inputs : Burn(a, n)
  \/ \E a \in Accounts, s \in Spenders, n \in Inputs :
       \/ \E exp \in Ledgers : Approve(a, s, n, exp)
       \/ \E b \in Accounts : TransferFrom(s, a, b, n)
       \/ BurnFrom(s, a, n)
  \/ \E a \in Accounts : Balance(a) \/ Restore(a)
  \/ \E k \in AllowanceDataKey : Allowance(k)
  \/ CloseLedger \/ RestoreInstance

Spec == Init /\ [][Next]_vars
-----------------------------------------------------------------------------
(* No operation makes or loses a unit: the balances add up to what was     *)
(* minted less what was burned, whoever sends to whom (to themselves too)  *)
(* and whichever entry is archived in the middle of it.                    *)
Conserved == Total([a \in Accounts |-> acct[a].amount], Accounts) = issued

(* An allowance is good for exactly what was approved less what was used,  *)
(* in every ledger up to its expiration and in none after it: the TTL of   *)
(* the entry neither cuts it short nor keeps it alive, through renewals    *)
(* with an earlier or a later expiration and through partial use.          *)
AllowanceHonoured ==
  \A k \in AllowanceDataKey :
    ReadAllowance(k) = IF grant[k].exp >= seq THEN grant[k].amount ELSE 0
=============================================================================
