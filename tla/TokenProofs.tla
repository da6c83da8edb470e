---------------------------- MODULE TokenProofs ----------------------------
(***************************************************************************)
(* The token makes and loses no unit outside mint and burn, and honours    *)
(* its allowances to the ledger, for any set of accounts, any integer      *)
(* width and any TTL settings.                                             *)
(*                                                                         *)
(* AllowanceHonoured reads an allowance as the contract does; Granted says *)
(* what is stored: what was approved and not used, under an entry that     *)
(* lives to the expiration as long as anything is left.  That issued stays *)
(* a natural number is a consequence of Conserved.                         *)
(***************************************************************************)
EXTENDS Token, OperatorTheorems, TLAPS

Account == [amount : 0 .. MaxAmount, until : Nat \cup {Never}]
AccountType == [Accounts -> Account]
BalancesOf(a) == [x \in Accounts |-> a[x].amount]

Granted ==
  \A k \in AllowanceDataKey :
    /\ allow[k].amount = grant[k].amount /\ allow[k].exp = grant[k].exp
    /\ allow[k].amount > 0 => allow[k].until >= allow[k].exp

TokenInv == TypeOK /\ Conserved /\ Granted
-----------------------------------------------------------------------------
LEMMA TokenConstants ==
  /\ MaxAmount \in Nat /\ MaxLedger \in Nat
  /\ Threshold \in Nat /\ Bump \in Nat /\ Threshold < Bump
  /\ InstThreshold \in Nat /\ InstBump \in Nat
  /\ MinTtl \in Nat \ {0} /\ MinTempTtl \in Nat \ {0}
BY MaxAmountAssumption, TokenTtlAssumption

LEMMA ExtendTtlNat ==
  ASSUME NEW until \in Nat, NEW now \in Nat, NEW t \in Nat, NEW b \in Nat
  PROVE  ExtendTtl(until, now, t, b) \in Nat
BY DEF ExtendTtl

LEMMA FreshTtlNat ==
  ASSUME NEW now \in Nat, NEW min \in Nat \ {0}
  PROVE  FreshTtl(now, min) \in Nat
BY DEF FreshTtl

LEMMA BumpInstanceType ==
  ASSUME TypeOK, BumpInstance
  PROVE  inst' \in Nat
BY TokenConstants, ExtendTtlNat DEF TypeOK, Ledgers, BumpInstance

(* write_balance changes one balance, and the total by the difference.     *)
LEMMA WriteBalanceTotal ==
  ASSUME seq \in Nat, NEW a \in AccountType, NEW x \in Accounts, NEW n \in 0 .. MaxAmount
  PROVE  /\ WriteBalance(a, x, n) \in AccountType
         /\ WriteBalance(a, x, n)[x].amount = n
         /\ \A y \in Accounts : y # x => WriteBalance(a, x, n)[y] = a[y]
         /\ Total(BalancesOf(WriteBalance(a, x, n)), Accounts) =
              Total(BalancesOf(a), Accounts) - a[x].amount + n
<1> DEFINE w == WriteBalance(a, x, n)
<1>1. MaxAmount \in Nat /\ IsFiniteSet(Accounts)
  BY TokenConstants, TokenAccountsAssumption
<1>2. PICK last \in Nat :
        w = [a EXCEPT ![x] = [amount |-> n, until |-> ExtendTtl(last, seq, Threshold, Bump)]]
  <2>1. FreshTtl(seq, MinTtl) \in Nat  BY FreshTtlNat, TokenConstants
  <2>2. a[x].until \in Nat \cup {Never}  BY DEF AccountType, Account
  <2>3. CASE a[x].until = Never  BY <2>1, <2>3 DEF WriteBalance
  <2>4. CASE a[x].until # Never  BY <2>2, <2>4 DEF WriteBalance
  <2> QED  BY <2>3, <2>4
<1>3. ExtendTtl(last, seq, Threshold, Bump) \in Nat  BY ExtendTtlNat, TokenConstants
<1>4. w \in AccountType /\ w[x].amount = n /\ \A y \in Accounts : y # x => w[y] = a[y]
  BY <1>2, <1>3 DEF AccountType, Account
<1> DEFINE f == BalancesOf(a)
           g == BalancesOf(w)
<1> HIDE DEF w
<1>5. f \in [Accounts -> 0 .. MaxAmount] /\ g \in [Accounts -> 0 .. MaxAmount]
  BY <1>4 DEF AccountType, Account, BalancesOf
<1>6. f[x] = a[x].amount /\ g[x] = n /\ \A y \in Accounts \ {x} : f[y] = g[y]
  BY <1>4 DEF BalancesOf
<1>7. Total(g, Accounts) = Total(f, Accounts) - Pos(f[x]) + Pos(g[x])
  <2>1. f \in [Accounts -> -1 .. MaxAmount] /\ g \in [Accounts -> -1 .. MaxAmount]
    BY <1>1, <1>5
  <2> HIDE DEF f, g
  <2> QED  BY <1>1, <1>6, <2>1, TotalUpdate, Zenon
<1>8. Pos(f[x]) = a[x].amount /\ Pos(g[x]) = n
  BY <1>1, <1>5, <1>6 DEF Pos
<1>9. Total(g, Accounts) = Total(f, Accounts) - a[x].amount + n  BY <1>7, <1>8
<1> QED  BY <1>4, <1>9 DEF w

(* receive_balance and spend_balance, when they go through.                *)
LEMMA ReceiveTotal ==
  ASSUME seq \in Nat, NEW a \in AccountType, NEW x \in Accounts, NEW n \in Nat,
         CanReceive(a, x, n)
  PROVE  /\ ReceiveBalance(a, x, n) \in AccountType
         /\ Total(BalancesOf(ReceiveBalance(a, x, n)), Accounts) =
              Total(BalancesOf(a), Accounts) + n
<1>1. a[x].amount \in Nat /\ a[x].amount + n \in 0 .. MaxAmount
  BY TokenConstants DEF CanReceive, AccountType, Account
<1>2. Total(BalancesOf(a), Accounts) \in Nat  BY TotalType, TokenAccountsAssumption
<1> QED  BY <1>1, <1>2, WriteBalanceTotal DEF ReceiveBalance

LEMMA SpendTotal ==
  ASSUME seq \in Nat, NEW a \in AccountType, NEW x \in Accounts, NEW n \in Nat,
         CanSpend(a, x, n)
  PROVE  /\ SpendBalance(a, x, n) \in AccountType
         /\ Total(BalancesOf(SpendBalance(a, x, n)), Accounts) =
              Total(BalancesOf(a), Accounts) - n
<1>1. a[x].amount \in Nat /\ a[x].amount - n \in 0 .. MaxAmount
  BY TokenConstants DEF CanSpend, AccountType, Account
<1>2. Total(BalancesOf(a), Accounts) \in Nat  BY TotalType, TokenAccountsAssumption
<1> QED  BY <1>1, <1>2, WriteBalanceTotal DEF SpendBalance

(* A transfer keeps the total, from an account to itself, too.             *)
LEMMA MovedTotal ==
  ASSUME TypeOK, NEW from \in Accounts, NEW to \in Accounts, NEW n \in Nat,
         CanMove(from, to, n)
  PROVE  /\ Moved(from, to, n) \in AccountType
         /\ Total(BalancesOf(Moved(from, to, n)), Accounts) =
              Total(BalancesOf(acct), Accounts)
<1> DEFINE s == SpendBalance(acct, from, n)
<1>1. seq \in Nat /\ acct \in AccountType
  BY TokenConstants DEF TypeOK, Ledgers, AccountType, Account
<1>2. /\ s \in AccountType
      /\ Total(BalancesOf(s), Accounts) = Total(BalancesOf(acct), Accounts) - n
  BY <1>1, SpendTotal DEF CanMove
<1>3. CanReceive(s, to, n)  BY DEF CanMove
<1> HIDE DEF s
<1>4. /\ ReceiveBalance(s, to, n) \in AccountType
      /\ Total(BalancesOf(ReceiveBalance(s, to, n)), Accounts) = Total(BalancesOf(s), Accounts) + n
  BY <1>1, <1>2, <1>3, ReceiveTotal
<1>5. Total(BalancesOf(acct), Accounts) \in Nat  BY TotalType, TokenAccountsAssumption
<1> QED  BY <1>2, <1>4, <1>5 DEF Moved, s
-----------------------------------------------------------------------------
AllowanceType ==
  /\ allow \in [AllowanceDataKey ->
                  [amount : 0 .. MaxAmount, exp : Ledgers, until : Nat \cup {Never}]]
  /\ grant \in [AllowanceDataKey -> [amount : 0 .. MaxAmount, exp : Ledgers]]

(* The books and the allowances are kept apart: a step keeps the invariant *)
(* when it keeps both.                                                     *)
LEMMA BooksAndAllowances ==
  ASSUME TokenInv,
         inst' \in Nat, seq' = seq, admin' \in Accounts,
         acct' \in AccountType, Total(BalancesOf(acct'), Accounts) = issued',
         AllowanceType', Granted'
  PROVE  TokenInv'
<1>1. issued' \in Nat  BY TotalType, TokenAccountsAssumption
<1>2. TypeOK'
  BY <1>1 DEF TokenInv, TypeOK, AllowanceType, AccountType, Account
<1>3. Conserved'  BY DEF Conserved, BalancesOf
<1> QED  BY <1>2, <1>3 DEF TokenInv

(* What the invariant says of the present.                                 *)
LEMMA TokenFacts ==
  ASSUME TokenInv
  PROVE  /\ seq \in Nat /\ seq \in Ledgers /\ inst \in Nat /\ admin \in Accounts
         /\ acct \in AccountType /\ issued \in Nat
         /\ Total(BalancesOf(acct), Accounts) = issued
         /\ AllowanceType /\ Granted
BY TokenConstants
   DEF TokenInv, TypeOK, Ledgers, AccountType, Account, AllowanceType, Conserved, BalancesOf

(* write_allowance: the entry lives to the expiration, whether its TTL was *)
(* extended or was longer already.                                         *)
LEMMA WriteAllowanceGrants ==
  ASSUME TokenInv, NEW k \in AllowanceDataKey, NEW n \in 0 .. MaxAmount, NEW exp \in Ledgers,
         WriteAllowance(k, n, exp), seq' = seq,
         grant' = [grant EXCEPT ![k] = [amount |-> n, exp |-> exp]]
  PROVE  AllowanceType' /\ Granted'
<1>1. seq \in Nat /\ exp \in Nat /\ AllowanceType /\ Granted
  BY TokenFacts, TokenConstants DEF Ledgers
<1>2. PICK last \in Nat :
        allow' = [allow EXCEPT ![k] =
                    [amount |-> n, exp |-> exp,
                     until |-> IF n > 0 THEN ExtendTtl(last, seq, exp - seq, exp - seq) ELSE last]]
  <2>1. FreshTtl(seq, MinTempTtl) \in Nat  BY <1>1, FreshTtlNat, TokenConstants
  <2>2. allow[k].until \in Nat \cup {Never}  BY <1>1 DEF AllowanceType
  <2>3. CASE Live(allow[k].until, seq)
    <3>1. allow[k].until \in Nat  BY <1>1, <2>2, <2>3 DEF Live, Never
    <3> QED  BY <2>3, <3>1 DEF WriteAllowance
  <2>4. CASE ~ Live(allow[k].until, seq)  BY <2>1, <2>4 DEF WriteAllowance
  <2> QED  BY <2>3, <2>4
<1> DEFINE until2 == IF n > 0 THEN ExtendTtl(last, seq, exp - seq, exp - seq) ELSE last
<1>3. until2 \in Nat /\ (n > 0 => until2 >= exp)
  <2>1. n > 0 => exp >= seq  BY DEF WriteAllowance
  <2> QED  BY <1>1, <2>1 DEF ExtendTtl
<1>4. /\ allow' = [allow EXCEPT ![k] = [amount |-> n, exp |-> exp, until |-> until2]]
  BY <1>2
<1> HIDE DEF until2
<1>5. AllowanceType'  BY <1>1, <1>3, <1>4 DEF AllowanceType
<1>6. Granted'
  <2> SUFFICES ASSUME NEW j \in AllowanceDataKey
               PROVE  /\ allow'[j].amount = grant'[j].amount /\ allow'[j].exp = grant'[j].exp
                      /\ allow'[j].amount > 0 => allow'[j].until >= allow'[j].exp
    BY DEF Granted
  <2>1. CASE j = k  BY <1>1, <1>3, <1>4, <2>1 DEF AllowanceType
  <2>2. CASE j # k
    <3>1. allow'[j] = allow[j] /\ grant'[j] = grant[j]  BY <1>1, <1>4, <2>2 DEF AllowanceType
    <3> QED  BY <1>1, <3>1 DEF Granted
  <2> QED  BY <2>1, <2>2
<1> QED  BY <1>5, <1>6

(* What the contract reads is what was granted and not used.               *)
LEMMA ReadsWhatIsGranted ==
  ASSUME TokenInv, NEW k \in AllowanceDataKey
  PROVE  ReadAllowance(k) = IF grant[k].exp >= seq THEN grant[k].amount ELSE 0
<1>1. /\ seq \in Nat /\ allow[k].amount \in Nat /\ allow[k].exp \in Nat
      /\ allow[k].until \in Nat \cup {Never}
      /\ allow[k].amount = grant[k].amount /\ allow[k].exp = grant[k].exp
      /\ allow[k].amount > 0 => allow[k].until >= allow[k].exp
  BY TokenFacts, TokenConstants DEF AllowanceType, Ledgers, Granted
<1> QED  BY <1>1 DEF ReadAllowance, Live, Never

(* spend_allowance takes what is used off the allowance and its grant      *)
(* alike.  Using nothing writes nothing.                                   *)
LEMMA SpendAllowanceGrants ==
  ASSUME TokenInv, NEW k \in AllowanceDataKey, NEW n \in Nat, SpendAllowance(k, n), seq' = seq
  PROVE  AllowanceType' /\ Granted'
<1>1. /\ seq \in Nat /\ AllowanceType /\ Granted
  BY TokenFacts
<1>2. /\ grant[k] \in [amount : 0 .. MaxAmount, exp : Ledgers] /\ allow[k].exp = grant[k].exp
      /\ grant[k].amount \in 0 .. MaxAmount /\ grant[k].exp \in Ledgers
      /\ MaxAmount \in Nat /\ Ledgers \subseteq Nat
  BY <1>1, TokenConstants DEF AllowanceType, Granted, Ledgers
<1>3. CASE n = 0
  <2>1. grant' = grant
    <3>1. grant' = [grant EXCEPT ![k].amount = grant[k].amount - 0]
      BY <1>3 DEF SpendAllowance
    <3>2. grant[k].amount - 0 = grant[k].amount  BY <1>2
    <3>3. grant' = [grant EXCEPT ![k].amount = grant[k].amount]  BY <3>1, <3>2
    <3> QED  BY <1>1, <1>2, <3>3 DEF AllowanceType
  <2>2. allow' = allow  BY <1>3 DEF SpendAllowance
  <2> QED  BY <1>1, <2>1, <2>2 DEF AllowanceType, Granted
<1>4. CASE n > 0
  <2>1. ReadAllowance(k) >= n  BY DEF SpendAllowance
  <2>2. ReadAllowance(k) = grant[k].amount  BY <1>2, <1>4, <2>1, ReadsWhatIsGranted
  <2>3. grant[k].amount - n \in 0 .. MaxAmount  BY <1>2, <1>4, <2>1, <2>2
  <2>4. WriteAllowance(k, grant[k].amount - n, grant[k].exp)
    BY <1>2, <1>4, <2>2 DEF SpendAllowance
  <2>5. grant' = [grant EXCEPT ![k] = [amount |-> grant[k].amount - n, exp |-> grant[k].exp]]
    <3>1. grant' = [grant EXCEPT ![k] = [grant[k] EXCEPT !.amount = grant[k].amount - n]]
      BY <1>1 DEF SpendAllowance, AllowanceType
    <3>2. [grant[k] EXCEPT !.amount = grant[k].amount - n] =
            [amount |-> grant[k].amount - n, exp |-> grant[k].exp]
      BY <1>2
    <3> QED  BY <3>1, <3>2
  <2> QED  BY <1>2, <2>3, <2>4, <2>5, WriteAllowanceGrants
<1> QED  BY <1>3, <1>4
-----------------------------------------------------------------------------
(* Before the first mint there is nothing on the books.                    *)
LEMMA TokenInit ==
  ASSUME Init
  PROVE  TokenInv
<1>1. IsFiniteSet(Accounts) /\ FirstAdmin \in Accounts /\ MaxAmount \in Nat /\ 0 \in Ledgers
  BY TokenAccountsAssumption, TokenConstants DEF Ledgers
<1>2. FreshTtl(0, MinTtl) \in Nat  BY FreshTtlNat, TokenConstants
<1>3. acct \in [Accounts -> Account]  BY <1>1 DEF Init, Account, Never
<1>4. AllowanceType  BY <1>1 DEF Init, AllowanceType, Never
<1>5. TypeOK  BY <1>1, <1>2, <1>3, <1>4 DEF Init, TypeOK, Account, AllowanceType
<1>6. Conserved
  <2> DEFINE f == [a \in Accounts |-> acct[a].amount]
  <2>1. \A a \in Accounts : f[a] = 0  BY DEF Init
  <2> HIDE DEF f
  <2>2. Units(f, Accounts) = {}
    <3>1. \A c \in Accounts \X (1 .. MaxAmount) : ~ (c[2] <= f[c[1]])  BY <1>1, <2>1
    <3> QED  BY <3>1 DEF Units
  <2>3. Total(f, Accounts) = 0  BY <2>2, FS_EmptySet DEF Total
  <2> QED  BY <2>3 DEF Conserved, Init, f
<1>7. Granted  BY DEF Init, Granted
<1> QED  BY <1>5, <1>6, <1>7 DEF TokenInv

LEMMA AllowancesKept ==
  ASSUME TokenInv, UNCHANGED <<allow, grant>>
  PROVE  AllowanceType' /\ Granted'
BY TokenFacts DEF AllowanceType, Granted

LEMMA MintInv ==
  ASSUME TokenInv, NEW by \in Accounts, NEW to \in Accounts, NEW n \in Inputs, Mint(by, to, n)
  PROVE  TokenInv'
<1>1. n \in Nat  BY TokenConstants DEF Mint, CheckNonnegativeAmount, Inputs
<1>2. inst' \in Nat  BY BumpInstanceType DEF Mint, TokenInv
<1>3. /\ acct' \in AccountType
      /\ Total(BalancesOf(acct'), Accounts) = Total(BalancesOf(acct), Accounts) + n
  BY <1>1, TokenFacts, ReceiveTotal DEF Mint
<1>4. issued' = issued + n /\ seq' = seq /\ admin' = admin /\ UNCHANGED <<allow, grant>>
  BY DEF Mint
<1> QED  BY <1>2, <1>3, <1>4, TokenFacts, AllowancesKept, BooksAndAllowances

LEMMA TransferInv ==
  ASSUME TokenInv, NEW from \in Accounts, NEW to \in Accounts, NEW n \in Inputs,
         Transfer(from, to, n)
  PROVE  TokenInv'
<1>1. n \in Nat  BY TokenConstants DEF Transfer, CheckNonnegativeAmount, Inputs
<1>2. inst' \in Nat  BY BumpInstanceType DEF Transfer, TokenInv
<1>3. /\ acct' \in AccountType
      /\ Total(BalancesOf(acct'), Accounts) = Total(BalancesOf(acct), Accounts)
  BY <1>1, MovedTotal DEF Transfer, TokenInv
<1>4. issued' = issued /\ seq' = seq /\ admin' = admin /\ UNCHANGED <<allow, grant>>
  BY DEF Transfer
<1> QED  BY <1>2, <1>3, <1>4, TokenFacts, AllowancesKept, BooksAndAllowances

LEMMA BurnInv ==
  ASSUME TokenInv, NEW from \in Accounts, NEW n \in Inputs, Burn(from, n)
  PROVE  TokenInv'
<1>1. n \in Nat  BY TokenConstants DEF Burn, CheckNonnegativeAmount, Inputs
<1>2. inst' \in Nat  BY BumpInstanceType DEF Burn, TokenInv
<1>3. /\ acct' \in AccountType
      /\ Total(BalancesOf(acct'), Accounts) = Total(BalancesOf(acct), Accounts) - n
  BY <1>1, TokenFacts, SpendTotal DEF Burn
<1>4. issued' = issued - n /\ seq' = seq /\ admin' = admin /\ UNCHANGED <<allow, grant>>
  BY DEF Burn
<1> QED  BY <1>2, <1>3, <1>4, TokenFacts, AllowancesKept, BooksAndAllowances

LEMMA ApproveInv ==
  ASSUME TokenInv, NEW from \in Accounts, NEW s \in Spenders, NEW n \in Inputs,
         NEW exp \in Ledgers, Approve(from, s, n, exp)
  PROVE  TokenInv'
<1>1. n \in 0 .. MaxAmount  BY TokenConstants DEF Approve, CheckNonnegativeAmount, Inputs
<1>2. inst' \in Nat  BY BumpInstanceType DEF Approve, TokenInv
<1>3. UNCHANGED <<acct, admin, seq, issued>>  BY DEF Approve
<1>4. <<from, s>> \in AllowanceDataKey  BY DEF AllowanceDataKey
<1>5. AllowanceType' /\ Granted'  BY <1>1, <1>3, <1>4, WriteAllowanceGrants DEF Approve
<1> QED  BY <1>2, <1>3, <1>5, TokenFacts, BooksAndAllowances

LEMMA TransferFromInv ==
  ASSUME TokenInv, NEW s \in Spenders, NEW from \in Accounts, NEW to \in Accounts,
         NEW n \in Inputs, TransferFrom(s, from, to, n)
  PROVE  TokenInv'
<1>1. n \in Nat  BY TokenConstants DEF TransferFrom, CheckNonnegativeAmount, Inputs
<1>2. inst' \in Nat  BY BumpInstanceType DEF TransferFrom, TokenInv
<1>3. /\ acct' \in AccountType
      /\ Total(BalancesOf(acct'), Accounts) = Total(BalancesOf(acct), Accounts)
  BY <1>1, MovedTotal DEF TransferFrom, TokenInv
<1>4. UNCHANGED <<admin, seq, issued>>  BY DEF TransferFrom
<1>5. <<from, s>> \in AllowanceDataKey  BY DEF AllowanceDataKey
<1>6. AllowanceType' /\ Granted'  BY <1>1, <1>4, <1>5, SpendAllowanceGrants DEF TransferFrom
<1> QED  BY <1>2, <1>3, <1>4, <1>6, TokenFacts, BooksAndAllowances

LEMMA BurnFromInv ==
  ASSUME TokenInv, NEW s \in Spenders, NEW from \in Accounts, NEW n \in Inputs,
         BurnFrom(s, from, n)
  PROVE  TokenInv'
<1>1. n \in Nat  BY TokenConstants DEF BurnFrom, CheckNonnegativeAmount, Inputs
<1>2. inst' \in Nat  BY BumpInstanceType DEF BurnFrom, TokenInv
<1>3. /\ acct' \in AccountType
      /\ Total(BalancesOf(acct'), Accounts) = Total(BalancesOf(acct), Accounts) - n
  BY <1>1, TokenFacts, SpendTotal DEF BurnFrom
<1>4. issued' = issued - n /\ UNCHANGED <<admin, seq>>  BY DEF BurnFrom
<1>5. <<from, s>> \in AllowanceDataKey  BY DEF AllowanceDataKey
<1>6. AllowanceType' /\ Granted'  BY <1>1, <1>4, <1>5, SpendAllowanceGrants DEF BurnFrom
<1> QED  BY <1>2, <1>3, <1>4, <1>6, TokenFacts, BooksAndAllowances

(* A balance that keeps its amount and has its TTL set.                    *)
LEMMA TtlSetInv ==
  ASSUME TokenInv, NEW x \in Accounts, NEW last \in Nat,
         acct' = [acct EXCEPT ![x].until = last],
         inst' \in Nat, UNCHANGED <<allow, admin, seq, issued, grant>>
  PROVE  TokenInv'
<1>1. acct' \in AccountType /\ \A y \in Accounts : acct'[y].amount = acct[y].amount
  BY TokenFacts DEF AccountType, Account
<1>2. BalancesOf(acct') = BalancesOf(acct)  BY <1>1 DEF BalancesOf
<1> QED  BY <1>1, <1>2, TokenFacts, AllowancesKept, BooksAndAllowances

LEMMA BalanceInv ==
  ASSUME TokenInv, NEW x \in Accounts, Balance(x)
  PROVE  TokenInv'
<1>1. inst' \in Nat  BY BumpInstanceType DEF Balance, TokenInv
<1>2. CASE acct[x].until = Never
  <2>1. acct' = acct  BY <1>2 DEF Balance, ReadBalance
  <2> QED  BY <1>1, <2>1, TokenFacts, AllowancesKept, BooksAndAllowances DEF Balance
<1>3. CASE acct[x].until # Never
  <2>1. acct[x].until \in Nat  BY <1>3, TokenFacts DEF AccountType, Account
  <2>2. ExtendTtl(acct[x].until, seq, Threshold, Bump) \in Nat
    BY <2>1, ExtendTtlNat, TokenConstants, TokenFacts
  <2>3. acct' = [acct EXCEPT ![x].until = ExtendTtl(acct[x].until, seq, Threshold, Bump)]
    BY <1>3 DEF Balance, ReadBalance
  <2> QED  BY <1>1, <2>2, <2>3, TtlSetInv DEF Balance
<1> QED  BY <1>2, <1>3

LEMMA RestoreInv ==
  ASSUME TokenInv, NEW x \in Accounts, Restore(x)
  PROVE  TokenInv'
<1>1. FreshTtl(seq, MinTtl) \in Nat  BY FreshTtlNat, TokenConstants, TokenFacts
<1> QED  BY <1>1, TtlSetInv, TokenFacts DEF Restore

(* The steps that leave the balances and the allowances alone.             *)
LEMMA OtherInv ==
  ASSUME TokenInv,
         \/ \E a, b \in Accounts : SetAdmin(a, b)
         \/ \E k \in AllowanceDataKey : Allowance(k)
         \/ RestoreInstance
         \/ UNCHANGED vars
  PROVE  TokenInv'
<1>1. inst' \in Nat
  <2>1. FreshTtl(seq, MinTtl) \in Nat  BY FreshTtlNat, TokenConstants, TokenFacts
  <2> QED  BY <2>1, BumpInstanceType, TokenFacts
            DEF TokenInv, SetAdmin, Allowance, RestoreInstance, vars
<1>2. admin' \in Accounts /\ UNCHANGED <<acct, allow, seq, issued, grant>>
  BY TokenFacts DEF SetAdmin, Allowance, RestoreInstance, vars
<1> QED  BY <1>1, <1>2, TokenFacts, AllowancesKept, BooksAndAllowances

LEMMA CloseLedgerInv ==
  ASSUME TokenInv, CloseLedger
  PROVE  TokenInv'
<1>1. seq' \in Ledgers  BY TokenFacts, TokenConstants DEF CloseLedger, Ledgers
<1>2. TypeOK'  BY <1>1 DEF TokenInv, TypeOK, CloseLedger
<1>3. Conserved' /\ Granted'  BY DEF TokenInv, Conserved, Granted, CloseLedger
<1> QED  BY <1>2, <1>3 DEF TokenInv

LEMMA TokenStep == TokenInv /\ [Next]_vars => TokenInv'
<1> SUFFICES ASSUME TokenInv, [Next]_vars
             PROVE  TokenInv'
  OBVIOUS
<1>1. ASSUME NEW a \in Accounts, NEW b \in Accounts, NEW n \in Inputs,
             Mint(a, b, n) \/ Transfer(a, b, n)
      PROVE  TokenInv'
  BY <1>1, MintInv, TransferInv
<1>2. ASSUME NEW a \in Accounts, NEW n \in Inputs, Burn(a, n)
      PROVE  TokenInv'
  BY <1>2, BurnInv
<1>3. ASSUME NEW a \in Accounts, NEW s \in Spenders, NEW n \in Inputs,
             \/ \E exp \in Ledgers : Approve(a, s, n, exp)
             \/ \E b \in Accounts : TransferFrom(s, a, b, n)
             \/ BurnFrom(s, a, n)
      PROVE  TokenInv'
  BY <1>3, ApproveInv, TransferFromInv, BurnFromInv
<1>4. ASSUME NEW a \in Accounts, Balance(a) \/ Restore(a)
      PROVE  TokenInv'
  BY <1>4, BalanceInv, RestoreInv
<1> QED  BY <1>1, <1>2, <1>3, <1>4, OtherInv, CloseLedgerInv DEF Next

LEMMA TokenInvariant == Spec => []TokenInv
BY TokenInit, TokenStep, PTL DEF Spec
-----------------------------------------------------------------------------
(* Type correctness: no balance and no allowance is ever negative or       *)
(* beyond the integer type (checked_add and the balance check of           *)
(* receive_balance and spend_balance), whatever is transferred.            *)
THEOREM TokenTypeCorrect == Spec => []TypeOK
<1>1. TokenInv => TypeOK  BY DEF TokenInv
<1> QED  BY <1>1, TokenInvariant, PTL

(* The balances always add up to what was minted less what was burned:     *)
(* receive_balance reads what spend_balance wrote, so a transfer to        *)
(* oneself makes no unit, and archiving and restoring a balance loses      *)
(* none.                                                                   *)
THEOREM TokenConserved == Spec => []Conserved
<1>1. TokenInv => Conserved  BY DEF TokenInv
<1> QED  BY <1>1, TokenInvariant, PTL

(* read_allowance answers what was approved less what was used up to the   *)
(* expiration ledger, and zero after it, although the entry is temporary:  *)
(* write_allowance extends it far enough whenever anything is left.        *)
THEOREM TokenAllowanceHonoured == Spec => []AllowanceHonoured
<1>1. TokenInv => AllowanceHonoured  BY ReadsWhatIsGranted DEF AllowanceHonoured
<1> QED  BY <1>1, TokenInvariant, PTL
=============================================================================
