------------------------ MODULE PrivacyChannelProofs ------------------------
(***************************************************************************)
(* The channel's accounts are right whenever no call is in progress, for   *)
(* any set of UTXOs, accounts and operations and any integer width.        *)
(*                                                                         *)
(* Neither SupplyBacked nor Solvent is inductive: in the middle of a call  *)
(* the UTXOs, the supply and the asset's balances disagree.  Accounting    *)
(* and Holdings say by how much, phase by phase, in terms of what the      *)
(* running call has still to do; Shape says that there is only one running *)
(* call, and that it would roll back to a ledger that was right.  The      *)
(* second part shows that the channel implements ChannelPromise, the third *)
(* that a call does exactly what its bundle says.                          *)
(***************************************************************************)
EXTENDS PrivacyChannel, OperatorTheorems, TLAPS

PositiveAmounts(items) == \A k \in DOMAIN items : items[k].amount > 0

Shape ==
  /\ outer = <<>>
  /\ guard <=> pc # "idle"
  /\ snap.guard = FALSE
  /\ snap.supply = Total(snap.utxo, Utxos)
  /\ snap.bal[Channel] >= snap.supply
  /\ pc \notin {"idle", "pre"} => PositiveAmounts(op.deposit) /\ PositiveAmounts(op.withdraw)
  /\ pc = "pulled" => i <= Len(op.deposit)
  /\ pc = "pushed" => i <= Len(op.withdraw)

Accounting ==
  /\ pc \in {"idle", "pre", "exit"} => Total(utxo, Utxos) = supply
  /\ pc \in {"auth", "spend", "create"} =>
       Total(utxo, Utxos) + avail = supply + TotalDeposit(op)
  /\ pc \in {"deposit", "pulled"} =>
       Total(utxo, Utxos) + TotalWithdraw(op) = supply + SumFrom(op.deposit, i)
  /\ pc \in {"withdraw", "pushed"} =>
       Total(utxo, Utxos) + SumFrom(op.withdraw, i) = supply

Holdings ==
  /\ pc \notin {"pulled", "pushed"} => bal[Channel] >= supply
  /\ pc = "pulled" => bal[Channel] >= supply + op.deposit[i].amount
  /\ pc = "pushed" => bal[Channel] + op.withdraw[i].amount >= supply

Inv == TypeOK /\ Shape /\ Accounting /\ Holdings
-----------------------------------------------------------------------------
(* The parts of a well-typed operation.                                    *)
LEMMA OpFacts ==
  ASSUME NEW o \in ChannelOperation
  PROVE  /\ o.spend \in Seq(SpendItem) /\ o.create \in Seq(CreateItem)
         /\ o.deposit \in Seq(ExternalItem) /\ o.withdraw \in Seq(ExternalItem)
BY DEF ChannelOperation

LEMMA AmountBounds ==
  /\ MaxAmount \in Nat
  /\ \A n \in I128 : n \in Int /\ n <= MaxAmount
  /\ 0 \in I128
  /\ \A n \in Int : n >= 0 /\ n <= MaxAmount => n \in I128
BY MaxAmountAssumption DEF I128

LEMMA ExternalFacts ==
  ASSUME NEW s \in Seq(ExternalItem), NEW k \in Nat \ {0}, k <= Len(s)
  PROVE  s[k].addr \in Addresses /\ s[k].amount \in Int /\ s[k].amount <= MaxAmount
<1>1. s[k] \in ExternalItem  OBVIOUS
<1>2. s[k].addr \in Addresses /\ s[k].amount \in I128  BY <1>1 DEF ExternalItem
<1> QED  BY <1>2, AmountBounds

(* The type of the ledger, variable by variable.                           *)
LEMMA LedgerFacts ==
  Ledger \in LedgerType <=>
    /\ utxo \in [Utxos -> -1 .. MaxAmount]
    /\ until \in [Utxos -> Nat] /\ touched \in [Utxos -> Nat]
    /\ supply \in I128
    /\ bal \in [Addresses -> 0 .. MaxAmount]
    /\ inst \in Nat /\ guard \in BOOLEAN
BY DEF Ledger, LedgerType

LEMMA TotalUtxoType ==
  ASSUME NEW f
  PROVE  Total(f, Utxos) \in Nat
BY TotalType, UtxosAssumption

(* Extending a TTL, or starting one, gives a ledger number.                *)
LEMMA ExtendTtlType ==
  ASSUME NEW t \in Nat, NEW now \in Nat, NEW threshold \in Nat, NEW bump \in Nat
  PROVE  ExtendTtl(t, now, threshold, bump) \in Nat
BY DEF ExtendTtl

LEMMA FreshTtlType ==
  ASSUME NEW now \in Nat
  PROVE  FreshTtl(now, MinTtl) \in Nat
BY TtlAssumption DEF FreshTtl

LEMMA GenesisFacts ==
  /\ Genesis \in LedgerType
  /\ Genesis.guard = FALSE
  /\ Genesis.supply = Total(Genesis.utxo, Utxos)
  /\ Genesis.bal[Channel] >= Genesis.supply
<1>1. Genesis.inst \in Nat
  <2>1. FreshTtl(0, MinTtl) \in Nat  BY FreshTtlType
  <2> QED  BY <2>1, ExtendTtlType, TtlAssumption DEF Genesis
<1>2. Genesis.bal \in [Addresses -> 0 .. MaxAmount] /\ Channel \in Addresses
  BY InitialBalAssumption DEF Genesis, Addresses
<1>3. Genesis.supply = 0 /\ 0 \in I128  BY AmountBounds DEF Genesis
<1>4. Genesis.utxo = [u \in Utxos |-> -1] /\ -1 \in -1 .. MaxAmount
  BY AmountBounds DEF Genesis
<1>5. Genesis \in LedgerType
  BY <1>1, <1>2, <1>3, <1>4 DEF Genesis, LedgerType
<1>6. Total(Genesis.utxo, Utxos) = 0
  <2>1. Units(Genesis.utxo, Utxos) = {}  BY <1>4, AmountBounds DEF Units
  <2> QED  BY <2>1, FS_EmptySet DEF Total
<1>7. Genesis.bal[Channel] >= 0  BY <1>2, AmountBounds
<1> QED  BY <1>3, <1>5, <1>6, <1>7 DEF Genesis

LEMMA NoOpFacts == NoOp \in ChannelOperation
BY DEF NoOp, ChannelOperation

(* The deployed channel satisfies the invariant.                           *)
LEMMA InitInv == Init => Inv
<1> SUFFICES ASSUME Init  PROVE Inv  OBVIOUS
<1>1. /\ utxo = Genesis.utxo /\ supply = Genesis.supply /\ bal = Genesis.bal
      /\ Ledger = Genesis
  BY DEF Init, Ledger, Genesis
<1>2. TypeOK
  BY <1>1, GenesisFacts, NoOpFacts, AmountBounds DEF Init, TypeOK, Phases
<1>3. Shape  BY GenesisFacts DEF Init, Shape, Genesis
<1>4. Accounting  BY <1>1, GenesisFacts DEF Init, Accounting
<1>5. Holdings  BY <1>1, GenesisFacts DEF Init, Holdings
<1> QED  BY <1>2, <1>3, <1>4, <1>5 DEF Inv
-----------------------------------------------------------------------------
(* A step that leaves the ledger and the operation alone keeps the types   *)
(* and most of the shape.                                                  *)
LEMMA ControlStep ==
  ASSUME Inv,
         UNCHANGED <<utxo, until, touched, seq, supply, bal, inst, guard, op, snap, outer>>,
         pc # "idle", pc' \in Phases \ {"idle", "pulled", "pushed"},
         i' \in Nat \ {0}, avail' \in I128,
         PositiveAmounts(op.deposit), PositiveAmounts(op.withdraw)
  PROVE  TypeOK' /\ Shape'
<1>1. Ledger' = Ledger  BY DEF Ledger
<1>2. TypeOK'  BY <1>1 DEF Inv, TypeOK
<1>3. Shape'  BY DEF Inv, Shape, PositiveAmounts
<1> QED  BY <1>2, <1>3

LEMMA RunningFacts ==
  ASSUME Inv, pc \notin {"idle", "pre"}
  PROVE  /\ i \in Nat \ {0} /\ avail \in I128
         /\ PositiveAmounts(op.deposit) /\ PositiveAmounts(op.withdraw)
         /\ op.deposit \in Seq(ExternalItem) /\ op.withdraw \in Seq(ExternalItem)
         /\ op.spend \in Seq(SpendItem) /\ op.create \in Seq(CreateItem)
BY OpFacts DEF Inv, TypeOK, Shape

LEMMA PreProcessInv == Inv /\ PreProcess => Inv'
<1> SUFFICES ASSUME Inv, PreProcess  PROVE Inv'  OBVIOUS
<1> USE DEF storeVars
<1>0. op.deposit \in Seq(ExternalItem) /\ op.withdraw \in Seq(ExternalItem)
  BY OpFacts DEF Inv, TypeOK
<1>1. TotalDeposit(op) \in Nat /\ TotalDeposit(op) <= MaxAmount
  BY <1>0, SumFromType DEF PreProcess, PreProcessed, ExternalAmountsOk, TotalDeposit
<1>2. PositiveAmounts(op.deposit) /\ PositiveAmounts(op.withdraw)
  BY DEF PreProcess, PreProcessed, ExternalAmountsOk, PositiveAmounts
<1>3. TypeOK' /\ Shape'
  <2>1. TotalDeposit(op) \in I128  BY <1>1, AmountBounds
  <2>2. i' \in Nat \ {0}  BY DEF PreProcess, Inv, TypeOK
  <2> QED  BY <2>1, <2>2, <1>2, ControlStep DEF PreProcess, Phases
<1>4. Accounting'
  <2>1. Total(utxo, Utxos) = supply  BY DEF PreProcess, Inv, Accounting
  <2>2. Total(utxo, Utxos) + TotalDeposit(op) = supply + TotalDeposit(op)  BY <2>1
  <2> QED  BY <2>2 DEF PreProcess, Accounting
<1>5. Holdings'  BY DEF PreProcess, Inv, Holdings
<1> QED  BY <1>3, <1>4, <1>5 DEF Inv

LEMMA RequireAuthInv == Inv /\ RequireAuth => Inv'
<1> SUFFICES ASSUME Inv, RequireAuth  PROVE Inv'  OBVIOUS
<1> USE DEF storeVars
<1>1. TypeOK' /\ Shape'
  BY RunningFacts, ControlStep DEF RequireAuth, Phases
<1>2. Accounting'  BY DEF RequireAuth, Inv, Accounting
<1>3. Holdings'  BY DEF RequireAuth, Inv, Holdings
<1> QED  BY <1>1, <1>2, <1>3 DEF Inv

LEMMA SpendsDoneInv == Inv /\ SpendsDone => Inv'
<1> SUFFICES ASSUME Inv, SpendsDone  PROVE Inv'  OBVIOUS
<1> USE DEF storeVars
<1>1. TypeOK' /\ Shape'
  BY RunningFacts, ControlStep DEF SpendsDone, Phases
<1>2. Accounting'  BY DEF SpendsDone, Inv, Accounting
<1>3. Holdings'  BY DEF SpendsDone, Inv, Holdings
<1> QED  BY <1>1, <1>2, <1>3 DEF Inv

(* The balance check is what lets the books of the UTXOs, closed here, and *)
(* those of the supply, opened here, meet.                                 *)
LEMMA CheckBalancedInv == Inv /\ CheckBalanced => Inv'
<1> SUFFICES ASSUME Inv, CheckBalanced  PROVE Inv'  OBVIOUS
<1> USE DEF storeVars
<1>1. TypeOK' /\ Shape'
  BY RunningFacts, ControlStep DEF CheckBalanced, Phases
<1>2. Accounting'
  <2>1. Total(utxo, Utxos) + TotalWithdraw(op) = supply + TotalDeposit(op)
    BY DEF CheckBalanced, ComesOut, Inv, Accounting
  <2> QED  BY <2>1 DEF CheckBalanced, Accounting, TotalDeposit, TotalWithdraw
<1>3. Holdings'  BY DEF CheckBalanced, Inv, Holdings
<1> QED  BY <1>1, <1>2, <1>3 DEF Inv

LEMMA DepositsDoneInv == Inv /\ DepositsDone => Inv'
<1> SUFFICES ASSUME Inv, DepositsDone  PROVE Inv'  OBVIOUS
<1> USE DEF storeVars
<1>1. TypeOK' /\ Shape'
  BY RunningFacts, ControlStep DEF DepositsDone, Phases
<1>2. Accounting'
  <2>1. op.deposit \in Seq(ExternalItem) /\ i \in Nat  BY OpFacts DEF Inv, TypeOK
  <2>2. SumFrom(op.deposit, i) = 0  BY <2>1, SumFromEnd DEF DepositsDone
  <2>3. supply \in Int  BY AmountBounds, LedgerFacts DEF Inv, TypeOK
  <2>4. Total(utxo, Utxos) + SumFrom(op.withdraw, 1) = supply
    BY <2>2, <2>3 DEF DepositsDone, Inv, Accounting, TotalWithdraw
  <2> QED  BY <2>4 DEF DepositsDone, Accounting
<1>3. Holdings'  BY DEF DepositsDone, Inv, Holdings
<1> QED  BY <1>1, <1>2, <1>3 DEF Inv

LEMMA WithdrawsDoneInv == Inv /\ WithdrawsDone => Inv'
<1> SUFFICES ASSUME Inv, WithdrawsDone  PROVE Inv'  OBVIOUS
<1> USE DEF storeVars
<1>1. TypeOK' /\ Shape'
  BY RunningFacts, ControlStep DEF WithdrawsDone, Phases
<1>2. Accounting'
  <2>1. op.withdraw \in Seq(ExternalItem) /\ i \in Nat  BY OpFacts DEF Inv, TypeOK
  <2>2. SumFrom(op.withdraw, i) = 0  BY <2>1, SumFromEnd DEF WithdrawsDone
  <2>3. Total(utxo, Utxos) \in Nat  BY TotalUtxoType
  <2>4. Total(utxo, Utxos) = supply
    BY <2>2, <2>3 DEF WithdrawsDone, Inv, Accounting
  <2> QED  BY <2>4 DEF WithdrawsDone, Accounting
<1>3. Holdings'  BY DEF WithdrawsDone, Inv, Holdings
<1> QED  BY <1>1, <1>2, <1>3 DEF Inv
-----------------------------------------------------------------------------
(* A store operation touches one entry: the types survive.                 *)
LEMMA TouchType ==
  ASSUME until \in [Utxos -> Nat], touched \in [Utxos -> Nat], seq \in Nat,
         NEW u \in Utxos, NEW last \in Nat, Store!Touch(u, last)
  PROVE  until' \in [Utxos -> Nat] /\ touched' \in [Utxos -> Nat] /\ seq' \in Nat
<1>1. Store!Extended(last) \in Nat
  BY TtlAssumption DEF Store!Extended, Store!ExtendTtl
<1> QED  BY <1>1 DEF Store!Touch

(* The total follows the one UTXO that changes.                            *)
LEMMA TotalUtxoUpdate ==
  ASSUME NEW f \in [Utxos -> -1 .. MaxAmount], NEW g \in [Utxos -> -1 .. MaxAmount],
         NEW u \in Utxos, \A y \in Utxos \ {u} : f[y] = g[y]
  PROVE  Total(g, Utxos) = Total(f, Utxos) - Pos(f[u]) + Pos(g[u])
BY TotalUpdate, UtxosAssumption, Zenon

(* The loops of process_bundle: what leaves the UTXOs enters avail, and    *)
(* the other way round.                                                    *)
LEMMA SpendStepInv == Inv /\ SpendStep => Inv'
<1> SUFFICES ASSUME Inv, SpendStep  PROVE Inv'  OBVIOUS
<1> DEFINE u == op.spend[i].utxo
<1>1. pc = "spend" /\ i \in 1 .. Len(op.spend) /\ op.spend \in Seq(SpendItem)
  BY RunningFacts DEF SpendStep
<1>2. u \in Utxos
  <2>1. op.spend[i] \in SpendItem  BY <1>1
  <2> QED  BY <2>1 DEF SpendItem
<1>3. /\ utxo \in [Utxos -> -1 .. MaxAmount]
      /\ until \in [Utxos -> Nat] /\ touched \in [Utxos -> Nat] /\ seq \in Nat
  BY LedgerFacts DEF Inv, TypeOK
<1>4. utxo[u] > 0 /\ utxo' = [utxo EXCEPT ![u] = 0] /\ Store!Touch(u, until[u])
  BY DEF SpendStep, Store!Spend, Store!CanSpend, Store!Spent
<1>5. 0 \in -1 .. MaxAmount /\ utxo[u] \in Int  BY <1>2, <1>3, AmountBounds
<1>6. TypeOK'
  <2>1. utxo' \in [Utxos -> -1 .. MaxAmount]  BY <1>2, <1>3, <1>4, <1>5
  <2>2. until' \in [Utxos -> Nat] /\ touched' \in [Utxos -> Nat] /\ seq' \in Nat
    BY <1>2, <1>3, <1>4, TouchType
  <2>3. Ledger' \in LedgerType
    BY <2>1, <2>2, LedgerFacts DEF Inv, TypeOK, SpendStep, Ledger, LedgerType
  <2> QED  BY <2>2, <2>3 DEF Inv, TypeOK, SpendStep, CanSpend
<1>7. Shape'  BY DEF Inv, Shape, SpendStep, PositiveAmounts
<1>8. Accounting'
  <2>1. /\ utxo' \in [Utxos -> -1 .. MaxAmount] /\ utxo'[u] = 0
        /\ \A y \in Utxos \ {u} : utxo[y] = utxo'[y]
    BY <1>2, <1>3, <1>4, <1>5
  <2>2. Total(utxo', Utxos) = Total(utxo, Utxos) - utxo[u]
    <3>1. Total(utxo', Utxos) = Total(utxo, Utxos) - Pos(utxo[u]) + Pos(utxo'[u])
      <4> HIDE DEF u
      <4> QED  BY <2>1, <1>2, <1>3, TotalUtxoUpdate
    <3> QED  BY <3>1, <2>1, <1>4, <1>5, TotalUtxoType DEF Pos
  <2>3. Total(utxo, Utxos) + avail = supply + TotalDeposit(op)
    BY <1>1 DEF Inv, Accounting
  <2>4. avail \in Int /\ avail' = avail + utxo[u]
    BY <1>1, RunningFacts, AmountBounds DEF SpendStep
  <2>5. Total(utxo', Utxos) + avail' = supply + TotalDeposit(op)
    BY <2>2, <2>3, <2>4, <1>5, TotalUtxoType
  <2> QED  BY <2>5, <1>1 DEF SpendStep, Accounting
<1>9. Holdings'  BY DEF SpendStep, Inv, Holdings
<1> QED  BY <1>6, <1>7, <1>8, <1>9 DEF Inv

LEMMA CreateStepInv == Inv /\ CreateStep => Inv'
<1> SUFFICES ASSUME Inv, CreateStep  PROVE Inv'  OBVIOUS
<1> DEFINE u == op.create[i].utxo
           a == op.create[i].amount
<1>1. pc = "create" /\ i \in 1 .. Len(op.create) /\ op.create \in Seq(CreateItem)
  BY RunningFacts DEF CreateStep
<1>2. u \in Utxos /\ a \in I128
  <2>1. op.create[i] \in CreateItem  BY <1>1
  <2> QED  BY <2>1 DEF CreateItem
<1>3. /\ utxo \in [Utxos -> -1 .. MaxAmount]
      /\ until \in [Utxos -> Nat] /\ touched \in [Utxos -> Nat] /\ seq \in Nat
  BY LedgerFacts DEF Inv, TypeOK
<1>4. /\ a > 0 /\ utxo[u] = -1 /\ utxo' = [utxo EXCEPT ![u] = a]
      /\ Store!Touch(u, Store!FreshTtl(seq, MinTtl))
  BY DEF CreateStep, Store!Create, Store!CanCreate, Store!Absent
<1>5. a \in -1 .. MaxAmount /\ a \in Int  BY <1>2, <1>4, AmountBounds
<1>6. TypeOK'
  <2>1. utxo' \in [Utxos -> -1 .. MaxAmount]  BY <1>2, <1>3, <1>4, <1>5
  <2>2. until' \in [Utxos -> Nat] /\ touched' \in [Utxos -> Nat] /\ seq' \in Nat
    <3>1. Store!FreshTtl(seq, MinTtl) \in Nat
      BY <1>3, TtlAssumption DEF Store!FreshTtl
    <3> QED  BY <3>1, <1>2, <1>3, <1>4, TouchType
  <2>3. Ledger' \in LedgerType
    BY <2>1, <2>2, LedgerFacts DEF Inv, TypeOK, CreateStep, Ledger, LedgerType
  <2> QED  BY <2>2, <2>3 DEF Inv, TypeOK, CreateStep, CanCreate
<1>7. Shape'  BY DEF Inv, Shape, CreateStep, PositiveAmounts
<1>8. Accounting'
  <2>1. /\ utxo' \in [Utxos -> -1 .. MaxAmount] /\ utxo'[u] = a
        /\ \A y \in Utxos \ {u} : utxo[y] = utxo'[y]
    BY <1>2, <1>3, <1>4, <1>5
  <2>2. Total(utxo', Utxos) = Total(utxo, Utxos) + a
    <3>1. Total(utxo', Utxos) = Total(utxo, Utxos) - Pos(utxo[u]) + Pos(utxo'[u])
      <4> HIDE DEF u
      <4> QED  BY <2>1, <1>2, <1>3, TotalUtxoUpdate
    <3> QED  BY <3>1, <2>1, <1>4, <1>5, TotalUtxoType DEF Pos
  <2>3. Total(utxo, Utxos) + avail = supply + TotalDeposit(op)
    BY <1>1 DEF Inv, Accounting
  <2>4. avail \in Int /\ avail' = avail - a
    BY <1>1, RunningFacts, AmountBounds DEF CreateStep
  <2>5. Total(utxo', Utxos) + avail' = supply + TotalDeposit(op)
    BY <2>2, <2>3, <2>4, <1>5, TotalUtxoType
  <2> QED  BY <2>5, <1>1 DEF CreateStep, Accounting
<1>9. Holdings'  BY DEF CreateStep, Inv, Holdings
<1> QED  BY <1>6, <1>7, <1>8, <1>9 DEF Inv
-----------------------------------------------------------------------------
(* A transfer of the asset keeps the balances typed and says what the      *)
(* channel gains or loses; to itself it pays nothing.                      *)
LEMMA TransferFacts ==
  ASSUME bal \in [Addresses -> 0 .. MaxAmount],
         NEW from \in Addresses, NEW to \in Addresses, NEW amount \in Nat,
         Transfer(from, to, amount)
  PROVE  /\ bal' \in [Addresses -> 0 .. MaxAmount]
         /\ from # Channel => bal'[Channel] >= bal[Channel]
         /\ from # Channel /\ to = Channel => bal'[Channel] = bal[Channel] + amount
         /\ bal'[Channel] + amount >= bal[Channel]
<1>1. Channel \in Addresses /\ MaxAmount \in Nat
  BY AmountBounds DEF Addresses
<1>2. bal[from] - amount \in 0 .. MaxAmount  BY <1>1 DEF Transfer, CanTransfer, Debited
<1> DEFINE d == [bal EXCEPT ![from] = @ - amount]
<1>3. d \in [Addresses -> 0 .. MaxAmount]  BY <1>1, <1>2
<1>4. d[to] + amount \in 0 .. MaxAmount /\ bal' = [d EXCEPT ![to] = d[to] + amount]
  BY <1>1, <1>3 DEF Transfer, CanTransfer, Debited
<1>5. bal' \in [Addresses -> 0 .. MaxAmount]  BY <1>3, <1>4
<1>6. from # Channel => d[Channel] = bal[Channel]  BY <1>1
<1>7. d[Channel] \in {bal[Channel], bal[Channel] - amount}  BY <1>1
<1>8. bal'[Channel] = IF to = Channel THEN d[Channel] + amount ELSE d[Channel]
  BY <1>1, <1>3, <1>4
<1>9. bal[Channel] \in Nat  BY <1>1
<1> HIDE DEF d
<1> QED  BY <1>5, <1>6, <1>7, <1>8, <1>9

(* Deposits: the asset comes in first, the supply follows.                 *)
LEMMA PullDepositInv == Inv /\ PullDeposit => Inv'
<1> SUFFICES ASSUME Inv, PullDeposit  PROVE Inv'  OBVIOUS
<1> USE DEF storeVars
<1> DEFINE from == op.deposit[i].addr
           a == op.deposit[i].amount
<1>1. pc = "deposit" /\ i \in Nat \ {0} /\ i <= Len(op.deposit)
  BY RunningFacts DEF PullDeposit
<1>2. op.deposit \in Seq(ExternalItem) /\ PositiveAmounts(op.deposit)
  BY <1>1, RunningFacts
<1>3. from \in Addresses /\ a \in Nat
  BY <1>1, <1>2, ExternalFacts DEF PositiveAmounts
<1>4. bal \in [Addresses -> 0 .. MaxAmount] /\ Channel \in Addresses
  BY LedgerFacts DEF Inv, TypeOK, Addresses
<1>5. from # Channel /\ Transfer(from, Channel, a)  BY DEF PullDeposit, CanPull
<1>6. bal' \in [Addresses -> 0 .. MaxAmount] /\ bal'[Channel] = bal[Channel] + a
  BY <1>3, <1>4, <1>5, TransferFacts
<1>7. TypeOK'
  <2>1. Ledger' \in LedgerType
    BY <1>6, LedgerFacts DEF Inv, TypeOK, PullDeposit, Ledger, LedgerType
  <2> QED  BY <2>1 DEF Inv, TypeOK, PullDeposit, Phases
<1>8. Shape'  BY <1>1 DEF Inv, Shape, PullDeposit, PositiveAmounts
<1>9. Accounting'  BY DEF Inv, Accounting, PullDeposit
<1>10. Holdings'
  <2>1. bal[Channel] >= supply  BY <1>1 DEF Inv, Holdings
  <2>2. supply \in Int /\ bal[Channel] \in Int
    BY <1>4, AmountBounds, LedgerFacts DEF Inv, TypeOK
  <2>3. bal'[Channel] >= supply + a  BY <2>1, <2>2, <1>3, <1>6
  <2> QED  BY <2>3 DEF PullDeposit, Holdings
<1> QED  BY <1>7, <1>8, <1>9, <1>10 DEF Inv

LEMMA IncreaseSupplyInv == Inv /\ IncreaseSupply => Inv'
<1> SUFFICES ASSUME Inv, IncreaseSupply  PROVE Inv'  OBVIOUS
<1> USE DEF storeVars
<1> DEFINE a == op.deposit[i].amount
<1>1. pc = "pulled" /\ i \in Nat \ {0} /\ i <= Len(op.deposit)
  BY RunningFacts DEF IncreaseSupply, Inv, Shape
<1>2. op.deposit \in Seq(ExternalItem) /\ PositiveAmounts(op.deposit)
  BY <1>1, RunningFacts
<1>3. a \in Nat /\ a > 0 /\ a \in Int /\ a <= MaxAmount
  BY <1>1, <1>2, ExternalFacts DEF PositiveAmounts
<1>4. supply \in Int  BY AmountBounds, LedgerFacts DEF Inv, TypeOK
<1>5. TypeOK'
  <2>1. Ledger' \in LedgerType
    BY LedgerFacts DEF Inv, TypeOK, IncreaseSupply, Ledger, LedgerType
  <2> QED  BY <2>1, <1>1 DEF Inv, TypeOK, IncreaseSupply, Phases
<1>6. Shape'  BY DEF Inv, Shape, IncreaseSupply, PositiveAmounts
<1>7. Accounting'
  <2>1. SumFrom(op.deposit, i) = Pos(a) + SumFrom(op.deposit, i + 1)
    BY <1>1, <1>2, <1>3, SumFromStep
  <2>2. SumFrom(op.deposit, i + 1) \in Nat  BY <1>1, <1>2, SumFromType
  <2>3. Total(utxo, Utxos) + TotalWithdraw(op) = supply + SumFrom(op.deposit, i)
    BY <1>1 DEF Inv, Accounting
  <2>4. Total(utxo, Utxos) + TotalWithdraw(op) = (supply + a) + SumFrom(op.deposit, i + 1)
    BY <2>1, <2>2, <2>3, <1>3, <1>4 DEF Pos
  <2> QED  BY <2>4 DEF IncreaseSupply, Accounting
<1>8. Holdings'  BY <1>1 DEF Inv, Holdings, IncreaseSupply
<1> QED  BY <1>5, <1>6, <1>7, <1>8 DEF Inv

(* Withdrawals: the asset goes out first, the supply follows.              *)
LEMMA PushWithdrawInv == Inv /\ PushWithdraw => Inv'
<1> SUFFICES ASSUME Inv, PushWithdraw  PROVE Inv'  OBVIOUS
<1> USE DEF storeVars
<1> DEFINE to == op.withdraw[i].addr
           a == op.withdraw[i].amount
<1>1. pc = "withdraw" /\ i \in Nat \ {0} /\ i <= Len(op.withdraw)
  BY RunningFacts DEF PushWithdraw
<1>2. op.withdraw \in Seq(ExternalItem) /\ PositiveAmounts(op.withdraw)
  BY <1>1, RunningFacts
<1>3. to \in Addresses /\ a \in Nat
  BY <1>1, <1>2, ExternalFacts DEF PositiveAmounts
<1>4. bal \in [Addresses -> 0 .. MaxAmount] /\ Channel \in Addresses
  BY LedgerFacts DEF Inv, TypeOK, Addresses
<1>5. Transfer(Channel, to, a)  BY DEF PushWithdraw
<1>6. bal' \in [Addresses -> 0 .. MaxAmount] /\ bal'[Channel] + a >= bal[Channel]
  BY <1>3, <1>4, <1>5, TransferFacts
<1>7. TypeOK'
  <2>1. Ledger' \in LedgerType
    BY <1>6, LedgerFacts DEF Inv, TypeOK, PushWithdraw, Ledger, LedgerType
  <2> QED  BY <2>1 DEF Inv, TypeOK, PushWithdraw, Phases
<1>8. Shape'  BY <1>1 DEF Inv, Shape, PushWithdraw, PositiveAmounts
<1>9. Accounting'  BY DEF Inv, Accounting, PushWithdraw
<1>10. Holdings'
  <2>1. bal[Channel] >= supply  BY <1>1 DEF Inv, Holdings
  <2>2. supply \in Int /\ bal[Channel] \in Int /\ bal'[Channel] \in Int
    BY <1>4, <1>6, AmountBounds, LedgerFacts DEF Inv, TypeOK
  <2>3. bal'[Channel] + a >= supply  BY <2>1, <2>2, <1>3, <1>6
  <2> QED  BY <2>3 DEF PushWithdraw, Holdings
<1> QED  BY <1>7, <1>8, <1>9, <1>10 DEF Inv

LEMMA DecreaseSupplyInv == Inv /\ DecreaseSupply => Inv'
<1> SUFFICES ASSUME Inv, DecreaseSupply  PROVE Inv'  OBVIOUS
<1> USE DEF storeVars
<1> DEFINE a == op.withdraw[i].amount
<1>1. pc = "pushed" /\ i \in Nat \ {0} /\ i <= Len(op.withdraw)
  BY RunningFacts DEF DecreaseSupply, Inv, Shape
<1>2. op.withdraw \in Seq(ExternalItem) /\ PositiveAmounts(op.withdraw)
  BY <1>1, RunningFacts
<1>3. a \in Nat /\ a > 0 /\ a \in Int /\ a <= MaxAmount
  BY <1>1, <1>2, ExternalFacts DEF PositiveAmounts
<1>4. supply \in Int /\ bal[Channel] \in Int
  BY AmountBounds, LedgerFacts DEF Inv, TypeOK, Addresses
<1>5. TypeOK'
  <2>1. Ledger' \in LedgerType
    BY LedgerFacts DEF Inv, TypeOK, DecreaseSupply, Ledger, LedgerType
  <2> QED  BY <2>1, <1>1 DEF Inv, TypeOK, DecreaseSupply, Phases
<1>6. Shape'  BY DEF Inv, Shape, DecreaseSupply, PositiveAmounts
<1>7. Accounting'
  <2>1. SumFrom(op.withdraw, i) = Pos(a) + SumFrom(op.withdraw, i + 1)
    BY <1>1, <1>2, <1>3, SumFromStep
  <2>2. SumFrom(op.withdraw, i + 1) \in Nat  BY <1>1, <1>2, SumFromType
  <2>3. Total(utxo, Utxos) + SumFrom(op.withdraw, i) = supply
    BY <1>1 DEF Inv, Accounting
  <2>4. Total(utxo, Utxos) + SumFrom(op.withdraw, i + 1) = supply - a
    BY <2>1, <2>2, <2>3, <1>3, <1>4, TotalUtxoType DEF Pos
  <2> QED  BY <2>4 DEF DecreaseSupply, Accounting
<1>8. Holdings'
  <2>1. bal[Channel] + a >= supply  BY <1>1 DEF Inv, Holdings
  <2>2. bal[Channel] >= supply - a  BY <2>1, <1>3, <1>4
  <2> QED  BY <2>2 DEF DecreaseSupply, Holdings
<1> QED  BY <1>5, <1>6, <1>7, <1>8 DEF Inv
-----------------------------------------------------------------------------
(* The boundaries of a call.                                               *)
LEMMA TransactInv == ASSUME NEW o \in Ops  PROVE Inv /\ Transact(o) => Inv'
<1> SUFFICES ASSUME Inv, Transact(o)  PROVE Inv'  OBVIOUS
<1> USE DEF storeVars
<1>1. ~ guard /\ pc = "idle" /\ guard' = TRUE /\ pc' = "pre" /\ snap' = Ledger
  BY DEF Transact, EnterReentrancyGuard, Inv, Shape
<1>2. inst' \in Nat
  BY ExtendTtlType, TtlAssumption, LedgerFacts DEF Transact, BumpInstanceTtl, Inv, TypeOK
<1>3. TypeOK'
  <2>1. Ledger' \in LedgerType
    BY <1>1, <1>2, LedgerFacts DEF Inv, TypeOK, Transact, Ledger, LedgerType
  <2>2. op' \in ChannelOperation  BY OpsAssumption DEF Transact
  <2>3. seq' \in Nat /\ avail' \in I128 /\ i' \in Nat \ {0}
    BY AmountBounds DEF Inv, TypeOK, Transact
  <2>4. outer' = <<>>  BY <1>1 DEF Inv, Shape, Transact
  <2>5. snap' \in LedgerType  BY <1>1 DEF Inv, TypeOK
  <2> QED  BY <1>1, <2>1, <2>2, <2>3, <2>4, <2>5 DEF TypeOK, Phases
<1>4. Total(utxo, Utxos) = supply /\ bal[Channel] >= supply
  BY <1>1 DEF Inv, Accounting, Holdings
<1>5. Shape'
  <2>1. /\ snap'.guard = FALSE
        /\ snap'.supply = Total(snap'.utxo, Utxos)
        /\ snap'.bal[Channel] >= snap'.supply
    BY <1>1, <1>4, LedgerFacts DEF Ledger, Inv, TypeOK
  <2>2. outer' = <<>>  BY <1>1 DEF Inv, Shape, Transact
  <2> QED  BY <1>1, <2>1, <2>2 DEF Shape
<1>6. Accounting'  BY <1>1, <1>4 DEF Accounting, Transact
<1>7. Holdings'  BY <1>1, <1>4 DEF Holdings, Transact
<1> QED  BY <1>3, <1>5, <1>6, <1>7 DEF Inv

(* With a single call running, to return is to become idle.                *)
LEMMA ReturnIdle ==
  ASSUME Inv, Return
  PROVE  /\ pc' = "idle" /\ op' = NoOp /\ i' = 1 /\ avail' = 0 /\ snap' = Genesis
         /\ outer' = <<>>
BY DEF Return, Inv, Shape

LEMMA IdleInv ==
  ASSUME Ledger' \in LedgerType, seq' \in Nat, guard' = FALSE,
         pc' = "idle", op' = NoOp, i' = 1, avail' = 0, snap' = Genesis, outer' = <<>>,
         Total(utxo', Utxos) = supply', bal'[Channel] >= supply'
  PROVE  Inv'
<1>1. TypeOK'  BY GenesisFacts, NoOpFacts, AmountBounds DEF TypeOK, Phases
<1>2. Shape'  BY GenesisFacts DEF Shape
<1>3. Accounting'  BY DEF Accounting
<1>4. Holdings'  BY DEF Holdings
<1> QED  BY <1>1, <1>2, <1>3, <1>4 DEF Inv

LEMMA ExitInv == Inv /\ Exit => Inv'
<1> SUFFICES ASSUME Inv, Exit  PROVE Inv'  OBVIOUS
<1> USE DEF storeVars
<1>1. Ledger' \in LedgerType /\ seq' \in Nat
  BY LedgerFacts DEF Inv, TypeOK, Exit, ExitReentrancyGuard, Ledger, LedgerType
<1>2. Total(utxo', Utxos) = supply' /\ bal'[Channel] >= supply' /\ guard' = FALSE
  BY DEF Exit, ExitReentrancyGuard, Inv, Accounting, Holdings
<1>3. Return  BY DEF Exit
<1> QED  BY <1>1, <1>2, <1>3, ReturnIdle, IdleInv

LEMMA PanicInv == Inv /\ Panic => Inv'
<1> SUFFICES ASSUME Inv, Panic  PROVE Inv'  OBVIOUS
<1>1. snap \in LedgerType /\ seq' \in Nat  BY DEF Inv, TypeOK, Panic
<1>2. Ledger' \in LedgerType
  BY <1>1 DEF Panic, Ledger, LedgerType
<1>3. Total(utxo', Utxos) = supply' /\ bal'[Channel] >= supply' /\ guard' = FALSE
  BY DEF Panic, Inv, Shape
<1>4. Return  BY DEF Panic
<1> QED  BY <1>1, <1>2, <1>3, <1>4, ReturnIdle, IdleInv
-----------------------------------------------------------------------------
(* Around the calls.  None of these touches the UTXOs' amounts or the      *)
(* supply, and none takes from the channel's balance.                      *)
LEMMA OutsideStep ==
  ASSUME Inv, UNCHANGED <<utxo, supply, guard>>, UNCHANGED frame,
         until' \in [Utxos -> Nat], touched' \in [Utxos -> Nat], seq' \in Nat,
         inst' \in Nat, bal' \in [Addresses -> 0 .. MaxAmount],
         (bal' = bal) \/ (pc = "idle" /\ bal'[Channel] >= bal[Channel])
  PROVE  Inv'
<1> USE DEF frame
<1>1. Ledger' \in LedgerType
  BY LedgerFacts DEF Inv, TypeOK, Ledger, LedgerType
<1>2. TypeOK'  BY <1>1 DEF Inv, TypeOK
<1>3. Shape'  BY DEF Inv, Shape
<1>4. Accounting'  BY DEF Inv, Accounting
<1>5. Holdings'
  <2>1. CASE bal' = bal  BY <2>1 DEF Inv, Holdings
  <2>2. CASE pc = "idle" /\ bal'[Channel] >= bal[Channel]
    <3>1. bal[Channel] >= supply  BY <2>2 DEF Inv, Holdings
    <3>2. supply \in Int /\ bal[Channel] \in Int /\ bal'[Channel] \in Int
      BY AmountBounds, LedgerFacts DEF Inv, TypeOK, Addresses
    <3>3. bal'[Channel] >= supply  BY <3>1, <3>2, <2>2
    <3> QED  BY <3>3, <2>2 DEF Holdings
  <2> QED  BY <2>1, <2>2
<1> QED  BY <1>2, <1>3, <1>4, <1>5 DEF Inv

LEMMA EnvironmentInv == Inv /\ Environment => Inv'
<1> SUFFICES ASSUME Inv, Environment  PROVE Inv'  OBVIOUS
<1> USE DEF storeVars, rest
<1>0. /\ until \in [Utxos -> Nat] /\ touched \in [Utxos -> Nat] /\ seq \in Nat
      /\ inst \in Nat /\ bal \in [Addresses -> 0 .. MaxAmount]
  BY LedgerFacts DEF Inv, TypeOK
<1>1. ASSUME NEW u \in Utxos, UtxoBalance(u)  PROVE Inv'
  <2>1. Store!Touch(u, until[u]) /\ utxo' = utxo
    BY <1>1 DEF UtxoBalance, Store!Balance
  <2>2. until' \in [Utxos -> Nat] /\ touched' \in [Utxos -> Nat] /\ seq' \in Nat
    BY <1>0, <2>1, TouchType
  <2>3. UNCHANGED <<utxo, supply, bal, inst, guard, frame>>  BY <1>1, <2>1 DEF UtxoBalance
  <2>4. /\ bal' \in [Addresses -> 0 .. MaxAmount] /\ inst' \in Nat /\ bal' = bal
        /\ until' \in [Utxos -> Nat] /\ touched' \in [Utxos -> Nat] /\ seq' \in Nat
        /\ UNCHANGED <<utxo, supply, guard>> /\ UNCHANGED frame
    BY <1>0, <2>2, <2>3
  <2> QED  BY <2>4, OutsideStep
<1>2. ASSUME NEW u \in Utxos, Restore(u)  PROVE Inv'
  <2>1. Store!FreshTtl(seq, MinTtl) \in Nat
    BY <1>0, TtlAssumption DEF Store!FreshTtl
  <2>2. until' \in [Utxos -> Nat] /\ UNCHANGED <<utxo, touched, seq>>
    BY <1>0, <1>2, <2>1 DEF Restore, Store!Restore
  <2>3. UNCHANGED <<utxo, supply, bal, inst, guard, frame>>  BY <1>2, <2>2 DEF Restore
  <2>4. /\ bal' \in [Addresses -> 0 .. MaxAmount] /\ inst' \in Nat /\ bal' = bal
        /\ until' \in [Utxos -> Nat] /\ touched' \in [Utxos -> Nat] /\ seq' \in Nat
        /\ UNCHANGED <<utxo, supply, guard>> /\ UNCHANGED frame
    BY <1>0, <2>2, <2>3
  <2> QED  BY <2>4, OutsideStep
<1>3. CASE CloseLedger
  <2>1. UNCHANGED <<utxo, until, touched>> /\ seq' \in Nat
    BY <1>0, <1>3 DEF CloseLedger, Store!CloseLedger, Store!entries
  <2>2. UNCHANGED <<supply, bal, inst, guard, frame>>  BY <1>3 DEF CloseLedger
  <2>3. /\ bal' \in [Addresses -> 0 .. MaxAmount] /\ inst' \in Nat /\ bal' = bal
        /\ until' \in [Utxos -> Nat] /\ touched' \in [Utxos -> Nat] /\ seq' \in Nat
        /\ UNCHANGED <<utxo, supply, guard>> /\ UNCHANGED frame
    BY <1>0, <2>1, <2>2
  <2> QED  BY <2>3, OutsideStep
<1>4. CASE RestoreInstance
  <2>1. inst' \in Nat  BY <1>0, <1>4, FreshTtlType DEF RestoreInstance
  <2>2. UNCHANGED <<utxo, until, touched, seq, supply, bal, guard, frame>>
    BY <1>4 DEF RestoreInstance
  <2>3. /\ bal' \in [Addresses -> 0 .. MaxAmount] /\ inst' \in Nat /\ bal' = bal
        /\ until' \in [Utxos -> Nat] /\ touched' \in [Utxos -> Nat] /\ seq' \in Nat
        /\ UNCHANGED <<utxo, supply, guard>> /\ UNCHANGED frame
    BY <1>0, <2>1, <2>2
  <2> QED  BY <2>3, OutsideStep
<1>5. ASSUME NEW from \in Accounts, NEW to \in Addresses, NEW a \in 1 .. MaxAmount,
             AssetTransfer(from, to, a)
      PROVE  Inv'
  <2>1. from \in Addresses /\ from # Channel /\ a \in Nat
    BY AccountsAssumption, AmountBounds DEF Addresses
  <2>2. Transfer(from, to, a) /\ pc = "idle"  BY <1>5 DEF AssetTransfer
  <2>3. bal' \in [Addresses -> 0 .. MaxAmount] /\ bal'[Channel] >= bal[Channel]
    BY <1>0, <2>1, <2>2, TransferFacts
  <2>4. UNCHANGED <<utxo, until, touched, seq, supply, inst, guard>> /\ UNCHANGED frame
    BY <1>5 DEF AssetTransfer
  <2> QED  BY <1>0, <2>2, <2>3, <2>4, OutsideStep
<1> QED  BY <1>1, <1>2, <1>3, <1>4, <1>5 DEF Environment
-----------------------------------------------------------------------------
(* Every step of the channel and of its environment keeps the invariant.   *)
LEMMA NextInv == Inv /\ [Next]_vars => Inv'
<1> SUFFICES ASSUME Inv, [Next]_vars  PROVE Inv'  OBVIOUS
<1>1. ASSUME NEW o \in Ops, Transact(o)  PROVE Inv'  BY <1>1, TransactInv
<1>2. CASE Step
  BY <1>2, PreProcessInv, RequireAuthInv, SpendStepInv, SpendsDoneInv, CreateStepInv,
     CheckBalancedInv, PullDepositInv, IncreaseSupplyInv, DepositsDoneInv,
     PushWithdrawInv, DecreaseSupplyInv, WithdrawsDoneInv, ExitInv, PanicInv DEF Step
<1>3. CASE Environment  BY <1>3, EnvironmentInv
<1>4. CASE UNCHANGED vars
  <2>1. UNCHANGED <<utxo, until, touched, seq, supply, bal, inst, guard>> /\ UNCHANGED frame
    BY <1>4 DEF vars, frame
  <2>2. /\ until' \in [Utxos -> Nat] /\ touched' \in [Utxos -> Nat] /\ seq' \in Nat
        /\ inst' \in Nat /\ bal' \in [Addresses -> 0 .. MaxAmount]
    BY <2>1, LedgerFacts DEF Inv, TypeOK
  <2> QED  BY <2>1, <2>2, OutsideStep
<1> QED  BY <1>1, <1>2, <1>3, <1>4 DEF Next

THEOREM ChannelInv == Spec => []Inv
BY InitInv, NextInv, PTL DEF Spec

(* Every variable of the channel stays in its type: avail and supply never *)
(* leave i128, and no balance of the asset goes below zero.                *)
THEOREM ChannelTypeCorrect == Spec => []TypeOK
<1>1. Inv => TypeOK  BY DEF Inv
<1> QED  BY <1>1, ChannelInv, PTL

(* Outside transact the supply is exactly the value of the unspent UTXOs.  *)
THEOREM ChannelSupplyBacked == Spec => []SupplyBacked
<1>1. Inv => SupplyBacked  BY DEF Inv, Shape, Accounting, SupplyBacked
<1> QED  BY <1>1, ChannelInv, PTL

(* Outside transact the channel owns at least its supply of the asset.     *)
THEOREM ChannelSolvent == Spec => []Solvent
<1>1. Inv => Solvent  BY DEF Inv, Shape, Holdings, Solvent
<1> QED  BY <1>1, ChannelInv, PTL

(* transact never starts, from outside or from inside the asset's          *)
(* transfer, on a ledger that another call has half changed.               *)
THEOREM ChannelCallsStartSettled == Spec => CallsStartSettled
<1> DEFINE Settled == /\ supply = Total(utxo, Utxos)
                      /\ bal[Channel] >= supply
<1>1. Inv /\ [Next]_vars => [pc' = "pre" /\ pc # "pre" => Settled]_vars
  <2> SUFFICES ASSUME Inv, Next, pc' = "pre", pc # "pre"  PROVE Settled  OBVIOUS
  <2>1. ASSUME NEW o \in Ops, Transact(o)  PROVE Settled
    <3>1. pc = "idle"  BY <2>1 DEF Transact, EnterReentrancyGuard, Inv, Shape
    <3> QED  BY <3>1 DEF Inv, Accounting, Holdings
  <2>2. ~ Step
    <3>1. outer = <<>>  BY DEF Inv, Shape
    <3> QED  BY <3>1 DEF Step, PreProcess, RequireAuth, SpendStep, SpendsDone, CreateStep,
          CheckBalanced, PullDeposit, IncreaseSupply, DepositsDone, PushWithdraw,
          DecreaseSupply, WithdrawsDone, Exit, Panic, Return
  <2>3. ~ Environment
    BY DEF Environment, UtxoBalance, Restore, CloseLedger, RestoreInstance,
           AssetTransfer, rest, frame
  <2> QED  BY <2>1, <2>2, <2>3 DEF Next
<1> QED  BY <1>1, ChannelInv, PTL DEF Spec, CallsStartSettled
-----------------------------------------------------------------------------
(* The refinement.  The ledger that everybody outside the running call     *)
(* sees changes only when a call returns, and then by one settlement.      *)
(* Besides Inv this needs what a running call has done so far, relative to *)
(* the ledger it started on: Since.                                        *)

(* The spends run before the creates, so a UTXO moves once in a call.      *)
MovedOnce ==
  /\ pc \in {"pre", "auth", "spend"} =>
       \A u \in Utxos : utxo[u] = snap.utxo[u] \/ (snap.utxo[u] > 0 /\ utxo[u] = 0)
  /\ pc # "idle" => \A u \in Utxos : Promise!Forward(snap.utxo[u], utxo[u])

(* What the channel holds over its supply never shrinks.                   *)
Surplus(held, owed) == held - owed >= snap.bal[Channel] - snap.supply

NothingLost ==
  /\ pc \notin {"idle", "pulled", "pushed"} => Surplus(bal[Channel], supply)
  /\ pc = "pulled" => Surplus(bal[Channel] - op.deposit[i].amount, supply)
  /\ pc = "pushed" => Surplus(bal[Channel] + op.withdraw[i].amount, supply)

Since == MovedOnce /\ NothingLost
-----------------------------------------------------------------------------
LEMMA InitSince == Init => Since
BY DEF Init, Since, MovedOnce, NothingLost

(* The integers the accounts are made of.                                  *)
LEMMA AccountFacts ==
  ASSUME Inv
  PROVE  /\ supply \in Int /\ bal[Channel] \in Int
         /\ snap.supply \in Int /\ snap.bal[Channel] \in Int
         /\ utxo \in [Utxos -> -1 .. MaxAmount] /\ snap.utxo \in [Utxos -> -1 .. MaxAmount]
<1>1. Ledger \in LedgerType /\ snap \in LedgerType  BY DEF Inv, TypeOK
<1>2. Channel \in Addresses  BY DEF Addresses
<1> QED  BY <1>1, <1>2, LedgerFacts, AmountBounds DEF LedgerType

(* A step inside a call that moves no value.                               *)
LEMMA QuietSince ==
  ASSUME Since, UNCHANGED <<utxo, supply, bal, snap>>,
         pc \notin {"idle", "pulled", "pushed"},
         pc' \in Phases \ {"idle", "pulled", "pushed"},
         pc' \in {"pre", "auth", "spend"} => pc \in {"pre", "auth", "spend"}
  PROVE  Since'
BY DEF Since, MovedOnce, NothingLost, Surplus, Phases

LEMMA TransactSince == ASSUME NEW o \in Ops  PROVE Inv /\ Transact(o) => Since'
<1> SUFFICES ASSUME Inv, Transact(o)  PROVE Since'  OBVIOUS
<1>1. snap' = Ledger /\ pc' = "pre" /\ UNCHANGED <<utxo, supply, bal>>
  BY DEF Transact, storeVars
<1>2. snap'.utxo = utxo /\ snap'.supply = supply /\ snap'.bal = bal  BY <1>1 DEF Ledger
<1>3. MovedOnce'  BY <1>1, <1>2 DEF MovedOnce, Promise!Forward
<1>4. NothingLost'  BY <1>1, <1>2, AccountFacts DEF NothingLost, Surplus
<1> QED  BY <1>3, <1>4 DEF Since

LEMMA SpendStepSince == Inv /\ Since /\ SpendStep => Since'
<1> SUFFICES ASSUME Inv, Since, SpendStep  PROVE Since'  OBVIOUS
<1> DEFINE u == op.spend[i].utxo
<1>1. /\ pc = "spend" /\ pc' = "spend" /\ UNCHANGED <<supply, bal, snap>>
      /\ utxo[u] > 0 /\ utxo' = [utxo EXCEPT ![u] = 0]
  BY DEF SpendStep, Store!Spend, Store!CanSpend, Store!Spent
<1>2. \A v \in Utxos : utxo'[v] = snap.utxo[v] \/ (snap.utxo[v] > 0 /\ utxo'[v] = 0)
  <2> SUFFICES ASSUME NEW v \in Utxos
               PROVE utxo'[v] = snap.utxo[v] \/ (snap.utxo[v] > 0 /\ utxo'[v] = 0)
    OBVIOUS
  <2>1. utxo[v] = snap.utxo[v] \/ (snap.utxo[v] > 0 /\ utxo[v] = 0)
    BY <1>1 DEF Since, MovedOnce
  <2>2. CASE v = u  BY <2>1, <2>2, <1>1, AccountFacts
  <2>3. CASE v # u  BY <2>1, <2>3, <1>1, AccountFacts
  <2> QED  BY <2>2, <2>3
<1>3. MovedOnce'  BY <1>1, <1>2 DEF MovedOnce, Promise!Forward
<1>4. NothingLost'  BY <1>1 DEF Since, NothingLost, Surplus
<1> QED  BY <1>3, <1>4 DEF Since

LEMMA CreateStepSince == Inv /\ Since /\ CreateStep => Since'
<1> SUFFICES ASSUME Inv, Since, CreateStep  PROVE Since'  OBVIOUS
<1> DEFINE u == op.create[i].utxo
           a == op.create[i].amount
<1>1. /\ pc = "create" /\ pc' = "create" /\ UNCHANGED <<supply, bal, snap>>
      /\ a > 0 /\ utxo[u] = -1 /\ utxo' = [utxo EXCEPT ![u] = a]
  BY DEF CreateStep, Store!Create, Store!CanCreate, Store!Absent
<1>2. \A v \in Utxos : Promise!Forward(snap.utxo[v], utxo'[v])
  <2> SUFFICES ASSUME NEW v \in Utxos  PROVE Promise!Forward(snap.utxo[v], utxo'[v])
    OBVIOUS
  <2>1. Promise!Forward(snap.utxo[v], utxo[v])  BY <1>1 DEF Since, MovedOnce
  <2>2. CASE v = u
    <3>1. snap.utxo[v] = -1  BY <2>1, <2>2, <1>1 DEF Promise!Forward
    <3> QED  BY <3>1, <2>2, <1>1, AccountFacts DEF Promise!Forward
  <2>3. CASE v # u  BY <2>1, <2>3, <1>1, AccountFacts
  <2> QED  BY <2>2, <2>3
<1>3. MovedOnce'  BY <1>1, <1>2 DEF MovedOnce
<1>4. NothingLost'  BY <1>1 DEF Since, NothingLost, Surplus
<1> QED  BY <1>3, <1>4 DEF Since

LEMMA PullDepositSince == Inv /\ Since /\ PullDeposit => Since'
<1> SUFFICES ASSUME Inv, Since, PullDeposit  PROVE Since'  OBVIOUS
<1> DEFINE from == op.deposit[i].addr
           a == op.deposit[i].amount
<1>1. /\ pc = "deposit" /\ pc' = "pulled" /\ UNCHANGED <<utxo, supply, snap, op, i>>
      /\ from # Channel /\ Transfer(from, Channel, a)
  BY DEF PullDeposit, CanPull, storeVars
<1>2. from \in Addresses /\ a \in Nat
  <2>1. i \in Nat \ {0} /\ i <= Len(op.deposit) /\ op.deposit \in Seq(ExternalItem)
        /\ PositiveAmounts(op.deposit)
    BY <1>1, RunningFacts DEF PullDeposit
  <2> QED  BY <2>1, ExternalFacts DEF PositiveAmounts
<1>3. bal \in [Addresses -> 0 .. MaxAmount] /\ Channel \in Addresses
  BY LedgerFacts DEF Inv, TypeOK, Addresses
<1>4. bal'[Channel] = bal[Channel] + a  BY <1>1, <1>2, <1>3, TransferFacts
<1>5. MovedOnce'  BY <1>1 DEF Since, MovedOnce
<1>6. Surplus(bal[Channel], supply)  BY <1>1 DEF Since, NothingLost
<1>7. bal'[Channel] - a = bal[Channel]  BY <1>2, <1>4, AccountFacts
<1>8. NothingLost'  BY <1>1, <1>6, <1>7 DEF NothingLost, Surplus
<1> QED  BY <1>5, <1>8 DEF Since

LEMMA IncreaseSupplySince == Inv /\ Since /\ IncreaseSupply => Since'
<1> SUFFICES ASSUME Inv, Since, IncreaseSupply  PROVE Since'  OBVIOUS
<1> DEFINE a == op.deposit[i].amount
<1>1. /\ pc = "pulled" /\ pc' = "deposit" /\ UNCHANGED <<utxo, bal, snap>>
      /\ supply' = supply + a
  BY DEF IncreaseSupply, storeVars
<1>2. a \in Int
  <2>1. i \in Nat \ {0} /\ i <= Len(op.deposit) /\ op.deposit \in Seq(ExternalItem)
    BY <1>1, RunningFacts DEF Inv, Shape
  <2> QED  BY <2>1, ExternalFacts
<1>3. MovedOnce'  BY <1>1 DEF Since, MovedOnce
<1>4. Surplus(bal[Channel] - a, supply)  BY <1>1 DEF Since, NothingLost
<1>5. bal[Channel] - (supply + a) = (bal[Channel] - a) - supply  BY <1>2, AccountFacts
<1>6. bal'[Channel] - supply' >= snap'.bal[Channel] - snap'.supply
  <2> HIDE DEF a
  <2> QED  BY <1>1, <1>2, <1>4, <1>5, AccountFacts DEF Surplus
<1>7. NothingLost'  BY <1>1, <1>6 DEF NothingLost, Surplus
<1> QED  BY <1>3, <1>7 DEF Since

LEMMA PushWithdrawSince == Inv /\ Since /\ PushWithdraw => Since'
<1> SUFFICES ASSUME Inv, Since, PushWithdraw  PROVE Since'  OBVIOUS
<1> DEFINE to == op.withdraw[i].addr
           a == op.withdraw[i].amount
<1>1. /\ pc = "withdraw" /\ pc' = "pushed" /\ UNCHANGED <<utxo, supply, snap, op, i>>
      /\ Transfer(Channel, to, a)
  BY DEF PushWithdraw, storeVars
<1>2. to \in Addresses /\ a \in Nat
  <2>1. i \in Nat \ {0} /\ i <= Len(op.withdraw) /\ op.withdraw \in Seq(ExternalItem)
        /\ PositiveAmounts(op.withdraw)
    BY <1>1, RunningFacts DEF PushWithdraw
  <2> QED  BY <2>1, ExternalFacts DEF PositiveAmounts
<1>3. bal \in [Addresses -> 0 .. MaxAmount] /\ Channel \in Addresses
  BY LedgerFacts DEF Inv, TypeOK, Addresses
<1>4. bal'[Channel] \in Int /\ bal'[Channel] + a >= bal[Channel]
  BY <1>1, <1>2, <1>3, TransferFacts, AmountBounds
<1>5. MovedOnce'  BY <1>1 DEF Since, MovedOnce
<1>6. Surplus(bal[Channel], supply)  BY <1>1 DEF Since, NothingLost
<1>7. (bal'[Channel] + a) - supply >= bal[Channel] - supply  BY <1>2, <1>4, AccountFacts
<1>8. (bal'[Channel] + a) - supply >= snap.bal[Channel] - snap.supply
  BY <1>2, <1>4, <1>6, <1>7, AccountFacts DEF Surplus
<1>9. (bal'[Channel] + op'.withdraw[i'].amount) - supply' >= snap'.bal[Channel] - snap'.supply
  BY <1>1, <1>8
<1>10. NothingLost'
  <2>1. Surplus(bal[Channel] + op.withdraw[i].amount, supply)'  BY <1>9 DEF Surplus
  <2>2. pc' = "pushed"  BY <1>1
  <2> QED  BY <2>1, <2>2 DEF NothingLost
<1> QED  BY <1>5, <1>10 DEF Since

LEMMA DecreaseSupplySince == Inv /\ Since /\ DecreaseSupply => Since'
<1> SUFFICES ASSUME Inv, Since, DecreaseSupply  PROVE Since'  OBVIOUS
<1> DEFINE a == op.withdraw[i].amount
<1>1. /\ pc = "pushed" /\ pc' = "withdraw" /\ UNCHANGED <<utxo, bal, snap>>
      /\ supply' = supply - a
  BY DEF DecreaseSupply, storeVars
<1>2. a \in Int
  <2>1. i \in Nat \ {0} /\ i <= Len(op.withdraw) /\ op.withdraw \in Seq(ExternalItem)
    BY <1>1, RunningFacts DEF Inv, Shape
  <2> QED  BY <2>1, ExternalFacts
<1>3. MovedOnce'  BY <1>1 DEF Since, MovedOnce
<1>4. Surplus(bal[Channel] + a, supply)  BY <1>1 DEF Since, NothingLost
<1>5. bal[Channel] - (supply - a) = (bal[Channel] + a) - supply  BY <1>2, AccountFacts
<1>6. bal'[Channel] - supply' >= snap'.bal[Channel] - snap'.supply
  <2> HIDE DEF a
  <2> QED  BY <1>1, <1>2, <1>4, <1>5, AccountFacts DEF Surplus
<1>7. NothingLost'  BY <1>1, <1>6 DEF NothingLost, Surplus
<1> QED  BY <1>3, <1>7 DEF Since

(* With nothing running there is nothing to compare.                       *)
LEMMA IdleSince == ASSUME pc' = "idle"  PROVE Since'
BY DEF Since, MovedOnce, NothingLost

LEMMA EnvironmentSince == Inv /\ Since /\ Environment => Since'
<1> SUFFICES ASSUME Inv, Since, Environment  PROVE Since'  OBVIOUS
<1>1. ASSUME NEW u \in Utxos, UtxoBalance(u)  PROVE Since'
  BY <1>1 DEF UtxoBalance, Store!Balance, rest, frame, Since, MovedOnce, NothingLost, Surplus
<1>2. CASE pc' = "idle"  BY <1>2, IdleSince
<1>3. CASE pc' # "idle"
  <2>1. \E u \in Utxos : UtxoBalance(u)
    BY <1>3 DEF Environment, Restore, CloseLedger, RestoreInstance, AssetTransfer, rest, frame
  <2> QED  BY <2>1, <1>1
<1> QED  BY <1>2, <1>3

LEMMA NextSince == Inv /\ Since /\ [Next]_vars => Since'
<1> SUFFICES ASSUME Inv, Since, [Next]_vars  PROVE Since'  OBVIOUS
<1> USE DEF storeVars
<1>1. ASSUME NEW o \in Ops, Transact(o)  PROVE Since'  BY <1>1, TransactSince
<1>2. CASE Step
  <2>1. CASE PreProcess  BY <2>1, QuietSince DEF PreProcess, Phases
  <2>2. CASE RequireAuth  BY <2>2, QuietSince DEF RequireAuth, Phases
  <2>3. CASE SpendStep  BY <2>3, SpendStepSince
  <2>4. CASE SpendsDone  BY <2>4, QuietSince DEF SpendsDone, Phases
  <2>5. CASE CreateStep  BY <2>5, CreateStepSince
  <2>6. CASE CheckBalanced  BY <2>6, QuietSince DEF CheckBalanced, Phases
  <2>7. CASE PullDeposit  BY <2>7, PullDepositSince
  <2>8. CASE IncreaseSupply  BY <2>8, IncreaseSupplySince
  <2>9. CASE DepositsDone  BY <2>9, QuietSince DEF DepositsDone, Phases
  <2>10. CASE PushWithdraw  BY <2>10, PushWithdrawSince
  <2>11. CASE DecreaseSupply  BY <2>11, DecreaseSupplySince
  <2>12. CASE WithdrawsDone  BY <2>12, QuietSince DEF WithdrawsDone, Phases
  <2>13. CASE Exit  BY <2>13, ReturnIdle, IdleSince DEF Exit
  <2>14. CASE Panic  BY <2>14, ReturnIdle, IdleSince DEF Panic
  <2> QED  BY <1>2, <2>1, <2>2, <2>3, <2>4, <2>5, <2>6, <2>7, <2>8, <2>9, <2>10,
              <2>11, <2>12, <2>13, <2>14 DEF Step
<1>3. CASE Environment  BY <1>3, EnvironmentSince
<1>4. CASE UNCHANGED vars
  BY <1>4 DEF vars, Since, MovedOnce, NothingLost, Surplus
<1> QED  BY <1>1, <1>2, <1>3, <1>4 DEF Next

LEMMA ChannelSince == Spec => [](Inv /\ Since)
<1>1. Init => Inv /\ Since  BY InitInv, InitSince
<1>2. (Inv /\ Since) /\ [Next]_vars => (Inv /\ Since)'  BY NextInv, NextSince
<1> QED  BY <1>1, <1>2, PTL DEF Spec
-----------------------------------------------------------------------------
(* What outsiders see of the ledger, with one call running at most.        *)
LEMMA CommittedIs ==
  ASSUME Inv
  PROVE  /\ pc = "idle" => /\ Committed.utxo = utxo
                           /\ Committed.supply = supply
                           /\ Committed.bal = bal
         /\ pc # "idle" => Committed = snap
BY DEF Committed, Ledger, Inv, Shape

LEMMA CommittedNext ==
  ASSUME Inv'
  PROVE  /\ pc' = "idle" => /\ Committed'.utxo = utxo'
                            /\ Committed'.supply = supply'
                            /\ Committed'.bal = bal'
         /\ pc' # "idle" => Committed' = snap'
BY DEF Committed, Ledger, Inv, Shape

(* A step that changes none of it is a stutter of the promise.             *)
LEMMA Unseen ==
  ASSUME Committed'.utxo = Committed.utxo, Committed'.supply = Committed.supply,
         Committed'.bal = Committed.bal
  PROVE  UNCHANGED Promise!vars
BY DEF Promise!vars

LEMMA InsideUnseen ==
  ASSUME Inv, Inv', pc # "idle", pc' # "idle", UNCHANGED snap
  PROVE  UNCHANGED Promise!vars
<1>1. Committed = snap /\ Committed' = snap'  BY CommittedIs, CommittedNext
<1> QED  BY <1>1, Unseen

LEMMA OutsideUnseen ==
  ASSUME Inv, Inv', pc = "idle", pc' = "idle", UNCHANGED <<utxo, supply, bal>>
  PROVE  UNCHANGED Promise!vars
<1>1. /\ Committed.utxo = utxo /\ Committed.supply = supply /\ Committed.bal = bal
      /\ Committed'.utxo = utxo' /\ Committed'.supply = supply' /\ Committed'.bal = bal'
  BY CommittedIs, CommittedNext
<1> QED  BY <1>1, Unseen

(* A call that returns is a settlement.                                    *)
LEMMA ExitSettles ==
  ASSUME Inv, Inv', Since, Exit
  PROVE  Promise!Settle
<1>1. pc = "exit" /\ pc' = "idle" /\ UNCHANGED <<utxo, supply, bal>>
  BY ReturnIdle DEF Exit, storeVars
<1>2. /\ Committed.utxo = snap.utxo /\ Committed.supply = snap.supply
      /\ Committed.bal = snap.bal
      /\ Committed'.utxo = utxo /\ Committed'.supply = supply /\ Committed'.bal = bal
  BY <1>1, CommittedIs, CommittedNext
<1>3. utxo \in [Utxos -> -1 .. MaxAmount]  BY AccountFacts
<1>4. \A u \in Utxos : Promise!Forward(snap.utxo[u], utxo[u])
  BY <1>1 DEF Since, MovedOnce
<1>5. supply = Total(utxo, Utxos)  BY <1>1 DEF Inv, Accounting
<1>6. bal[Channel] \in 0 .. MaxAmount
  BY LedgerFacts DEF Inv, TypeOK, Addresses
<1>7. bal[Channel] - snap.bal[Channel] >= supply - snap.supply
  <2>1. bal[Channel] - supply >= snap.bal[Channel] - snap.supply
    BY <1>1 DEF Since, NothingLost, Surplus
  <2> QED  BY <2>1, AccountFacts
<1>8. Promise!Total(utxo, Utxos) = Total(utxo, Utxos)
  BY Zenon DEF Promise!Total, Promise!Units, Promise!Cardinality, Total, Units, Cardinality
<1> QED  BY <1>2, <1>3, <1>4, <1>5, <1>6, <1>7, <1>8 DEF Promise!Settle

(* A call that panics leaves no trace.                                     *)
LEMMA PanicUnseen ==
  ASSUME Inv, Inv', Panic
  PROVE  UNCHANGED Promise!vars
<1>1. /\ pc # "idle" /\ pc' = "idle"
      /\ utxo' = snap.utxo /\ supply' = snap.supply /\ bal' = snap.bal
  BY ReturnIdle DEF Panic
<1>2. /\ Committed = snap
      /\ Committed'.utxo = utxo' /\ Committed'.supply = supply' /\ Committed'.bal = bal'
  BY <1>1, CommittedIs, CommittedNext
<1> QED  BY <1>1, <1>2, Unseen

LEMMA EnvironmentPromise ==
  ASSUME Inv, Inv', Environment
  PROVE  [Promise!Next]_(Promise!vars)
<1> USE DEF rest, frame, storeVars
<1>1. ASSUME NEW u \in Utxos, UtxoBalance(u)  PROVE UNCHANGED Promise!vars
  <2>1. UNCHANGED <<utxo, supply, bal, snap, pc>>  BY <1>1 DEF UtxoBalance, Store!Balance
  <2> QED  BY <2>1, InsideUnseen, OutsideUnseen
<1>2. ASSUME NEW u \in Utxos, Restore(u)  PROVE UNCHANGED Promise!vars
  <2>1. pc = "idle" /\ UNCHANGED <<utxo, supply, bal, pc>>
    BY <1>2 DEF Restore, Store!Restore
  <2> QED  BY <2>1, OutsideUnseen
<1>3. CASE CloseLedger
  <2>1. pc = "idle" /\ UNCHANGED <<utxo, supply, bal, pc>>
    BY <1>3 DEF CloseLedger, Store!CloseLedger, Store!entries
  <2> QED  BY <2>1, OutsideUnseen
<1>4. CASE RestoreInstance
  <2>1. pc = "idle" /\ UNCHANGED <<utxo, supply, bal, pc>>  BY <1>4 DEF RestoreInstance
  <2> QED  BY <2>1, OutsideUnseen
<1>5. ASSUME NEW from \in Accounts, NEW to \in Addresses, NEW a \in 1 .. MaxAmount,
             AssetTransfer(from, to, a)
      PROVE  Promise!Gift
  <2>1. from \in Addresses /\ from # Channel /\ a \in Nat
    BY AccountsAssumption, AmountBounds DEF Addresses
  <2>2. Transfer(from, to, a) /\ pc = "idle" /\ UNCHANGED <<utxo, supply, pc>>
    BY <1>5 DEF AssetTransfer
  <2>3. bal \in [Addresses -> 0 .. MaxAmount] /\ Channel \in Addresses
    BY LedgerFacts DEF Inv, TypeOK, Addresses
  <2>4. bal' \in [Addresses -> 0 .. MaxAmount] /\ bal'[Channel] >= bal[Channel]
    BY <2>1, <2>2, <2>3, TransferFacts
  <2>5. bal'[Channel] \in bal[Channel] .. MaxAmount
    BY <2>3, <2>4, AmountBounds
  <2>6. /\ Committed.utxo = utxo /\ Committed.supply = supply /\ Committed.bal = bal
        /\ Committed'.utxo = utxo /\ Committed'.supply = supply /\ Committed'.bal = bal'
    BY <2>2, CommittedIs, CommittedNext
  <2> QED  BY <2>5, <2>6 DEF Promise!Gift
<1> QED  BY <1>1, <1>2, <1>3, <1>4, <1>5 DEF Environment, Promise!Next

LEMMA InitPromise == Init => Promise!Init
<1> SUFFICES ASSUME Init  PROVE Promise!Init  OBVIOUS
<1>1. Committed.utxo = utxo /\ Committed.supply = supply /\ Committed.bal = bal
  BY InitInv, CommittedIs DEF Init
<1> QED  BY <1>1 DEF Init, Genesis, Promise!Init

LEMMA NextPromise ==
  ASSUME Inv, Inv', Since, [Next]_vars
  PROVE  [Promise!Next]_(Promise!vars)
<1>1. ASSUME NEW o \in Ops, Transact(o)  PROVE UNCHANGED Promise!vars
  <2>1. pc = "idle" /\ pc' # "idle" /\ snap' = Ledger
    BY <1>1 DEF Transact, EnterReentrancyGuard, Inv, Shape
  <2>2. /\ Committed' = Ledger
        /\ Committed.utxo = utxo /\ Committed.supply = supply /\ Committed.bal = bal
    BY <2>1, CommittedIs, CommittedNext
  <2> QED  BY <2>2, Unseen DEF Ledger
<1>2. CASE Exit  BY <1>2, ExitSettles DEF Promise!Next
<1>3. CASE Panic  BY <1>3, PanicUnseen
<1>4. CASE Step /\ ~ Exit /\ ~ Panic
  <2>1. pc # "idle" /\ pc' # "idle" /\ UNCHANGED snap
    BY <1>4 DEF Step, PreProcess, RequireAuth, SpendStep, SpendsDone, CreateStep,
       CheckBalanced, PullDeposit, IncreaseSupply, DepositsDone, PushWithdraw,
       DecreaseSupply, WithdrawsDone
  <2> QED  BY <2>1, InsideUnseen
<1>5. CASE Environment  BY <1>5, EnvironmentPromise
<1>6. CASE UNCHANGED vars
  <2>1. UNCHANGED <<utxo, supply, bal, snap, pc>>  BY <1>6 DEF vars
  <2> QED  BY <2>1, InsideUnseen, OutsideUnseen
<1> QED  BY <1>1, <1>2, <1>3, <1>4, <1>5, <1>6 DEF Next, Step

(* transact, with its loops, its calls into the asset and its rollbacks,   *)
(* implements the one-step settlement of ChannelPromise.                   *)
THEOREM ChannelKeepsPromise == Spec => KeepsPromise
<1>1. (Inv /\ Since) /\ (Inv /\ Since)' /\ [Next]_vars => [Promise!Next]_(Promise!vars)
  BY NextPromise
<1> QED  BY <1>1, InitPromise, ChannelSince, PTL DEF Spec, KeepsPromise, Promise!Spec
-----------------------------------------------------------------------------
(* transact does to the ledger exactly what its bundle says: a call that   *)
(* reaches its end was acceptable on the ledger it started on, and leaves  *)
(* that ledger's settlement, although it wrote UTXOs, balances and supply  *)
(* one by one and called the asset in between.                             *)
(*                                                                         *)
(* The inductive invariant says what the running call has done so far,     *)
(* relative to snap: Checked what it has verified, Booked what it has      *)
(* written to the UTXOs, PaidUp whom it has paid.                          *)

(* The conditions that preprocess and the head of process_bundle impose    *)
(* are about the operation alone, which the call never changes.            *)
Checked ==
  /\ pc \notin {"idle", "pre"} => PreProcessed(op)
  /\ pc \notin {"idle", "pre", "auth"} => NoUtxoTwice(op)

(* The UTXOs of the items before the n-th.                                 *)
First(items, n) == {items[k].utxo : k \in 1 .. (n - 1)}

Funds == TotalDeposit(op) + Total(snap.utxo, SpentBy(op))

(* The UTXOs when the spends before the n-th are done, and when all the    *)
(* spends and the creates before the n-th are.                             *)
Spends(n) ==
  /\ \A u \in First(op.spend, n) : snap.utxo[u] > 0 /\ utxo[u] = 0
  /\ \A u \in Utxos \ First(op.spend, n) : utxo[u] = snap.utxo[u]

Creates(n) ==
  /\ \A u \in SpentBy(op) : snap.utxo[u] > 0 /\ utxo[u] = 0
  /\ \A k \in 1 .. (n - 1) :
       /\ snap.utxo[op.create[k].utxo] = -1
       /\ op.create[k].amount > 0
       /\ utxo[op.create[k].utxo] = op.create[k].amount
  /\ \A u \in Utxos \ (SpentBy(op) \cup First(op.create, n)) : utxo[u] = snap.utxo[u]

Booked ==
  /\ pc \in {"pre", "auth"} => utxo = snap.utxo /\ i = 1
  /\ pc = "auth" => avail = TotalDeposit(op)
  /\ pc = "spend" =>
       /\ i <= Len(op.spend) + 1 /\ Spends(i)
       /\ avail = TotalDeposit(op) + Total(snap.utxo, First(op.spend, i))
  /\ pc = "create" =>
       /\ i <= Len(op.create) + 1 /\ Creates(i) /\ Funds <= MaxAmount
       /\ avail + SumFrom(op.create, 1) = Funds + SumFrom(op.create, i)
  /\ pc \in AssetPhases \cup {"exit"} =>
       /\ Creates(Len(op.create) + 1) /\ Funds <= MaxAmount
       /\ Funds = SumFrom(op.create, 1) + TotalWithdraw(op)

(* What the items before the n-th move for the account a.                  *)
PaidFirst(items, n, a) == Total(Amounts(items), {k \in 1 .. (n - 1) : items[k].addr = a})

(* The balances when the deposits before the d-th and the withdrawals      *)
(* before the w-th are done.                                               *)
Payments(d, w) ==
  /\ \A k \in 1 .. (d - 1) :
       /\ op.deposit[k].addr # Channel
       /\ snap.bal[op.deposit[k].addr] >= op.deposit[k].amount
  /\ \A a \in Addresses \ {Channel} :
       bal[a] = (snap.bal[a] - PaidFirst(op.deposit, d, a)) + PaidFirst(op.withdraw, w, a)
  /\ bal[Channel] =
       (snap.bal[Channel] + (TotalDeposit(op) - SumFrom(op.deposit, d)))
         - ((TotalWithdraw(op) - SumFrom(op.withdraw, w)) - PaidFirst(op.withdraw, w, Channel))

PaidUp ==
  /\ pc \in {"pre", "auth", "spend", "create"} => bal = snap.bal /\ supply = snap.supply
  /\ pc \in {"deposit", "pulled"} =>
       supply = snap.supply + (TotalDeposit(op) - SumFrom(op.deposit, i))
  /\ pc = "deposit" => i <= Len(op.deposit) + 1 /\ Payments(i, 1)
  /\ pc = "pulled" => Payments(i + 1, 1)
  /\ pc \in {"withdraw", "pushed", "exit"} =>
       /\ snap.bal[Channel] + TotalDeposit(op) <= MaxAmount
       /\ snap.supply + TotalDeposit(op) <= MaxAmount
  /\ pc \in {"withdraw", "pushed"} =>
       supply = (snap.supply + TotalDeposit(op)) - (TotalWithdraw(op) - SumFrom(op.withdraw, i))
  /\ pc = "withdraw" => i <= Len(op.withdraw) + 1 /\ Payments(Len(op.deposit) + 1, i)
  /\ pc = "pushed" => Payments(Len(op.deposit) + 1, i + 1)
  /\ pc = "exit" =>
       /\ Payments(Len(op.deposit) + 1, Len(op.withdraw) + 1)
       /\ supply = (snap.supply + TotalDeposit(op)) - TotalWithdraw(op)

-----------------------------------------------------------------------------
(* What a step can be while a call is running.                             *)
LEMMA RunningStep ==
  ASSUME Inv, [Next]_vars, pc' # "idle"
  PROVE  \/ \E o \in Ops : Transact(o)
         \/ /\ \/ PreProcess \/ RequireAuth \/ SpendStep \/ SpendsDone \/ CreateStep
               \/ CheckBalanced \/ PullDeposit \/ IncreaseSupply \/ DepositsDone
               \/ PushWithdraw \/ DecreaseSupply \/ WithdrawsDone
            /\ UNCHANGED <<op, snap>>
         \/ UNCHANGED <<utxo, supply, bal, pc, op, i, avail, snap>>
<1>1. CASE Step
  <2>1. ~ Exit /\ ~ Panic  BY ReturnIdle DEF Exit, Panic
  <2> QED
    BY <1>1, <2>1 DEF Step, PreProcess, RequireAuth, SpendStep, SpendsDone, CreateStep,
       CheckBalanced, PullDeposit, IncreaseSupply, DepositsDone, PushWithdraw,
       DecreaseSupply, WithdrawsDone
<1>2. CASE Environment
  BY <1>2 DEF Environment, UtxoBalance, Restore, CloseLedger, RestoreInstance, AssetTransfer,
     Store!Balance, rest, frame
<1>3. CASE UNCHANGED vars  BY <1>3 DEF vars
<1> QED  BY <1>1, <1>2, <1>3 DEF Next

(* A call starts from idle, on the present ledger.                         *)
LEMMA TransactFacts ==
  ASSUME Inv, NEW o \in Ops, Transact(o)
  PROVE  /\ pc' = "pre" /\ i' = 1 /\ UNCHANGED <<utxo, supply, bal>>
         /\ snap'.utxo = utxo /\ snap'.supply = supply /\ snap'.bal = bal
BY DEF Transact, storeVars, Ledger

LEMMA NextChecked == Inv /\ Checked /\ [Next]_vars => Checked'
<1> SUFFICES ASSUME Inv, Checked, [Next]_vars, pc' # "idle"  PROVE Checked'
  BY DEF Checked
<1>1. CASE \E o \in Ops : Transact(o)  BY <1>1, TransactFacts DEF Checked
<1>2. CASE PreProcess /\ UNCHANGED op  BY <1>2 DEF PreProcess, Checked
<1>3. CASE RequireAuth /\ UNCHANGED op  BY <1>3 DEF RequireAuth, Checked
<1>4. CASE UNCHANGED op /\ pc \notin {"idle", "pre", "auth"}  BY <1>4 DEF Checked
<1>5. CASE UNCHANGED <<op, pc>>  BY <1>5 DEF Checked
<1> QED
  BY <1>1, <1>2, <1>3, <1>4, <1>5, RunningStep DEF SpendStep, SpendsDone, CreateStep,
     CheckBalanced, PullDeposit, IncreaseSupply, DepositsDone, PushWithdraw,
     DecreaseSupply, WithdrawsDone
-----------------------------------------------------------------------------
(* The UTXOs named so far, as the loop goes on.                            *)
LEMMA FirstFacts ==
  ASSUME NEW T, NEW items \in Seq(T)
  PROVE  /\ First(items, 1) = {}
         /\ \A k \in Nat \ {0} : First(items, k + 1) = First(items, k) \cup {items[k].utxo}
         /\ First(items, Len(items) + 1) = ToSet(UtxosOf(items))
<1>1. First(items, 1) = {}  BY DEF First
<1>2. ASSUME NEW k \in Nat \ {0}
      PROVE  First(items, k + 1) = First(items, k) \cup {items[k].utxo}
  <2>1. 1 .. ((k + 1) - 1) = (1 .. (k - 1)) \cup {k}  OBVIOUS
  <2> QED  BY <2>1 DEF First
<1>3. First(items, Len(items) + 1) = ToSet(UtxosOf(items))
  <2>1. 1 .. ((Len(items) + 1) - 1) = DOMAIN items  OBVIOUS
  <2> QED  BY <2>1 DEF First, ToSet, UtxosOf
<1> QED  BY <1>1, <1>2, <1>3

(* The utxos of the operation and the amounts of the ledger it started on. *)
LEMMA BundleFacts ==
  ASSUME Inv
  PROVE  /\ op.spend \in Seq(SpendItem) /\ op.create \in Seq(CreateItem)
         /\ op.deposit \in Seq(ExternalItem) /\ op.withdraw \in Seq(ExternalItem)
         /\ \A k \in 1 .. Len(op.spend) : op.spend[k].utxo \in Utxos
         /\ \A k \in 1 .. Len(op.create) :
              op.create[k].utxo \in Utxos /\ op.create[k].amount \in I128
         /\ i \in Nat \ {0} /\ avail \in I128 /\ avail \in Int
         /\ utxo \in [Utxos -> -1 .. MaxAmount] /\ snap.utxo \in [Utxos -> -1 .. MaxAmount]
         /\ TotalDeposit(op) \in Nat /\ TotalWithdraw(op) \in Nat
<1>1. /\ op.spend \in Seq(SpendItem) /\ op.create \in Seq(CreateItem)
      /\ op.deposit \in Seq(ExternalItem) /\ op.withdraw \in Seq(ExternalItem)
  BY OpFacts DEF Inv, TypeOK
<1>2. ASSUME NEW k \in 1 .. Len(op.spend)  PROVE op.spend[k].utxo \in Utxos
  <2>1. op.spend[k] \in SpendItem  BY <1>1
  <2> QED  BY <2>1 DEF SpendItem
<1>3. ASSUME NEW k \in 1 .. Len(op.create)
      PROVE  op.create[k].utxo \in Utxos /\ op.create[k].amount \in I128
  <2>1. op.create[k] \in CreateItem  BY <1>1
  <2> QED  BY <2>1 DEF CreateItem
<1>4. i \in Nat \ {0} /\ avail \in I128 /\ avail \in Int  BY AmountBounds DEF Inv, TypeOK
<1>5. utxo \in [Utxos -> -1 .. MaxAmount] /\ snap.utxo \in [Utxos -> -1 .. MaxAmount]
  BY LedgerFacts DEF Inv, TypeOK, LedgerType
<1>6. TotalDeposit(op) \in Nat /\ TotalWithdraw(op) \in Nat
  BY <1>1, SumFromType DEF TotalDeposit, TotalWithdraw
<1> QED  BY <1>1, <1>2, <1>3, <1>4, <1>5, <1>6

LEMMA FundsFacts ==
  ASSUME Inv
  PROVE  /\ SpentBy(op) = {op.spend[k].utxo : k \in 1 .. Len(op.spend)}
         /\ CreatedBy(op) = {op.create[k].utxo : k \in 1 .. Len(op.create)}
         /\ SpentBy(op) \subseteq Utxos /\ CreatedBy(op) \subseteq Utxos
         /\ Total(snap.utxo, SpentBy(op)) \in Nat /\ Funds \in Nat
<1>1. /\ DOMAIN op.spend = 1 .. Len(op.spend) /\ DOMAIN op.create = 1 .. Len(op.create)
  BY BundleFacts
<1>2. /\ SpentBy(op) = {op.spend[k].utxo : k \in 1 .. Len(op.spend)}
      /\ CreatedBy(op) = {op.create[k].utxo : k \in 1 .. Len(op.create)}
  BY <1>1 DEF SpentBy, CreatedBy, ToSet, UtxosOf
<1>3. SpentBy(op) \subseteq Utxos /\ CreatedBy(op) \subseteq Utxos  BY <1>2, BundleFacts
<1>4. Total(snap.utxo, SpentBy(op)) \in Nat
  BY <1>3, UtxosAssumption, FS_Subset, TotalType
<1> QED  BY <1>2, <1>3, <1>4, BundleFacts DEF Funds

LEMMA SpendStepBooked == Inv /\ Booked /\ SpendStep /\ UNCHANGED <<op, snap>> => Booked'
<1> SUFFICES ASSUME Inv, Booked, SpendStep, UNCHANGED <<op, snap>>  PROVE Booked'  OBVIOUS
<1> DEFINE u == op.spend[i].utxo
           F == First(op.spend, i)
<1>1. /\ pc = "spend" /\ pc' = "spend" /\ i <= Len(op.spend) /\ i' = i + 1
      /\ utxo[u] > 0 /\ utxo' = [utxo EXCEPT ![u] = 0] /\ avail' = avail + utxo[u]
  BY DEF SpendStep, Store!Spend, Store!CanSpend, Store!Spent
<1>2. u \in Utxos /\ i \in Nat \ {0}  BY <1>1, BundleFacts
<1>3. Spends(i) /\ avail = TotalDeposit(op) + Total(snap.utxo, F)  BY <1>1 DEF Booked
<1>4. First(op.spend, i + 1) = F \cup {u}  BY <1>2, FirstFacts, BundleFacts
<1>5. u \notin F /\ snap.utxo[u] = utxo[u]  BY <1>1, <1>2, <1>3 DEF Spends
<1>6. Spends(i)'
  <2>1. ASSUME NEW v \in F \cup {u}  PROVE snap.utxo[v] > 0 /\ utxo'[v] = 0
    <3>1. CASE v = u  BY <1>1, <1>2, <1>5, <3>1, BundleFacts
    <3>2. CASE v # u
      <4>1. snap.utxo[v] > 0 /\ utxo[v] = 0  BY <1>3, <2>1, <3>2 DEF Spends
      <4> QED  BY <1>1, <3>2, <4>1, BundleFacts
    <3> QED  BY <3>1, <3>2
  <2>2. ASSUME NEW v \in Utxos \ (F \cup {u})  PROVE utxo'[v] = snap.utxo[v]
    BY <1>1, <1>3, <2>2, BundleFacts DEF Spends
  <2> HIDE DEF u, F
  <2> QED  BY <1>1, <1>4, <2>1, <2>2 DEF Spends
<1>7. F \subseteq Utxos
  <2>1. ASSUME NEW k \in 1 .. (i - 1)  PROVE op.spend[k].utxo \in Utxos
    <3>1. op.spend \in Seq(SpendItem)  BY BundleFacts
    <3>2. k \in 1 .. Len(op.spend)  BY <1>1, <1>2, <3>1
    <3> QED  BY <3>2, BundleFacts
  <2> QED  BY <2>1 DEF First
<1>8. Total(snap.utxo, F \cup {u}) = Total(snap.utxo, F) + utxo[u]
  <2>1. IsFiniteSet(F)  BY <1>7, UtxosAssumption, FS_Subset
  <2>2. snap.utxo \in [Utxos -> -1 .. MaxAmount]  BY BundleFacts
  <2> HIDE DEF u, F
  <2>3. snap.utxo[u] \in -1 .. MaxAmount  BY <1>2, <2>2
  <2>4. snap.utxo[u] \in Int /\ snap.utxo[u] <= MaxAmount /\ snap.utxo[u] > 0
    BY <1>1, <1>5, <2>3, AmountBounds
  <2>5. Pos(snap.utxo[u]) = utxo[u]  BY <1>5, <2>4 DEF Pos
  <2> QED  BY <1>5, <2>1, <2>4, <2>5, TotalAdd
<1>9. avail' = TotalDeposit(op) + Total(snap.utxo, First(op.spend, i + 1))
  <2>1. Total(snap.utxo, F) \in Nat  BY <1>7, UtxosAssumption, FS_Subset, TotalType
  <2>2. utxo[u] \in Int /\ TotalDeposit(op) \in Int
    <3>1. utxo \in [Utxos -> -1 .. MaxAmount] /\ TotalDeposit(op) \in Nat  BY BundleFacts
    <3> HIDE DEF u
    <3>2. utxo[u] \in -1 .. MaxAmount  BY <1>2, <3>1
    <3> QED  BY <3>1, <3>2
  <2>3. avail' = avail + utxo[u]  BY <1>1
  <2> HIDE DEF u, F
  <2>4. Total(snap.utxo, First(op.spend, i + 1)) = Total(snap.utxo, F) + utxo[u]
    BY <1>4, <1>8, Zenon
  <2> QED  BY <1>3, <2>1, <2>2, <2>3, <2>4
<1>10. i + 1 <= Len(op.spend) + 1  BY <1>1, <1>2, BundleFacts
<1> QED  BY <1>1, <1>6, <1>9, <1>10 DEF Booked, AssetPhases

(* All spends are done: what they freed is in avail.                       *)
LEMMA SpendsDoneBooked == Inv /\ Booked /\ SpendsDone /\ UNCHANGED <<op, snap>> => Booked'
<1> SUFFICES ASSUME Inv, Booked, SpendsDone, UNCHANGED <<op, snap>>  PROVE Booked'  OBVIOUS
<1>1. /\ pc = "spend" /\ pc' = "create" /\ i > Len(op.spend) /\ i' = 1
      /\ utxo' = utxo /\ avail' = avail
  BY DEF SpendsDone, storeVars
<1>2. i = Len(op.spend) + 1  BY <1>1, BundleFacts DEF Booked
<1>3. First(op.spend, i) = SpentBy(op)  BY <1>2, FirstFacts, BundleFacts DEF SpentBy
<1>4. First(op.create, 1) = {}  BY FirstFacts, BundleFacts
<1>5. Creates(1)'  BY <1>1, <1>3, <1>4 DEF Booked, Spends, Creates
<1>6. avail = Funds  BY <1>1, <1>3 DEF Booked, Funds
<1>7. Funds <= MaxAmount  BY <1>6, BundleFacts, AmountBounds
<1>8. avail' + SumFrom(op.create, 1) = Funds + SumFrom(op.create, 1)  BY <1>1, <1>6
<1>9. 1 <= Len(op.create) + 1  BY BundleFacts
<1> QED  BY <1>1, <1>5, <1>7, <1>8, <1>9 DEF Booked, Funds, AssetPhases

(* A create finds its UTXO absent, so neither the spends nor an earlier    *)
(* create of the bundle has touched it.                                    *)
LEMMA CreateStepBooked == Inv /\ Booked /\ CreateStep /\ UNCHANGED <<op, snap>> => Booked'
<1> SUFFICES ASSUME Inv, Booked, CreateStep, UNCHANGED <<op, snap>>  PROVE Booked'  OBVIOUS
<1> DEFINE u == op.create[i].utxo
           n == op.create[i].amount
<1>1. /\ pc = "create" /\ pc' = "create" /\ i <= Len(op.create) /\ i' = i + 1
      /\ n > 0 /\ utxo[u] = -1 /\ utxo' = [utxo EXCEPT ![u] = n] /\ avail' = avail - n
  BY DEF CreateStep, Store!Create, Store!CanCreate, Store!Absent
<1>2. u \in Utxos /\ i \in Nat \ {0} /\ n \in Int /\ n <= MaxAmount
  <2>1. i \in Nat \ {0} /\ op.create \in Seq(CreateItem)  BY BundleFacts
  <2>2. i \in 1 .. Len(op.create)  BY <1>1, <2>1
  <2>3. \A k \in 1 .. Len(op.create) :
          op.create[k].utxo \in Utxos /\ op.create[k].amount \in I128
    BY BundleFacts
  <2>4. u \in Utxos /\ n \in I128  BY <2>2, <2>3
  <2> HIDE DEF u, n
  <2> QED  BY <2>1, <2>4, AmountBounds
<1>3. /\ Creates(i) /\ Funds <= MaxAmount
      /\ avail + SumFrom(op.create, 1) = Funds + SumFrom(op.create, i)
  BY <1>1 DEF Booked
<1>4. First(op.create, i + 1) = First(op.create, i) \cup {u}
  BY <1>2, FirstFacts, BundleFacts
<1>5. u \notin SpentBy(op) /\ u \notin First(op.create, i)
  <2>1. u \notin SpentBy(op)  BY <1>1, <1>3 DEF Creates
  <2>2. ASSUME NEW k \in 1 .. (i - 1), op.create[k].utxo = u  PROVE FALSE
    <3>1. op.create[k].amount > 0 /\ utxo[op.create[k].utxo] = op.create[k].amount
      BY <1>3 DEF Creates
    <3> HIDE DEF u
    <3> QED  BY <1>1, <2>2, <3>1
  <2> QED  BY <2>1, <2>2 DEF First
<1>6. snap.utxo[u] = -1  BY <1>1, <1>2, <1>3, <1>5 DEF Creates
<1>7. Creates(i)'
  <2>1. ASSUME NEW v \in SpentBy(op)  PROVE snap.utxo[v] > 0 /\ utxo'[v] = 0
    <3>1. snap.utxo[v] > 0 /\ utxo[v] = 0 /\ v # u  BY <1>3, <1>5 DEF Creates
    <3> QED  BY <1>1, <3>1, BundleFacts
  <2>2. ASSUME NEW k \in 1 .. i
        PROVE  /\ snap.utxo[op.create[k].utxo] = -1
               /\ op.create[k].amount > 0
               /\ utxo'[op.create[k].utxo] = op.create[k].amount
    <3>1. CASE k = i
      <4>1. utxo \in [Utxos -> -1 .. MaxAmount]  BY BundleFacts
      <4>2. u = op.create[k].utxo /\ n = op.create[k].amount  BY <3>1
      <4> HIDE DEF u, n
      <4>3. utxo'[u] = n  BY <1>1, <1>2, <4>1
      <4> QED  BY <1>1, <1>6, <4>2, <4>3
    <3>2. CASE k # i
      <4>1. k \in 1 .. (i - 1)  BY <1>2, <3>2
      <4>2. /\ snap.utxo[op.create[k].utxo] = -1 /\ op.create[k].amount > 0
            /\ utxo[op.create[k].utxo] = op.create[k].amount
        BY <1>3, <4>1 DEF Creates
      <4>3. op.create[k].utxo # u  BY <1>5, <4>1 DEF First
      <4>4. op.create[k].utxo \in Utxos
        <5>1. op.create \in Seq(CreateItem)  BY BundleFacts
        <5>2. k \in 1 .. Len(op.create)  BY <1>1, <1>2, <4>1, <5>1
        <5> QED  BY <5>2, BundleFacts
      <4> HIDE DEF u, n
      <4> QED  BY <1>1, <4>2, <4>3, <4>4, BundleFacts
    <3> QED  BY <3>1, <3>2
  <2>3. ASSUME NEW v \in Utxos \ (SpentBy(op) \cup First(op.create, i + 1))
        PROVE  utxo'[v] = snap.utxo[v]
    <3>1. v # u /\ v \notin SpentBy(op) \cup First(op.create, i)  BY <1>4
    <3>2. utxo[v] = snap.utxo[v]  BY <1>3, <3>1 DEF Creates
    <3> QED  BY <1>1, <3>1, <3>2, BundleFacts
  <2>4. 1 .. (i' - 1) = 1 .. i  BY <1>1, <1>2
  <2>5. (SpentBy(op))' = SpentBy(op)  OBVIOUS
  <2> QED  BY <1>1, <2>1, <2>2, <2>3, <2>4, <2>5 DEF Creates
<1>8. avail' + SumFrom(op.create, 1) = Funds + SumFrom(op.create, i + 1)
  <2>1. SumFrom(op.create, i) = n + SumFrom(op.create, i + 1)
    <3>1. SumFrom(op.create, i) = Pos(n) + SumFrom(op.create, i + 1)
      BY <1>1, <1>2, BundleFacts, SumFromStep
    <3> QED  BY <1>1, <1>2, <3>1 DEF Pos
  <2>2. /\ SumFrom(op.create, 1) \in Nat /\ SumFrom(op.create, i) \in Nat
        /\ SumFrom(op.create, i + 1) \in Nat
    <3>1. i \in Nat /\ i + 1 \in Nat /\ 1 \in Nat /\ op.create \in Seq(CreateItem)
      BY <1>2, BundleFacts
    <3> QED  BY <3>1, SumFromType
  <2>3. Funds \in Int /\ avail \in Int  BY FundsFacts, BundleFacts
  <2>4. avail' = avail - n  BY <1>1
  <2> HIDE DEF n
  <2> QED  BY <1>2, <1>3, <2>1, <2>2, <2>3, <2>4
<1>9. i + 1 <= Len(op.create) + 1  BY <1>1, <1>2, BundleFacts
<1> QED  BY <1>1, <1>3, <1>7, <1>8, <1>9 DEF Booked, Funds, AssetPhases

(* The balance check: the funds are what was created and what goes out.    *)
LEMMA CheckBalancedBooked == Inv /\ Booked /\ CheckBalanced /\ UNCHANGED <<op, snap>> => Booked'
<1> SUFFICES ASSUME Inv, Booked, CheckBalanced, UNCHANGED <<op, snap>>  PROVE Booked'  OBVIOUS
<1>1. /\ pc = "create" /\ pc' = "deposit" /\ i > Len(op.create) /\ utxo' = utxo
      /\ avail = TotalWithdraw(op)
  BY DEF CheckBalanced, ComesOut, storeVars
<1>2. i = Len(op.create) + 1  BY <1>1, BundleFacts DEF Booked
<1>3. /\ Creates(Len(op.create) + 1) /\ Funds <= MaxAmount
      /\ TotalWithdraw(op) + SumFrom(op.create, 1) = Funds + SumFrom(op.create, i)
  BY <1>1, <1>2 DEF Booked
<1>4. SumFrom(op.create, i) = 0  BY <1>1, BundleFacts, SumFromEnd
<1>5. SumFrom(op.create, 1) \in Nat /\ TotalWithdraw(op) \in Nat  BY BundleFacts, SumFromType
<1>6. Funds \in Int  BY FundsFacts
<1>7. Funds = SumFrom(op.create, 1) + TotalWithdraw(op)  BY <1>3, <1>4, <1>5, <1>6
<1>8. (Creates(Len(op.create) + 1))'  BY <1>1, <1>3 DEF Creates
<1> QED  BY <1>1, <1>3, <1>7, <1>8 DEF Booked, Funds, AssetPhases

LEMMA NextBooked == Inv /\ Booked /\ [Next]_vars => Booked'
<1> SUFFICES ASSUME Inv, Booked, [Next]_vars, pc' # "idle"  PROVE Booked'
  BY DEF Booked, AssetPhases
<1> USE DEF storeVars
<1>1. CASE \E o \in Ops : Transact(o)  BY <1>1, TransactFacts DEF Booked, AssetPhases
<1>2. CASE PreProcess /\ UNCHANGED <<op, snap>>  BY <1>2 DEF PreProcess, Booked, AssetPhases
<1>3. CASE RequireAuth /\ UNCHANGED <<op, snap>>
  <2>1. /\ pc' = "spend" /\ i' = 1 /\ utxo' = snap.utxo /\ avail' = TotalDeposit(op)
    BY <1>3 DEF RequireAuth, Booked
  <2>2. First(op.spend, 1) = {} /\ 1 <= Len(op.spend) + 1 /\ TotalDeposit(op) \in Nat
    BY FirstFacts, BundleFacts
  <2>3. Total(snap.utxo, First(op.spend, 1)) = 0  BY <2>2, TotalEmpty, Zenon
  <2>4. Spends(i)'  BY <1>3, <2>1, <2>2 DEF Spends
  <2>5. avail' = TotalDeposit(op) + Total(snap.utxo, First(op.spend, 1))
    BY <2>1, <2>2, <2>3
  <2>6. avail' = (TotalDeposit(op) + Total(snap.utxo, First(op.spend, i)))'
    BY <1>3, <2>1, <2>5
  <2> QED  BY <1>3, <2>1, <2>2, <2>4, <2>6 DEF Booked, AssetPhases
<1>4. CASE UNCHANGED <<op, snap>> /\ (SpendStep \/ SpendsDone \/ CreateStep \/ CheckBalanced)
  BY <1>4, SpendStepBooked, SpendsDoneBooked, CreateStepBooked, CheckBalancedBooked
<1>5. CASE /\ UNCHANGED <<utxo, op, snap>>
           /\ pc \in AssetPhases /\ pc' \in AssetPhases \cup {"exit"}
  <2>1. (Creates(Len(op.create) + 1))' = Creates(Len(op.create) + 1)  BY <1>5 DEF Creates
  <2> QED  BY <1>5, <2>1 DEF Booked, Funds, AssetPhases
<1>6. CASE UNCHANGED <<utxo, pc, op, i, avail, snap>>
  BY <1>6 DEF Booked, Funds, Spends, Creates
<1>7. /\ PullDeposit \/ IncreaseSupply \/ DepositsDone \/ PushWithdraw \/ DecreaseSupply
           \/ WithdrawsDone
      => /\ UNCHANGED utxo
         /\ pc \in AssetPhases /\ pc' \in AssetPhases \cup {"exit"}
  BY DEF PullDeposit, IncreaseSupply, DepositsDone, PushWithdraw, DecreaseSupply,
         WithdrawsDone, AssetPhases
<1> QED  BY <1>1, <1>2, <1>3, <1>4, <1>5, <1>6, <1>7, RunningStep
-----------------------------------------------------------------------------
(* What has been moved for an account, as the loop goes on.                *)
LEMMA PaidFirstFacts ==
  ASSUME NEW items \in Seq(ExternalItem), PositiveAmounts(items), NEW a
  PROVE  /\ PaidFirst(items, 1, a) = 0
         /\ \A n \in Nat : PaidFirst(items, n, a) \in Nat
         /\ \A n \in 1 .. Len(items) :
              PaidFirst(items, n + 1, a) =
                PaidFirst(items, n, a) + (IF items[n].addr = a THEN items[n].amount ELSE 0)
         /\ PaidFirst(items, Len(items) + 1, a) = AmountFor(items, a)
<1> DEFINE S(n) == {k \in 1 .. (n - 1) : items[k].addr = a}
<1>1. ASSUME NEW n \in Nat  PROVE IsFiniteSet(S(n))
  <2>1. IsFiniteSet(1 .. (n - 1))
    <3>1. 1 \in Int /\ n - 1 \in Int  OBVIOUS
    <3> QED  BY <3>1, FS_Interval, Zenon
  <2>2. S(n) \subseteq 1 .. (n - 1)  OBVIOUS
  <2> HIDE DEF S
  <2> QED  BY <2>1, <2>2, FS_Subset
<1>2. PaidFirst(items, 1, a) = 0
  <2>1. S(1) = {}  OBVIOUS
  <2> QED  BY <2>1, TotalEmpty, Zenon DEF PaidFirst
<1>3. ASSUME NEW n \in Nat  PROVE PaidFirst(items, n, a) \in Nat
  BY <1>1, <1>3, TotalType DEF PaidFirst
<1>4. ASSUME NEW n \in 1 .. Len(items)
      PROVE  PaidFirst(items, n + 1, a) =
               PaidFirst(items, n, a) + (IF items[n].addr = a THEN items[n].amount ELSE 0)
  <2>0. PaidFirst(items, n, a) \in Nat  BY <1>3
  <2>1. CASE items[n].addr = a
    <3>1. S(n + 1) = S(n) \cup {n} /\ n \notin S(n)  BY <2>1
    <3>2. /\ items[n].amount \in Int /\ items[n].amount <= MaxAmount /\ items[n].amount > 0
          /\ Amounts(items)[n] = items[n].amount
      BY ExternalFacts DEF PositiveAmounts, Amounts
    <3>3. IsFiniteSet(S(n))  BY <1>1
    <3>4. Total(Amounts(items), S(n) \cup {n}) = Total(Amounts(items), S(n)) + Pos(Amounts(items)[n])
      <4> HIDE DEF S
      <4> QED  BY <3>1, <3>2, <3>3, TotalAdd
    <3>5. Pos(Amounts(items)[n]) = items[n].amount  BY <3>2 DEF Pos
    <3>6. PaidFirst(items, n + 1, a) = PaidFirst(items, n, a) + items[n].amount
      BY <3>1, <3>4, <3>5, Zenon DEF PaidFirst
    <3> QED  BY <2>1, <3>6
  <2>2. CASE items[n].addr # a
    <3>1. S(n + 1) = S(n)
      <4>1. ASSUME NEW k  PROVE k \in S(n + 1) <=> k \in S(n)
        <5>1. k \in 1 .. ((n + 1) - 1) <=> k \in 1 .. (n - 1) \/ k = n  OBVIOUS
        <5> QED  BY <2>2, <5>1
      <4> QED  BY <4>1
    <3>2. PaidFirst(items, n + 1, a) = PaidFirst(items, n, a)  BY <3>1, Zenon DEF PaidFirst
    <3> QED  BY <2>0, <2>2, <3>2
  <2> QED  BY <2>1, <2>2
<1>5. PaidFirst(items, Len(items) + 1, a) = AmountFor(items, a)
  <2>1. 1 .. ((Len(items) + 1) - 1) = DOMAIN items  OBVIOUS
  <2> QED  BY <2>1 DEF PaidFirst, AmountFor
<1> QED  BY <1>2, <1>3, <1>4, <1>5

(* Every balance after a transfer of the asset.                            *)
LEMMA TransferExact ==
  ASSUME bal \in [Addresses -> 0 .. MaxAmount],
         NEW from \in Addresses, NEW to \in Addresses, NEW n \in Nat, Transfer(from, to, n)
  PROVE  /\ bal[from] >= n
         /\ \A a \in Addresses :
              bal'[a] = (bal[a] - (IF a = from THEN n ELSE 0)) + (IF a = to THEN n ELSE 0)
<1>0. MaxAmount \in Nat  BY AmountBounds
<1> DEFINE d == [bal EXCEPT ![from] = @ - n]
<1>1. /\ d[from] >= 0 /\ bal' = [d EXCEPT ![to] = d[to] + n]  BY DEF Transfer, CanTransfer, Debited
<1>2. d[from] = bal[from] - n /\ bal[from] \in Nat  BY <1>0
<1>3. ASSUME NEW a \in Addresses
      PROVE  bal'[a] = (bal[a] - (IF a = from THEN n ELSE 0)) + (IF a = to THEN n ELSE 0)
  <2>1. d[a] = bal[a] - (IF a = from THEN n ELSE 0)  BY <1>0
  <2>2. bal[a] \in Nat /\ DOMAIN d = Addresses  BY <1>0
  <2> HIDE DEF d
  <2>3. bal'[a] = d[a] + (IF a = to THEN n ELSE 0)  BY <1>1, <2>1, <2>2
  <2> QED  BY <2>1, <2>2, <2>3
<1>4. bal[from] >= n  BY <1>1, <1>2
<1> QED  BY <1>3, <1>4

(* The integers of the payments.                                           *)
LEMMA PaymentFacts ==
  ASSUME Inv, pc \notin {"idle", "pre"}
  PROVE  /\ \A a \in Addresses : bal[a] \in Nat /\ snap.bal[a] \in Nat
         /\ bal \in [Addresses -> 0 .. MaxAmount] /\ Channel \in Addresses
         /\ supply \in Int /\ snap.supply \in Int
         /\ \A n \in Nat : SumFrom(op.deposit, n) \in Nat /\ SumFrom(op.withdraw, n) \in Nat
         /\ TotalDeposit(op) = SumFrom(op.deposit, 1) /\ TotalWithdraw(op) = SumFrom(op.withdraw, 1)
         /\ PositiveAmounts(op.deposit) /\ PositiveAmounts(op.withdraw)
<1>1. /\ bal \in [Addresses -> 0 .. MaxAmount] /\ supply \in I128
      /\ snap.bal \in [Addresses -> 0 .. MaxAmount] /\ snap.supply \in I128
  BY LedgerFacts DEF Inv, TypeOK, LedgerType
<1>2. \A n \in Nat : SumFrom(op.deposit, n) \in Nat /\ SumFrom(op.withdraw, n) \in Nat
  BY BundleFacts, SumFromType
<1>3. Channel \in Addresses /\ MaxAmount \in Nat  BY AmountBounds DEF Addresses
<1>4. \A a \in Addresses : bal[a] \in Nat /\ snap.bal[a] \in Nat  BY <1>1, <1>3
<1>5. supply \in Int /\ snap.supply \in Int  BY <1>1, AmountBounds
<1>6. TotalDeposit(op) = SumFrom(op.deposit, 1) /\ TotalWithdraw(op) = SumFrom(op.withdraw, 1)
  BY DEF TotalDeposit, TotalWithdraw
<1>7. PositiveAmounts(op.deposit) /\ PositiveAmounts(op.withdraw)  BY RunningFacts
<1> QED  BY <1>1, <1>2, <1>3, <1>4, <1>5, <1>6, <1>7

LEMMA PullDepositPaid == Inv /\ PaidUp /\ PullDeposit /\ UNCHANGED <<op, snap>> => PaidUp'
<1> SUFFICES ASSUME Inv, PaidUp, PullDeposit, UNCHANGED <<op, snap>>  PROVE PaidUp'  OBVIOUS
<1> DEFINE from == op.deposit[i].addr
           n == op.deposit[i].amount
<1>1. /\ pc = "deposit" /\ pc' = "pulled" /\ i' = i /\ i <= Len(op.deposit) /\ supply' = supply
      /\ from # Channel /\ Transfer(from, Channel, n)
  BY DEF PullDeposit, CanPull
<1>2. /\ i \in Nat \ {0} /\ i \in 1 .. Len(op.deposit) /\ op.deposit \in Seq(ExternalItem)
      /\ op.withdraw \in Seq(ExternalItem)
      /\ PositiveAmounts(op.deposit) /\ PositiveAmounts(op.withdraw)
  BY <1>1, BundleFacts, PaymentFacts
<1>3. from \in Addresses /\ n \in Nat /\ n > 0 /\ n <= MaxAmount
  BY <1>2, ExternalFacts DEF PositiveAmounts
<1>4. Payments(i, 1) /\ supply = snap.supply + (TotalDeposit(op) - SumFrom(op.deposit, i))
  BY <1>1 DEF PaidUp
<1>5. /\ bal[from] >= n
      /\ \A a \in Addresses :
           bal'[a] = (bal[a] - (IF a = from THEN n ELSE 0)) + (IF a = Channel THEN n ELSE 0)
  <2>1. bal \in [Addresses -> 0 .. MaxAmount] /\ Channel \in Addresses  BY <1>1, PaymentFacts
  <2>2. Transfer(from, Channel, n) /\ from \in Addresses /\ n \in Nat  BY <1>1, <1>3
  <2> HIDE DEF from, n
  <2> QED  BY <2>1, <2>2, TransferExact
<1>6. SumFrom(op.deposit, i) = n + SumFrom(op.deposit, i + 1)
  BY <1>1, <1>2, <1>3, SumFromStep DEF Pos
<1>7. ASSUME NEW k \in 1 .. i
      PROVE  op.deposit[k].addr # Channel /\ snap.bal[op.deposit[k].addr] >= op.deposit[k].amount
  <2>1. CASE k # i
    <3>1. k \in 1 .. (i - 1)  BY <1>2, <2>1
    <3> QED  BY <1>4, <3>1 DEF Payments
  <2>2. CASE k = i
    <3>1. bal[from] = (snap.bal[from] - PaidFirst(op.deposit, i, from))
                        + PaidFirst(op.withdraw, 1, from)
      BY <1>1, <1>3, <1>4 DEF Payments
    <3>2. PaidFirst(op.deposit, i, from) \in Nat /\ PaidFirst(op.withdraw, 1, from) = 0
      BY <1>2, PaidFirstFacts
    <3>3. snap.bal[from] \in Nat  BY <1>1, <1>3, PaymentFacts
    <3>4. snap.bal[from] >= n
      <4> HIDE DEF from, n
      <4> QED  BY <1>3, <1>5, <3>1, <3>2, <3>3
    <3> QED  BY <1>1, <2>2, <3>4
  <2> QED  BY <2>1, <2>2
<1>8. ASSUME NEW a \in Addresses \ {Channel}
      PROVE  bal'[a] = (snap.bal[a] - PaidFirst(op.deposit, i + 1, a)) + PaidFirst(op.withdraw, 1, a)
  <2>1. bal[a] = (snap.bal[a] - PaidFirst(op.deposit, i, a)) + PaidFirst(op.withdraw, 1, a)
    BY <1>4 DEF Payments
  <2>2. PaidFirst(op.deposit, i + 1, a) = PaidFirst(op.deposit, i, a) + (IF from = a THEN n ELSE 0)
    BY <1>2, PaidFirstFacts
  <2>3. PaidFirst(op.deposit, i, a) \in Nat /\ PaidFirst(op.withdraw, 1, a) = 0
    BY <1>2, PaidFirstFacts
  <2>4. bal[a] \in Nat /\ snap.bal[a] \in Nat  BY <1>1, PaymentFacts
  <2>5. bal'[a] = bal[a] - (IF a = from THEN n ELSE 0)
    <3> HIDE DEF from, n
    <3> QED  BY <1>3, <1>5, <2>4
  <2> HIDE DEF from, n
  <2> QED  BY <1>3, <2>1, <2>2, <2>3, <2>4, <2>5
<1>9. bal'[Channel] =
        (snap.bal[Channel] + (TotalDeposit(op) - SumFrom(op.deposit, i + 1)))
          - ((TotalWithdraw(op) - SumFrom(op.withdraw, 1)) - PaidFirst(op.withdraw, 1, Channel))
  <2>1. bal[Channel] =
          (snap.bal[Channel] + (TotalDeposit(op) - SumFrom(op.deposit, i)))
            - ((TotalWithdraw(op) - SumFrom(op.withdraw, 1)) - PaidFirst(op.withdraw, 1, Channel))
    BY <1>4 DEF Payments
  <2>2. PaidFirst(op.withdraw, 1, Channel) = 0  BY <1>2, PaidFirstFacts
  <2>3. /\ Channel \in Addresses /\ bal[Channel] \in Nat /\ snap.bal[Channel] \in Nat
        /\ SumFrom(op.deposit, i) \in Nat /\ SumFrom(op.deposit, i + 1) \in Nat
        /\ TotalDeposit(op) \in Nat /\ TotalWithdraw(op) = SumFrom(op.withdraw, 1)
        /\ SumFrom(op.withdraw, 1) \in Nat
    <3>1. i \in Nat /\ i + 1 \in Nat /\ 1 \in Nat /\ pc \notin {"idle", "pre"}  BY <1>1, <1>2
    <3> QED  BY <3>1, PaymentFacts, BundleFacts
  <2>4. bal'[Channel] = bal[Channel] + n
    <3> HIDE DEF from, n
    <3> QED  BY <1>1, <1>3, <1>5, <2>3
  <2> HIDE DEF from, n
  <2> QED  BY <1>3, <1>6, <2>1, <2>2, <2>3, <2>4
<1>10. (Payments(i + 1, 1))'
  <2>1. 1 .. ((i + 1) - 1) = 1 .. i  BY <1>2
  <2> HIDE DEF from, n
  <2> QED  BY <1>1, <1>7, <1>8, <1>9, <2>1 DEF Payments
<1> QED  BY <1>1, <1>4, <1>10 DEF PaidUp

LEMMA IncreaseSupplyPaid == Inv /\ PaidUp /\ IncreaseSupply /\ UNCHANGED <<op, snap>> => PaidUp'
<1> SUFFICES ASSUME Inv, PaidUp, IncreaseSupply, UNCHANGED <<op, snap>>  PROVE PaidUp'
  OBVIOUS
<1> DEFINE n == op.deposit[i].amount
<1>1. /\ pc = "pulled" /\ pc' = "deposit" /\ i' = i + 1 /\ supply' = supply + n /\ bal' = bal
  BY DEF IncreaseSupply
<1>2. /\ i \in Nat \ {0} /\ i <= Len(op.deposit) /\ op.deposit \in Seq(ExternalItem)
      /\ PositiveAmounts(op.deposit)
  BY <1>1, BundleFacts, PaymentFacts DEF Inv, Shape
<1>3. n \in Nat /\ n > 0 /\ n <= MaxAmount  BY <1>2, ExternalFacts DEF PositiveAmounts
<1>4. /\ Payments(i + 1, 1)
      /\ supply = snap.supply + (TotalDeposit(op) - SumFrom(op.deposit, i))
  BY <1>1 DEF PaidUp
<1>5. SumFrom(op.deposit, i) = n + SumFrom(op.deposit, i + 1)
  BY <1>2, <1>3, SumFromStep DEF Pos
<1>6. supply' = snap.supply + (TotalDeposit(op) - SumFrom(op.deposit, i + 1))
  <2>1. i \in Nat /\ i + 1 \in Nat /\ pc \notin {"idle", "pre"}  BY <1>1, <1>2
  <2>2. /\ supply \in Int /\ snap.supply \in Int /\ TotalDeposit(op) \in Int
        /\ SumFrom(op.deposit, i + 1) \in Nat
    <3>1. TotalDeposit(op) \in Int  BY BundleFacts
    <3> QED  BY <2>1, <3>1, PaymentFacts
  <2> HIDE DEF n
  <2> QED  BY <1>1, <1>3, <1>4, <1>5, <2>2
<1>7. Payments(i, 1)'  BY <1>1, <1>4 DEF Payments
<1>8. i + 1 <= Len(op.deposit) + 1  BY <1>2
<1> QED  BY <1>1, <1>6, <1>7, <1>8 DEF PaidUp

(* All deposits are in: neither the channel's balance nor its supply left  *)
(* its type.                                                               *)
LEMMA DepositsDonePaid == Inv /\ PaidUp /\ DepositsDone /\ UNCHANGED <<op, snap>> => PaidUp'
<1> SUFFICES ASSUME Inv, PaidUp, DepositsDone, UNCHANGED <<op, snap>>  PROVE PaidUp'
  OBVIOUS
<1>1. /\ pc = "deposit" /\ pc' = "withdraw" /\ i > Len(op.deposit) /\ i' = 1
      /\ supply' = supply /\ bal' = bal /\ pc \notin {"idle", "pre"}
  BY DEF DepositsDone
<1>2. i = Len(op.deposit) + 1 /\ Payments(i, 1)  BY <1>1, BundleFacts DEF PaidUp
<1>3. SumFrom(op.deposit, i) = 0  BY <1>1, BundleFacts, SumFromEnd
<1>4. /\ supply \in Int /\ snap.supply \in Int /\ TotalDeposit(op) \in Nat
      /\ TotalWithdraw(op) = SumFrom(op.withdraw, 1) /\ TotalWithdraw(op) \in Nat
      /\ bal[Channel] \in Nat /\ snap.bal[Channel] \in Nat
      /\ bal[Channel] <= MaxAmount /\ supply <= MaxAmount
  <2>1. bal[Channel] \in 0 .. MaxAmount /\ supply \in I128
    BY LedgerFacts DEF Inv, TypeOK, Addresses
  <2>2. TotalDeposit(op) \in Nat /\ TotalWithdraw(op) \in Nat  BY BundleFacts
  <2>3. /\ supply \in Int /\ snap.supply \in Int
        /\ TotalWithdraw(op) = SumFrom(op.withdraw, 1)
        /\ bal[Channel] \in Nat /\ snap.bal[Channel] \in Nat
    BY <1>1, PaymentFacts
  <2> QED  BY <2>1, <2>2, <2>3, AmountBounds
<1>5. supply = snap.supply + TotalDeposit(op)  BY <1>1, <1>3, <1>4 DEF PaidUp
<1>6. bal[Channel] = snap.bal[Channel] + TotalDeposit(op)
  <2>1. PaidFirst(op.withdraw, 1, Channel) = 0  BY <1>1, PaidFirstFacts, BundleFacts, PaymentFacts
  <2>2. bal[Channel] =
          (snap.bal[Channel] + (TotalDeposit(op) - SumFrom(op.deposit, i)))
            - ((TotalWithdraw(op) - SumFrom(op.withdraw, 1)) - PaidFirst(op.withdraw, 1, Channel))
    BY <1>2 DEF Payments
  <2> QED  BY <1>3, <1>4, <2>1, <2>2
<1>7. supply = (snap.supply + TotalDeposit(op)) - (TotalWithdraw(op) - SumFrom(op.withdraw, 1))
  BY <1>4, <1>5
<1>8. (Payments(Len(op.deposit) + 1, i))'  BY <1>1, <1>2 DEF Payments
<1>9. 1 <= Len(op.withdraw) + 1  BY BundleFacts
<1> QED  BY <1>1, <1>4, <1>5, <1>6, <1>7, <1>8, <1>9 DEF PaidUp

LEMMA PushWithdrawPaid == Inv /\ PaidUp /\ PushWithdraw /\ UNCHANGED <<op, snap>> => PaidUp'
<1> SUFFICES ASSUME Inv, PaidUp, PushWithdraw, UNCHANGED <<op, snap>>  PROVE PaidUp'  OBVIOUS
<1> DEFINE to == op.withdraw[i].addr
           n == op.withdraw[i].amount
           d == Len(op.deposit) + 1
<1>1. /\ pc = "withdraw" /\ pc' = "pushed" /\ i' = i /\ i <= Len(op.withdraw)
      /\ supply' = supply /\ Transfer(Channel, to, n)
  BY DEF PushWithdraw
<1>2. /\ i \in Nat \ {0} /\ i \in 1 .. Len(op.withdraw) /\ op.deposit \in Seq(ExternalItem)
      /\ op.withdraw \in Seq(ExternalItem) /\ d \in Nat
      /\ PositiveAmounts(op.deposit) /\ PositiveAmounts(op.withdraw)
  <2>1. PositiveAmounts(op.deposit) /\ PositiveAmounts(op.withdraw)  BY <1>1, PaymentFacts
  <2> QED  BY <1>1, <2>1, BundleFacts
<1>3. to \in Addresses /\ n \in Nat /\ n > 0 /\ n <= MaxAmount
  BY <1>2, ExternalFacts DEF PositiveAmounts
<1>4. Payments(d, i)  BY <1>1 DEF PaidUp
<1>5. \A a \in Addresses :
        bal'[a] = (bal[a] - (IF a = Channel THEN n ELSE 0)) + (IF a = to THEN n ELSE 0)
  <2>1. bal \in [Addresses -> 0 .. MaxAmount] /\ Channel \in Addresses  BY <1>1, PaymentFacts
  <2>2. Transfer(Channel, to, n) /\ to \in Addresses /\ n \in Nat  BY <1>1, <1>3
  <2> HIDE DEF to, n
  <2> QED  BY <2>1, <2>2, TransferExact
<1>6. SumFrom(op.withdraw, i) = n + SumFrom(op.withdraw, i + 1)
  BY <1>1, <1>2, <1>3, SumFromStep DEF Pos
<1>7. ASSUME NEW a \in Addresses
      PROVE  /\ PaidFirst(op.withdraw, i + 1, a) =
                  PaidFirst(op.withdraw, i, a) + (IF to = a THEN n ELSE 0)
             /\ PaidFirst(op.withdraw, i, a) \in Nat /\ PaidFirst(op.deposit, d, a) \in Nat
             /\ bal[a] \in Nat /\ snap.bal[a] \in Nat
  <2>1. bal[a] \in Nat /\ snap.bal[a] \in Nat  BY <1>1, PaymentFacts
  <2> HIDE DEF d
  <2> QED  BY <1>2, <2>1, PaidFirstFacts
<1>8. ASSUME NEW a \in Addresses \ {Channel}
      PROVE  bal'[a] = (snap.bal[a] - PaidFirst(op.deposit, d, a)) + PaidFirst(op.withdraw, i + 1, a)
  <2>1. bal[a] = (snap.bal[a] - PaidFirst(op.deposit, d, a)) + PaidFirst(op.withdraw, i, a)
    BY <1>4 DEF Payments
  <2>2. bal'[a] = bal[a] + (IF a = to THEN n ELSE 0)
    <3> HIDE DEF to, n
    <3> QED  BY <1>3, <1>5, <1>7
  <2> HIDE DEF to, n, d
  <2> QED  BY <1>3, <1>7, <2>1, <2>2
<1>9. bal'[Channel] =
        (snap.bal[Channel] + (TotalDeposit(op) - SumFrom(op.deposit, d)))
          - ((TotalWithdraw(op) - SumFrom(op.withdraw, i + 1)) - PaidFirst(op.withdraw, i + 1, Channel))
  <2>1. bal[Channel] =
          (snap.bal[Channel] + (TotalDeposit(op) - SumFrom(op.deposit, d)))
            - ((TotalWithdraw(op) - SumFrom(op.withdraw, i)) - PaidFirst(op.withdraw, i, Channel))
    BY <1>4 DEF Payments
  <2>2. /\ Channel \in Addresses /\ SumFrom(op.deposit, d) \in Nat
        /\ SumFrom(op.withdraw, i) \in Nat /\ SumFrom(op.withdraw, i + 1) \in Nat
        /\ TotalDeposit(op) \in Nat /\ TotalWithdraw(op) \in Nat
    <3>1. i \in Nat /\ i + 1 \in Nat /\ pc \notin {"idle", "pre"}  BY <1>1, <1>2
    <3> HIDE DEF d
    <3> QED  BY <1>2, <3>1, PaymentFacts, BundleFacts
  <2>3. bal'[Channel] = (bal[Channel] - n) + (IF Channel = to THEN n ELSE 0)
    BY <1>5, <2>2
  <2>4. /\ PaidFirst(op.withdraw, i + 1, Channel) =
             PaidFirst(op.withdraw, i, Channel) + (IF to = Channel THEN n ELSE 0)
        /\ PaidFirst(op.withdraw, i, Channel) \in Nat
        /\ bal[Channel] \in Nat /\ snap.bal[Channel] \in Nat
    BY <1>7, <2>2
  <2> HIDE DEF to, n, d
  <2>5. CASE to = Channel  BY <1>3, <1>6, <2>1, <2>2, <2>3, <2>4, <2>5
  <2>6. CASE to # Channel  BY <1>3, <1>6, <2>1, <2>2, <2>3, <2>4, <2>6
  <2> QED  BY <2>5, <2>6
<1>10. (Payments(Len(op.deposit) + 1, i + 1))'
  BY <1>1, <1>4, <1>8, <1>9 DEF Payments
<1> QED  BY <1>1, <1>10 DEF PaidUp

LEMMA DecreaseSupplyPaid == Inv /\ PaidUp /\ DecreaseSupply /\ UNCHANGED <<op, snap>> => PaidUp'
<1> SUFFICES ASSUME Inv, PaidUp, DecreaseSupply, UNCHANGED <<op, snap>>  PROVE PaidUp'
  OBVIOUS
<1> DEFINE n == op.withdraw[i].amount
<1>1. /\ pc = "pushed" /\ pc' = "withdraw" /\ i' = i + 1 /\ supply' = supply - n /\ bal' = bal
  BY DEF DecreaseSupply
<1>2. /\ i \in Nat \ {0} /\ i <= Len(op.withdraw) /\ op.withdraw \in Seq(ExternalItem)
      /\ PositiveAmounts(op.withdraw)
  BY <1>1, BundleFacts, PaymentFacts DEF Inv, Shape
<1>3. n \in Nat /\ n > 0 /\ n <= MaxAmount  BY <1>2, ExternalFacts DEF PositiveAmounts
<1>4. /\ Payments(Len(op.deposit) + 1, i + 1)
      /\ supply = (snap.supply + TotalDeposit(op)) - (TotalWithdraw(op) - SumFrom(op.withdraw, i))
  BY <1>1 DEF PaidUp
<1>5. SumFrom(op.withdraw, i) = n + SumFrom(op.withdraw, i + 1)
  BY <1>2, <1>3, SumFromStep DEF Pos
<1>6. supply' = (snap.supply + TotalDeposit(op)) - (TotalWithdraw(op) - SumFrom(op.withdraw, i + 1))
  <2>1. i \in Nat /\ i + 1 \in Nat /\ pc \notin {"idle", "pre"}  BY <1>1, <1>2
  <2>2. /\ supply \in Int /\ snap.supply \in Int /\ TotalDeposit(op) \in Int
        /\ TotalWithdraw(op) \in Int /\ SumFrom(op.withdraw, i + 1) \in Nat
    <3>1. TotalDeposit(op) \in Int /\ TotalWithdraw(op) \in Int  BY BundleFacts
    <3> QED  BY <2>1, <3>1, PaymentFacts
  <2> HIDE DEF n
  <2> QED  BY <1>1, <1>3, <1>4, <1>5, <2>2
<1>7. (Payments(Len(op.deposit) + 1, i))'  BY <1>1, <1>4 DEF Payments
<1>8. i + 1 <= Len(op.withdraw) + 1  BY <1>2
<1> QED  BY <1>1, <1>6, <1>7, <1>8 DEF PaidUp

LEMMA WithdrawsDonePaid == Inv /\ PaidUp /\ WithdrawsDone /\ UNCHANGED <<op, snap>> => PaidUp'
<1> SUFFICES ASSUME Inv, PaidUp, WithdrawsDone, UNCHANGED <<op, snap>>  PROVE PaidUp'
  OBVIOUS
<1>1. /\ pc = "withdraw" /\ pc' = "exit" /\ i > Len(op.withdraw)
      /\ supply' = supply /\ bal' = bal
  BY DEF WithdrawsDone
<1>2. /\ i = Len(op.withdraw) + 1 /\ Payments(Len(op.deposit) + 1, i)
      /\ supply = (snap.supply + TotalDeposit(op)) - (TotalWithdraw(op) - SumFrom(op.withdraw, i))
  BY <1>1, BundleFacts DEF PaidUp
<1>3. SumFrom(op.withdraw, i) = 0  BY <1>1, BundleFacts, SumFromEnd
<1>4. supply = (snap.supply + TotalDeposit(op)) - TotalWithdraw(op)
  BY <1>2, <1>3, BundleFacts
<1>5. (Payments(Len(op.deposit) + 1, Len(op.withdraw) + 1))'  BY <1>1, <1>2 DEF Payments
<1> QED  BY <1>1, <1>4, <1>5 DEF PaidUp

LEMMA NextPaid == Inv /\ PaidUp /\ [Next]_vars => PaidUp'
<1> SUFFICES ASSUME Inv, PaidUp, [Next]_vars, pc' # "idle"  PROVE PaidUp'
  BY DEF PaidUp
<1> USE DEF storeVars
<1>1. CASE \E o \in Ops : Transact(o)  BY <1>1, TransactFacts DEF PaidUp
<1>2. CASE /\ UNCHANGED <<supply, bal, op, snap>>
           /\ pc \in {"pre", "auth", "spend", "create"}
           /\ pc' \in {"pre", "auth", "spend", "create"}
  BY <1>2 DEF PaidUp
<1>3. CASE CheckBalanced /\ UNCHANGED <<op, snap>>
  <2>1. /\ pc = "create" /\ pc' = "deposit" /\ i' = 1 /\ bal' = bal /\ supply' = supply
        /\ bal = snap.bal /\ supply = snap.supply /\ pc \notin {"idle", "pre"}
    BY <1>3 DEF CheckBalanced, PaidUp
  <2>2. \A a : PaidFirst(op.deposit, 1, a) = 0 /\ PaidFirst(op.withdraw, 1, a) = 0
    BY <2>1, PaidFirstFacts, PaymentFacts, BundleFacts
  <2>3. /\ TotalDeposit(op) = SumFrom(op.deposit, 1) /\ TotalDeposit(op) \in Nat
        /\ TotalWithdraw(op) = SumFrom(op.withdraw, 1) /\ TotalWithdraw(op) \in Nat
        /\ \A a \in Addresses : bal[a] \in Nat
        /\ Channel \in Addresses /\ snap.supply \in Int /\ 1 <= Len(op.deposit) + 1
    BY <2>1, PaymentFacts, BundleFacts
  <2>4. \A a \in Addresses \ {Channel} :
          bal[a] = (snap.bal[a] - PaidFirst(op.deposit, 1, a)) + PaidFirst(op.withdraw, 1, a)
    BY <2>1, <2>2, <2>3
  <2>5. bal[Channel] =
          (snap.bal[Channel] + (TotalDeposit(op) - SumFrom(op.deposit, 1)))
            - ((TotalWithdraw(op) - SumFrom(op.withdraw, 1)) - PaidFirst(op.withdraw, 1, Channel))
    BY <2>1, <2>2, <2>3
  <2>6. Payments(i, 1)'  BY <1>3, <2>1, <2>4, <2>5 DEF Payments
  <2>7. supply' = snap.supply + (TotalDeposit(op) - SumFrom(op.deposit, 1))  BY <2>1, <2>3
  <2> QED  BY <1>3, <2>1, <2>3, <2>6, <2>7 DEF PaidUp
<1>4. CASE /\ UNCHANGED <<op, snap>>
           /\ \/ PullDeposit \/ IncreaseSupply \/ DepositsDone
              \/ PushWithdraw \/ DecreaseSupply \/ WithdrawsDone
  BY <1>4, PullDepositPaid, IncreaseSupplyPaid, DepositsDonePaid, PushWithdrawPaid,
     DecreaseSupplyPaid, WithdrawsDonePaid
<1>5. CASE UNCHANGED <<supply, bal, pc, op, i, snap>>
  BY <1>5 DEF PaidUp, Payments
<1>6. PreProcess \/ RequireAuth \/ SpendStep \/ SpendsDone \/ CreateStep =>
        /\ UNCHANGED <<supply, bal>>
        /\ pc \in {"pre", "auth", "spend", "create"}
        /\ pc' \in {"pre", "auth", "spend", "create"}
  BY DEF PreProcess, RequireAuth, SpendStep, SpendsDone, CreateStep
<1> QED  BY <1>1, <1>2, <1>3, <1>4, <1>5, <1>6, RunningStep

LEMMA ChannelProgress == Spec => [](Inv /\ Checked /\ Booked /\ PaidUp)
<1>1. Init => Inv /\ Checked /\ Booked /\ PaidUp
  BY InitInv DEF Init, Checked, Booked, PaidUp, AssetPhases
<1>2. (Inv /\ Checked /\ Booked /\ PaidUp) /\ [Next]_vars => (Inv /\ Checked /\ Booked /\ PaidUp)'
  BY NextInv, NextChecked, NextBooked, NextPaid
<1> QED  BY <1>1, <1>2, PTL DEF Spec
-----------------------------------------------------------------------------
(* From the end of process_bundle on the UTXOs are those of the            *)
(* settlement; at the exit so are the supply and the balances.             *)
LEMMA BookedUtxos ==
  ASSUME Inv, Booked, pc \in AssetPhases \cup {"exit"}
  PROVE  /\ Balanced(snap, op)
         /\ utxo = UtxosAfter(snap, op)
         /\ \A k \in 1 .. Len(op.create) :
              /\ snap.utxo[op.create[k].utxo] = -1
              /\ op.create[k].amount > 0
              /\ utxo[op.create[k].utxo] = op.create[k].amount
<1>1. /\ Creates(Len(op.create) + 1) /\ Funds <= MaxAmount
      /\ Funds = SumFrom(op.create, 1) + TotalWithdraw(op)
  BY DEF Booked
<1>2. 1 .. ((Len(op.create) + 1) - 1) = 1 .. Len(op.create)  BY BundleFacts
<1>3. \A k \in 1 .. Len(op.create) :
        /\ snap.utxo[op.create[k].utxo] = -1
        /\ op.create[k].amount > 0
        /\ utxo[op.create[k].utxo] = op.create[k].amount
  BY <1>1, <1>2 DEF Creates
<1>4. \A u \in SpentBy(op) : snap.utxo[u] > 0 /\ utxo[u] = 0  BY <1>1 DEF Creates
<1>5. ToSet(op.create) = {op.create[k] : k \in 1 .. Len(op.create)}
  BY BundleFacts DEF ToSet
<1>6. First(op.create, Len(op.create) + 1) = CreatedBy(op)
  BY BundleFacts, FirstFacts DEF CreatedBy
<1>7. Balanced(snap, op)  BY <1>1, <1>3, <1>4, <1>5 DEF Balanced, Funds
<1>8. ASSUME NEW u \in Utxos  PROVE utxo[u] = UtxosAfter(snap, op)[u]
  <2>0. DOMAIN snap.utxo = Utxos  BY BundleFacts
  <2>1. CASE u \in SpentBy(op)  BY <1>4, <2>0, <2>1 DEF UtxosAfter
  <2>2. CASE u \notin SpentBy(op) /\ u \in CreatedBy(op)
    <3>1. \E c \in ToSet(op.create) : c.utxo = u  BY <1>5, <2>2, FundsFacts
    <3> DEFINE c == CHOOSE c \in ToSet(op.create) : c.utxo = u
    <3>2. c \in ToSet(op.create) /\ c.utxo = u  BY <3>1
    <3>3. UtxosAfter(snap, op)[u] = c.amount  BY <2>0, <2>2 DEF UtxosAfter
    <3> HIDE DEF c
    <3>4. PICK k \in 1 .. Len(op.create) : c = op.create[k]  BY <1>5, <3>2
    <3>5. utxo[u] = c.amount  BY <1>3, <3>2, <3>4
    <3> QED  BY <3>3, <3>5
  <2>3. CASE u \notin SpentBy(op) /\ u \notin CreatedBy(op)
    BY <1>1, <1>6, <2>0, <2>3 DEF Creates, UtxosAfter
  <2> QED  BY <2>1, <2>2, <2>3
<1>9. utxo = UtxosAfter(snap, op)
  <2>1. UtxosAfter(snap, op) = [u \in Utxos |-> UtxosAfter(snap, op)[u]]
    BY BundleFacts DEF UtxosAfter
  <2>2. utxo = [u \in Utxos |-> utxo[u]]  BY BundleFacts
  <2> QED  BY <1>8, <2>1, <2>2
<1> QED  BY <1>3, <1>7, <1>9

LEMMA ExitBalances ==
  ASSUME Inv, PaidUp, pc = "exit"
  PROVE  \A a \in Addresses : bal[a] = Paid(Channel, snap, op, a)
<1> SUFFICES ASSUME NEW a \in Addresses  PROVE bal[a] = Paid(Channel, snap, op, a)
  OBVIOUS
<1>1. Payments(Len(op.deposit) + 1, Len(op.withdraw) + 1)  BY DEF PaidUp
<1>2. /\ PaidFirst(op.deposit, Len(op.deposit) + 1, a) = AmountFor(op.deposit, a)
      /\ PaidFirst(op.withdraw, Len(op.withdraw) + 1, a) = AmountFor(op.withdraw, a)
  BY PaidFirstFacts, PaymentFacts, BundleFacts
<1>3. CASE a # Channel  BY <1>1, <1>2, <1>3 DEF Payments, Paid
<1>4. CASE a = Channel
  <2>1. SumFrom(op.deposit, Len(op.deposit) + 1) = 0 /\ SumFrom(op.withdraw, Len(op.withdraw) + 1) = 0
    <3>1. /\ op.deposit \in Seq(ExternalItem) /\ op.withdraw \in Seq(ExternalItem)
          /\ Len(op.deposit) + 1 \in Nat /\ Len(op.deposit) + 1 > Len(op.deposit)
          /\ Len(op.withdraw) + 1 \in Nat /\ Len(op.withdraw) + 1 > Len(op.withdraw)
      BY BundleFacts
    <3> QED  BY <3>1, SumFromEnd
  <2>2. TotalDeposit(op) \in Nat /\ TotalWithdraw(op) \in Nat  BY BundleFacts
  <2>3. snap.bal[a] \in Nat  BY PaymentFacts
  <2>4. bal[a] =
          (snap.bal[a] + (TotalDeposit(op) - 0))
            - ((TotalWithdraw(op) - 0) - AmountFor(op.withdraw, a))
    BY <1>1, <1>2, <1>4, <2>1 DEF Payments
  <2>5. AmountFor(op.withdraw, a) \in Nat
    <3>1. Len(op.withdraw) + 1 \in Nat  BY BundleFacts
    <3>2. PaidFirst(op.withdraw, Len(op.withdraw) + 1, a) \in Nat
      BY <3>1, PaidFirstFacts, PaymentFacts, BundleFacts
    <3> QED  BY <1>2, <3>2
  <2>6. Paid(Channel, snap, op, a) =
          snap.bal[a] + (TotalDeposit(op) - (TotalWithdraw(op) - AmountFor(op.withdraw, a)))
    BY <1>4, <2>2, <2>3, <2>5 DEF Paid
  <2> QED  BY <2>2, <2>3, <2>4, <2>5, <2>6
<1> QED  BY <1>3, <1>4

(* The channel can pay because it was solvent when the call started, and   *)
(* what is left of its supply is the value of its UTXOs.                   *)
LEMMA ExitPayable ==
  ASSUME Inv, PaidUp, pc = "exit"
  PROVE  Payable(Channel, snap, op)
<1>0. DOMAIN op.deposit = 1 .. Len(op.deposit) /\ DOMAIN op.withdraw = 1 .. Len(op.withdraw)
  BY BundleFacts
<1>1. ToSet(op.deposit) = {op.deposit[k] : k \in 1 .. Len(op.deposit)}  BY <1>0 DEF ToSet
<1>2. \A k \in 1 .. Len(op.deposit) :
        op.deposit[k].addr # Channel /\ snap.bal[op.deposit[k].addr] >= op.deposit[k].amount
  <2>1. 1 .. ((Len(op.deposit) + 1) - 1) = 1 .. Len(op.deposit)  BY BundleFacts
  <2> QED  BY <2>1 DEF PaidUp, Payments
<1>3. /\ snap.bal[Channel] + TotalDeposit(op) <= MaxAmount
      /\ snap.supply + TotalDeposit(op) <= MaxAmount
      /\ supply = (snap.supply + TotalDeposit(op)) - TotalWithdraw(op)
  BY DEF PaidUp
<1>4. /\ snap.bal[Channel] \in Nat /\ snap.supply \in Int /\ supply \in Int
      /\ TotalDeposit(op) \in Nat /\ TotalWithdraw(op) \in Nat
  <2>1. TotalDeposit(op) \in Nat /\ TotalWithdraw(op) \in Nat  BY BundleFacts
  <2> QED  BY <2>1, PaymentFacts
<1>5. snap.bal[Channel] + TotalDeposit(op) >= TotalWithdraw(op)
  <2>1. supply >= 0
    <3>1. Total(utxo, Utxos) = supply  BY DEF Inv, Accounting
    <3> QED  BY <3>1, TotalUtxoType
  <2>2. snap.bal[Channel] >= snap.supply  BY DEF Inv, Shape
  <2> QED  BY <1>3, <1>4, <2>1, <2>2
<1>6. snap.bal[Channel] + TotalDeposit(op) \in TotalWithdraw(op) .. MaxAmount
  BY <1>3, <1>4, <1>5, AmountBounds
<1>7. ASSUME NEW w \in ToSet(op.withdraw)  PROVE Paid(Channel, snap, op, w.addr) <= MaxAmount
  <2>1. PICK k \in 1 .. Len(op.withdraw) : w = op.withdraw[k]  BY <1>0 DEF ToSet
  <2>2. w.addr \in Addresses  BY <2>1, BundleFacts, ExternalFacts
  <2>3. bal[w.addr] \in 0 .. MaxAmount  BY <2>2, PaymentFacts
  <2>4. bal[w.addr] <= MaxAmount  BY <2>3, AmountBounds
  <2> QED  BY <2>2, <2>4, ExitBalances
<1>8. ASSUME NEW x \in ToSet(op.deposit)  PROVE x.addr # Channel /\ snap.bal[x.addr] >= x.amount
  BY <1>1, <1>2
<1> QED  BY <1>3, <1>6, <1>7, <1>8 DEF Payable

LEMMA ExitSettlement ==
  ASSUME Inv, Checked, Booked, PaidUp
  PROVE  SettlesExactly
<1> SUFFICES ASSUME pc = "exit"
             PROVE  /\ Accepts(Channel, snap, op)
                    /\ [utxo |-> utxo, supply |-> supply, bal |-> bal] =
                         Settlement(Channel, snap, op)
  BY DEF SettlesExactly
<1>1. WellFormed(op)  BY DEF Checked, WellFormed
<1>2. Balanced(snap, op) /\ utxo = UtxosAfter(snap, op)  BY BookedUtxos
<1>3. Payable(Channel, snap, op)  BY ExitPayable
<1>4. supply = snap.supply + TotalDeposit(op) - TotalWithdraw(op)
  <2>1. supply = (snap.supply + TotalDeposit(op)) - TotalWithdraw(op)  BY DEF PaidUp
  <2>2. snap.supply \in Int /\ TotalDeposit(op) \in Nat /\ TotalWithdraw(op) \in Nat
    BY PaymentFacts, BundleFacts
  <2> QED  BY <2>1, <2>2
<1>5. bal = [a \in DOMAIN snap.bal |-> Paid(Channel, snap, op, a)]
  <2>1. DOMAIN snap.bal = Addresses /\ bal = [a \in Addresses |-> bal[a]]
    BY LedgerFacts DEF Inv, TypeOK, LedgerType
  <2> QED  BY <2>1, ExitBalances
<1> QED  BY <1>1, <1>2, <1>3, <1>4, <1>5 DEF Accepts, Settlement

(* A call of transact that reaches its end was acceptable, as a whole, on  *)
(* the ledger it started on, and leaves exactly its settlement.            *)
THEOREM ChannelSettlesExactly == Spec => []SettlesExactly
BY ChannelProgress, ExitSettlement, PTL
-----------------------------------------------------------------------------
(* And a bundle that is acceptable on the ledger a call started on meets   *)
(* no check on the way that fails: one lemma for each loop of the call.    *)
LEMMA AcceptedFacts ==
  ASSUME Accepts(Channel, snap, op)
  PROVE  /\ PreProcessed(op) /\ NoUtxoTwice(op)
         /\ NoDuplicates(AddressesOf(op.deposit)) /\ NoDuplicates(AddressesOf(op.withdraw))
         /\ Balanced(snap, op) /\ Payable(Channel, snap, op)
BY DEF Accepts, WellFormed, PreProcessed, VerifyExternalOperations

LEMMA SpendPasses ==
  ASSUME Inv, Booked, Accepts(Channel, snap, op), \A u \in SpentBy(op) : Store!Readable(u),
         pc = "spend", i <= Len(op.spend)
  PROVE  CanSpend
<1> DEFINE u == op.spend[i].utxo
           F == First(op.spend, i)
<1>1. /\ op.spend \in Seq(SpendItem) /\ i \in 1 .. Len(op.spend)
      /\ DOMAIN op.spend = 1 .. Len(op.spend)
      /\ snap.utxo \in [Utxos -> -1 .. MaxAmount] /\ MaxAmount \in Nat
      /\ avail \in Int /\ TotalDeposit(op) \in Nat
  BY BundleFacts, AmountBounds
<1>2. u \in SpentBy(op) /\ u \in Utxos /\ SpentBy(op) \subseteq Utxos  BY <1>1, FundsFacts
<1>3. snap.utxo[u] > 0 /\ TotalDeposit(op) + Total(snap.utxo, SpentBy(op)) <= MaxAmount
  BY <1>2, AcceptedFacts DEF Balanced
<1>4. u \notin F
  <2>1. \A j, k \in DOMAIN op.spend : op.spend[j].utxo = op.spend[k].utxo => j = k
    BY AcceptedFacts DEF NoUtxoTwice, NoDuplicates, UtxosOf
  <2>2. ASSUME NEW k \in 1 .. (i - 1)  PROVE op.spend[k].utxo # u
    <3>1. k \in 1 .. Len(op.spend) /\ k # i  BY <1>1
    <3> QED  BY <1>1, <2>1, <3>1
  <2> QED  BY <2>2 DEF First
<1>5. /\ utxo[u] = snap.utxo[u] /\ avail = TotalDeposit(op) + Total(snap.utxo, F)
  BY <1>2, <1>4 DEF Booked, Spends
<1>6. F \subseteq SpentBy(op)
  <2>1. 1 .. (i - 1) \subseteq 1 .. Len(op.spend)  BY <1>1
  <2> QED  BY <2>1, FundsFacts DEF First
<1>7. IsFiniteSet(SpentBy(op)) /\ IsFiniteSet(F)
  BY <1>2, <1>6, UtxosAssumption, FS_Subset
<1>8. snap.utxo[u] \in Int /\ snap.utxo[u] <= MaxAmount  BY <1>1, <1>2
<1> HIDE DEF u, F
<1>9. Total(snap.utxo, F \cup {u}) = Total(snap.utxo, F) + snap.utxo[u]
  <2>1. Total(snap.utxo, F \cup {u}) = Total(snap.utxo, F) + Pos(snap.utxo[u])
    BY <1>4, <1>7, <1>8, TotalAdd
  <2> QED  BY <1>3, <1>8, <2>1 DEF Pos
<1>10. Total(snap.utxo, F \cup {u}) <= Total(snap.utxo, SpentBy(op))
  <2>1. F \cup {u} \subseteq SpentBy(op)  BY <1>2, <1>6
  <2> QED  BY <1>7, <2>1, TotalSubset
<1>11. Total(snap.utxo, F) \in Nat /\ Total(snap.utxo, SpentBy(op)) \in Nat  BY <1>7, TotalType
<1>12. avail + utxo[u] \in I128
  <2>1. avail + utxo[u] \in Int /\ avail + utxo[u] >= 0 /\ avail + utxo[u] <= MaxAmount
    <3> DEFINE v == snap.utxo[u]
               t == Total(snap.utxo, F)
               all == Total(snap.utxo, SpentBy(op))
    <3>1. TotalDeposit(op) \in Nat /\ MaxAmount \in Nat  BY <1>1
    <3>2. utxo[u] = v /\ avail = TotalDeposit(op) + t  BY <1>5
    <3>3. v \in Int /\ v > 0 /\ t \in Nat /\ all \in Nat  BY <1>3, <1>8, <1>11
    <3>4. t + v <= all /\ TotalDeposit(op) + all <= MaxAmount  BY <1>3, <1>9, <1>10
    <3> HIDE DEF v, t, all
    <3> QED  BY <3>1, <3>2, <3>3, <3>4
  <2> QED  BY <2>1, AmountBounds
<1>13. Store!CanSpend(u)  BY <1>2, <1>3, <1>5 DEF Store!CanSpend, Store!Spent
<1> QED  BY <1>12, <1>13 DEF CanSpend, u

LEMMA CreatePasses ==
  ASSUME Inv, Booked, Accepts(Channel, snap, op), pc = "create"
  PROVE  IF i <= Len(op.create) THEN CanCreate ELSE ComesOut
<1>1. /\ op.create \in Seq(CreateItem) /\ i \in Nat \ {0} /\ DOMAIN op.create = 1 .. Len(op.create)
      /\ avail \in Int /\ avail <= MaxAmount /\ MaxAmount \in Nat /\ TotalWithdraw(op) \in Nat
  BY BundleFacts, AmountBounds
<1>2. /\ SumFrom(op.create, 1) \in Nat
      /\ SumFrom(op.create, i) \in Nat /\ SumFrom(op.create, i + 1) \in Nat
  <2>1. 1 \in Nat /\ i \in Nat /\ i + 1 \in Nat  BY <1>1
  <2> QED  BY <1>1, <2>1, SumFromType
<1>3. avail = SumFrom(op.create, i) + TotalWithdraw(op)
  <2>1. avail + SumFrom(op.create, 1) = Funds + SumFrom(op.create, i)  BY DEF Booked
  <2>2. Funds = SumFrom(op.create, 1) + TotalWithdraw(op)  BY AcceptedFacts DEF Balanced, Funds
  <2>3. avail \in Int /\ TotalWithdraw(op) \in Nat  BY <1>1
  <2> QED  BY <1>2, <2>1, <2>2, <2>3
<1>4. CASE i > Len(op.create)
  <2>1. SumFrom(op.create, i) = 0  BY <1>1, <1>4, SumFromEnd
  <2> QED  BY <1>1, <1>3, <1>4, <2>1 DEF ComesOut
<1>5. CASE i <= Len(op.create)
  <2> DEFINE u == op.create[i].utxo
             a == op.create[i].amount
  <2>1. i \in 1 .. Len(op.create) /\ op.create[i] \in ToSet(op.create)
    BY <1>1, <1>5 DEF ToSet
  <2>2. snap.utxo[u] = -1 /\ a > 0 /\ \A v \in SpentBy(op) : snap.utxo[v] > 0
    BY <2>1, AcceptedFacts DEF Balanced
  <2>3. u \in Utxos /\ a \in Int /\ a <= MaxAmount  BY <2>1, BundleFacts, AmountBounds
  <2>4. u \notin First(op.create, i)
    <3>1. \A j, k \in DOMAIN op.create : op.create[j].utxo = op.create[k].utxo => j = k
      BY AcceptedFacts DEF NoUtxoTwice, NoDuplicates, UtxosOf
    <3>2. ASSUME NEW k \in 1 .. (i - 1)  PROVE op.create[k].utxo # u
      <4>1. k \in 1 .. Len(op.create) /\ k # i  BY <1>1, <2>1
      <4> QED  BY <1>1, <2>1, <3>1, <4>1
    <3> QED  BY <3>2 DEF First
  <2>5. u \notin SpentBy(op)  BY <2>2
  <2>6. utxo[u] = -1  BY <2>2, <2>3, <2>4, <2>5 DEF Booked, Creates
  <2>7. SumFrom(op.create, i) = a + SumFrom(op.create, i + 1)
    BY <1>1, <1>5, <2>2, <2>3, SumFromStep DEF Pos
  <2> HIDE DEF u, a
  <2>8. avail - a \in I128
    <3>1. avail - a \in Int /\ avail - a >= 0 /\ avail - a <= MaxAmount
      <4>1. avail \in Int /\ avail <= MaxAmount /\ MaxAmount \in Nat /\ TotalWithdraw(op) \in Nat
        BY <1>1
      <4>2. a \in Int /\ a > 0  BY <2>2, <2>3
      <4> QED  BY <1>2, <1>3, <2>7, <4>1, <4>2
    <3> QED  BY <3>1, AmountBounds
  <2> QED  BY <1>5, <2>2, <2>6, <2>8 DEF CanCreate, Store!CanCreate, Store!Absent, u, a
<1> QED  BY <1>1, <1>4, <1>5

(* An account that none of the items before the n-th names has not been    *)
(* served yet.                                                             *)
LEMMA PaidFirstNone ==
  ASSUME NEW items \in Seq(ExternalItem), NoDuplicates(AddressesOf(items)),
         NEW n \in 1 .. Len(items)
  PROVE  PaidFirst(items, n, items[n].addr) = 0
<1> DEFINE S == {k \in 1 .. (n - 1) : items[k].addr = items[n].addr}
<1>1. \A j, k \in DOMAIN items : items[j].addr = items[k].addr => j = k
  BY DEF NoDuplicates, AddressesOf
<1>2. ASSUME NEW k \in 1 .. (n - 1)  PROVE items[k].addr # items[n].addr
  <2>1. k \in DOMAIN items /\ n \in DOMAIN items /\ k # n  OBVIOUS
  <2> QED  BY <1>1, <2>1
<1>3. S = {}  BY <1>2
<1> QED  BY <1>3, TotalEmpty, Zenon DEF PaidFirst

(* A deposit: the depositor pays once, and the channel's balance and its   *)
(* supply stay under the bounds of the whole bundle.                       *)
LEMMA PullPasses ==
  ASSUME Inv, PaidUp, Accepts(Channel, snap, op), pc \in {"deposit", "pulled"},
         i <= Len(op.deposit)
  PROVE  /\ pc = "deposit" => CanPull
         /\ supply + op.deposit[i].amount \in I128
<1> DEFINE from == op.deposit[i].addr
           n == op.deposit[i].amount
<1>1. /\ i \in Nat \ {0} /\ i \in 1 .. Len(op.deposit) /\ op.deposit \in Seq(ExternalItem)
      /\ op.withdraw \in Seq(ExternalItem)
      /\ PositiveAmounts(op.deposit) /\ PositiveAmounts(op.withdraw)
      /\ op.deposit[i] \in ToSet(op.deposit)
  <2>1. pc \notin {"idle", "pre"}  OBVIOUS
  <2>2. i \in Nat \ {0} /\ i \in 1 .. Len(op.deposit) /\ i \in DOMAIN op.deposit
    BY <2>1, RunningFacts
  <2> QED  BY <2>1, <2>2, RunningFacts DEF ToSet
<1>2. from \in Addresses /\ n \in Nat /\ n > 0 /\ n <= MaxAmount
  BY <1>1, ExternalFacts DEF PositiveAmounts
<1>3. from # Channel /\ snap.bal[from] >= n  BY <1>1, AcceptedFacts DEF Payable
<1>4. /\ snap.bal[Channel] + TotalDeposit(op) <= MaxAmount
      /\ snap.supply + TotalDeposit(op) <= MaxAmount
  <2>1. /\ snap.bal[Channel] + TotalDeposit(op) \in TotalWithdraw(op) .. MaxAmount
        /\ snap.supply + TotalDeposit(op) <= MaxAmount
    BY AcceptedFacts DEF Payable
  <2> QED  BY <2>1
<1>5. SumFrom(op.deposit, i) = n + SumFrom(op.deposit, i + 1)
  BY <1>1, <1>2, SumFromStep DEF Pos
<1>6. /\ Channel \in Addresses /\ bal[Channel] \in Nat /\ snap.bal[Channel] \in Nat
      /\ bal \in [Addresses -> 0 .. MaxAmount] /\ bal[from] \in Nat /\ snap.bal[from] \in Nat
      /\ SumFrom(op.deposit, i) \in Nat /\ SumFrom(op.deposit, i + 1) \in Nat
      /\ TotalDeposit(op) \in Nat /\ TotalWithdraw(op) = SumFrom(op.withdraw, 1)
      /\ SumFrom(op.withdraw, 1) \in Nat
      /\ snap.supply \in Int /\ supply \in Int /\ MaxAmount \in Nat
  <2>1. i \in Nat /\ i + 1 \in Nat /\ 1 \in Nat /\ pc \notin {"idle", "pre"}  BY <1>1
  <2> QED  BY <1>2, <2>1, PaymentFacts, BundleFacts, AmountBounds
<1>7. supply + n \in I128
  <2>1. supply = snap.supply + (TotalDeposit(op) - SumFrom(op.deposit, i))  BY DEF PaidUp
  <2> HIDE DEF n, from
  <2>2. supply + n <= MaxAmount
    <3> DEFINE x == SumFrom(op.deposit, i)
               y == SumFrom(op.deposit, i + 1)
    <3>1. n \in Nat /\ snap.supply \in Int /\ MaxAmount \in Nat /\ TotalDeposit(op) \in Nat
      BY <1>2, <1>6
    <3>2. x \in Nat /\ y \in Nat /\ x = n + y  BY <1>5, <1>6
    <3>3. supply = snap.supply + (TotalDeposit(op) - x)  BY <2>1
    <3> HIDE DEF x, y
    <3> QED  BY <1>4, <3>1, <3>2, <3>3
  <2>3. supply \in I128 /\ n \in Nat /\ MaxAmount \in Nat
    BY <1>2, <1>6, LedgerFacts DEF Inv, TypeOK
  <2> QED  BY <2>2, <2>3 DEF I128
<1>8. ASSUME pc = "deposit"  PROVE CanPull
  <2>1. Payments(i, 1)  BY <1>8 DEF PaidUp
  <2>2. /\ PaidFirst(op.deposit, i, from) = 0 /\ PaidFirst(op.withdraw, 1, from) = 0
        /\ PaidFirst(op.withdraw, 1, Channel) = 0
    BY <1>1, PaidFirstFacts, PaidFirstNone, AcceptedFacts
  <2>3. bal[from] = (snap.bal[from] - PaidFirst(op.deposit, i, from))
                      + PaidFirst(op.withdraw, 1, from)
    BY <1>2, <1>3, <2>1 DEF Payments
  <2>4. bal[Channel] =
          (snap.bal[Channel] + (TotalDeposit(op) - SumFrom(op.deposit, i)))
            - ((TotalWithdraw(op) - SumFrom(op.withdraw, 1)) - PaidFirst(op.withdraw, 1, Channel))
    BY <2>1 DEF Payments
  <2> HIDE DEF n, from
  <2>5. bal[from] >= n
    <3>1. bal[from] = (snap.bal[from] - 0) + 0  BY <2>2, <2>3
    <3>2. snap.bal[from] \in Nat  BY <1>6
    <3> QED  BY <1>3, <3>1, <3>2
  <2>6. bal[Channel] + n <= MaxAmount
    <3> DEFINE s == SumFrom(op.withdraw, 1)
               x == SumFrom(op.deposit, i)
               y == SumFrom(op.deposit, i + 1)
    <3>1. bal[Channel] = (snap.bal[Channel] + (TotalDeposit(op) - x)) - ((s - s) - 0)
      BY <1>6, <2>2, <2>4
    <3>2. /\ snap.bal[Channel] \in Nat /\ s \in Nat /\ x \in Nat /\ y \in Nat /\ x = n + y
          /\ n \in Nat /\ TotalDeposit(op) \in Nat /\ MaxAmount \in Nat
      BY <1>2, <1>5, <1>6
    <3> HIDE DEF s, x, y
    <3> QED  BY <1>4, <3>1, <3>2
  <2>7. Debited(from, n)[Channel] = bal[Channel]  BY <1>3, <1>6 DEF Debited
  <2> QED  BY <1>3, <2>5, <2>6, <2>7 DEF CanPull, CanTransfer, from, n
<1> QED  BY <1>7, <1>8

(* A withdrawal: the channel holds its supply, which still counts what is  *)
(* not paid out, and the payee is paid once.                               *)
LEMMA PushPasses ==
  ASSUME Inv, PaidUp, Accepts(Channel, snap, op), pc \in {"withdraw", "pushed"},
         i <= Len(op.withdraw)
  PROVE  /\ pc = "withdraw" =>
              CanTransfer(Channel, op.withdraw[i].addr, op.withdraw[i].amount)
         /\ supply - op.withdraw[i].amount \in I128
<1> DEFINE to == op.withdraw[i].addr
           n == op.withdraw[i].amount
<1>1. /\ i \in Nat \ {0} /\ i \in 1 .. Len(op.withdraw) /\ op.deposit \in Seq(ExternalItem)
      /\ op.withdraw \in Seq(ExternalItem) /\ i \in DOMAIN op.withdraw
      /\ PositiveAmounts(op.deposit) /\ PositiveAmounts(op.withdraw)
      /\ op.withdraw[i] \in ToSet(op.withdraw)
  <2>1. pc \notin {"idle", "pre"}  OBVIOUS
  <2>2. i \in Nat \ {0} /\ i \in 1 .. Len(op.withdraw) /\ i \in DOMAIN op.withdraw
    BY <2>1, RunningFacts
  <2> QED  BY <2>1, <2>2, RunningFacts DEF ToSet
<1>2. to \in Addresses /\ n \in Nat /\ n > 0 /\ n <= MaxAmount
  BY <1>1, ExternalFacts DEF PositiveAmounts
<1>3. SumFrom(op.withdraw, i) = n + SumFrom(op.withdraw, i + 1)
  BY <1>1, <1>2, SumFromStep DEF Pos
<1>4. /\ Channel \in Addresses /\ bal[Channel] \in Nat /\ bal[to] \in Nat /\ snap.bal[to] \in Nat
      /\ bal \in [Addresses -> 0 .. MaxAmount]
      /\ SumFrom(op.withdraw, i) \in Nat /\ SumFrom(op.withdraw, i + 1) \in Nat
      /\ supply \in Int /\ supply <= MaxAmount /\ MaxAmount \in Nat
  <2>1. i \in Nat /\ i + 1 \in Nat /\ pc \notin {"idle", "pre"}  BY <1>1
  <2>2. supply \in I128  BY LedgerFacts DEF Inv, TypeOK
  <2> QED  BY <1>2, <2>1, <2>2, PaymentFacts, AmountBounds
<1>5. supply >= n
  <2> DEFINE t == Total(utxo, Utxos)
             x == SumFrom(op.withdraw, i)
             y == SumFrom(op.withdraw, i + 1)
  <2>1. t + x = supply  BY DEF Inv, Accounting
  <2>2. t \in Nat /\ x \in Nat /\ y \in Nat /\ x = n + y  BY <1>3, <1>4, TotalUtxoType
  <2>3. n \in Nat  BY <1>2
  <2> HIDE DEF n, t, x, y
  <2> QED  BY <2>1, <2>2, <2>3
<1>6. supply - n \in I128
  <2> HIDE DEF n
  <2>1. supply - n \in Int /\ supply - n >= 0 /\ supply - n <= MaxAmount
    <3>1. supply \in Int /\ supply <= MaxAmount /\ MaxAmount \in Nat /\ n \in Nat  BY <1>2, <1>4
    <3> QED  BY <1>5, <3>1
  <2> QED  BY <2>1, AmountBounds
<1>7. ASSUME pc = "withdraw"  PROVE CanTransfer(Channel, to, n)
  <2>1. bal[Channel] >= n
    <3>1. bal[Channel] >= supply  BY <1>7 DEF Inv, Holdings
    <3> HIDE DEF n
    <3>2. bal[Channel] \in Nat /\ supply \in Int /\ n \in Nat  BY <1>2, <1>4
    <3> QED  BY <1>5, <3>1, <3>2
  <2>2. CASE to = Channel
    <3> HIDE DEF to, n
    <3>1. Debited(Channel, n)[Channel] = bal[Channel] - n  BY <1>4 DEF Debited
    <3>2. bal[Channel] \in Nat /\ bal[Channel] <= MaxAmount /\ n \in Nat  BY <1>2, <1>4
    <3>3. Debited(Channel, n)[to] + n <= MaxAmount  BY <2>2, <3>1, <3>2
    <3> QED  BY <2>1, <3>3 DEF CanTransfer
  <2>3. CASE to # Channel
    <3>1. Payments(Len(op.deposit) + 1, i)  BY <1>7 DEF PaidUp
    <3>2. bal[to] = (snap.bal[to] - PaidFirst(op.deposit, Len(op.deposit) + 1, to))
                      + PaidFirst(op.withdraw, i, to)
      BY <1>2, <2>3, <3>1 DEF Payments
    <3>3. /\ PaidFirst(op.deposit, Len(op.deposit) + 1, to) = AmountFor(op.deposit, to)
          /\ PaidFirst(op.withdraw, i, to) = 0
      BY <1>1, PaidFirstFacts, PaidFirstNone, AcceptedFacts
    <3>4. AmountFor(op.withdraw, to) = n  BY <1>1, <1>2, AcceptedFacts, AmountForOne
    <3>5. Paid(Channel, snap, op, to) <= MaxAmount  BY <1>1, <2>3, AcceptedFacts DEF Payable
    <3>6. AmountFor(op.deposit, to) \in Nat  BY <1>1, AmountForType
    <3> HIDE DEF to, n
    <3>7. bal[to] + n <= MaxAmount
      <4> DEFINE d == AmountFor(op.deposit, to)
      <4>1. (snap.bal[to] - d) + n <= MaxAmount  BY <2>3, <3>4, <3>5 DEF Paid
      <4>2. bal[to] = (snap.bal[to] - d) + 0  BY <3>2, <3>3
      <4>3. snap.bal[to] \in Nat /\ d \in Nat /\ n \in Nat /\ MaxAmount \in Nat
        BY <1>2, <1>4, <3>6
      <4> HIDE DEF d
      <4> QED  BY <4>1, <4>2, <4>3
    <3>8. Debited(Channel, n)[to] = bal[to]  BY <1>2, <1>4, <2>3 DEF Debited
    <3> QED  BY <2>1, <3>7, <3>8 DEF CanTransfer
  <2> QED  BY <2>2, <2>3
<1> QED  BY <1>6, <1>7

(* Whatever the phase, a bundle that is acceptable on the ledger its call  *)
(* started on passes the check that comes next: apart from an archived     *)
(* entry, only the auth contract, a depositor, the asset or the host's     *)
(* budget can still stop it.                                               *)
THEOREM ChannelAcceptedGoesThrough == Spec => []AcceptedGoesThrough
<1>1. Inv /\ Checked /\ Booked /\ PaidUp => AcceptedGoesThrough
  <2> SUFFICES ASSUME Inv, Checked, Booked, PaidUp, Accepts(Channel, snap, op),
                      \A u \in SpentBy(op) : Store!Readable(u)
               PROVE  AcceptedGoesThrough
    BY DEF AcceptedGoesThrough
  <2>1. PreProcessed(op) /\ NoUtxoTwice(op)  BY AcceptedFacts
  <2>2. pc = "spend" /\ i <= Len(op.spend) => CanSpend  BY SpendPasses
  <2>3. pc = "create" => IF i <= Len(op.create) THEN CanCreate ELSE ComesOut  BY CreatePasses
  <2>4. /\ pc = "deposit" /\ i <= Len(op.deposit) => CanPull
        /\ pc = "pulled" => supply + op.deposit[i].amount \in I128
    <3>1. pc = "pulled" => i <= Len(op.deposit)  BY DEF Inv, Shape
    <3> QED  BY <3>1, PullPasses
  <2>5. /\ pc = "withdraw" /\ i <= Len(op.withdraw) =>
             CanTransfer(Channel, op.withdraw[i].addr, op.withdraw[i].amount)
        /\ pc = "pushed" => supply - op.withdraw[i].amount \in I128
    <3>1. pc = "pushed" => i <= Len(op.withdraw)  BY DEF Inv, Shape
    <3> QED  BY <3>1, PushPasses
  <2> QED  BY <2>1, <2>2, <2>3, <2>4, <2>5 DEF AcceptedGoesThrough
<1> QED  BY <1>1, ChannelProgress, PTL

(* The half-settled ledger inside transact, while the asset has control:   *)
(* the UTXOs the call will leave, and a supply that differs from their     *)
(* value by exactly the payments not counted yet.                          *)
THEOREM ChannelSupplyOffByPending == Spec => []SupplyOffByPending
<1>1. Inv /\ Checked /\ Booked /\ PaidUp => SupplyOffByPending
  <2> SUFFICES ASSUME Inv, Booked, pc \in AssetPhases  PROVE SupplyOffByPending
    BY DEF SupplyOffByPending
  <2>1. utxo = UtxosAfter(snap, op)  BY BookedUtxos
  <2>2. supply \in Int  BY LedgerFacts, AmountBounds DEF Inv, TypeOK
  <2>3. CASE pc \in {"deposit", "pulled"}
    BY <2>1, <2>3 DEF SupplyOffByPending, Inv, Accounting
  <2>4. CASE pc \in {"withdraw", "pushed"}
    BY <2>1, <2>2, <2>4 DEF SupplyOffByPending, Inv, Accounting
  <2> QED  BY <2>3, <2>4 DEF AssetPhases
<1> QED  BY <1>1, ChannelProgress, PTL
-----------------------------------------------------------------------------
(* A call ends.  A bound on the steps that are left of a call with the     *)
(* operation o, which is in the phase p and at the position k of its loop: *)
(* one step for each spend and each create, two for each payment, one for  *)
(* each change of phase.                                                   *)
StepsLeft(o, p, k) ==
  LET w == 2 * (Len(o.withdraw) + 1)
      d == w + 2 * (Len(o.deposit) + 1)
      c == d + (Len(o.create) + 1)
      s == c + (Len(o.spend) + 1)
  IN  CASE p = "pre" -> s + 1 [] p = "auth" -> s [] p = "spend" -> s - k [] p = "create" -> c - k
        [] p = "deposit" -> (d - 2 * k) + 1 [] p = "pulled" -> d - 2 * k
        [] p = "withdraw" -> (w - 2 * k) + 1 [] p = "pushed" -> w - 2 * k [] p = "exit" -> 0

Left == StepsLeft(op, pc, i)

(* The positions a running call can be at.                                 *)
LEMMA PositionFacts ==
  ASSUME Inv, Booked, PaidUp
  PROVE  /\ i \in Nat \ {0} /\ pc \in Phases
         /\ Len(op.spend) \in Nat /\ Len(op.create) \in Nat
         /\ Len(op.deposit) \in Nat /\ Len(op.withdraw) \in Nat
         /\ pc \in {"pre", "auth"} => i = 1
         /\ pc = "spend" => i <= Len(op.spend) + 1
         /\ pc = "create" => i <= Len(op.create) + 1
         /\ pc = "deposit" => i <= Len(op.deposit) + 1
         /\ pc = "pulled" => i <= Len(op.deposit)
         /\ pc = "withdraw" => i <= Len(op.withdraw) + 1
         /\ pc = "pushed" => i <= Len(op.withdraw)
<1>1. /\ i \in Nat \ {0}
      /\ op.spend \in Seq(SpendItem) /\ op.create \in Seq(CreateItem)
      /\ op.deposit \in Seq(ExternalItem) /\ op.withdraw \in Seq(ExternalItem)
  BY BundleFacts
<1>2. pc \in Phases  BY DEF Inv, TypeOK
<1>3. /\ Len(op.spend) \in Nat /\ Len(op.create) \in Nat
      /\ Len(op.deposit) \in Nat /\ Len(op.withdraw) \in Nat
  BY <1>1
<1>4. /\ pc \in {"pre", "auth"} => i = 1
      /\ pc = "spend" => i <= Len(op.spend) + 1
      /\ pc = "create" => i <= Len(op.create) + 1
  BY DEF Booked
<1>5. /\ pc = "deposit" => i <= Len(op.deposit) + 1
      /\ pc = "withdraw" => i <= Len(op.withdraw) + 1
  BY DEF PaidUp
<1>6. /\ pc = "pulled" => i <= Len(op.deposit)
      /\ pc = "pushed" => i <= Len(op.withdraw)
  BY DEF Inv, Shape
<1> QED  BY <1>1, <1>2, <1>3, <1>4, <1>5, <1>6

(* Every step of the running call either ends it or leaves fewer steps     *)
(* than there were before, and nothing else that happens meanwhile moves   *)
(* it: no loop of transact, and no call that the asset makes during a      *)
(* transfer, keeps a call from its end.  This is the part of GuardReleased *)
(* that does not depend on fairness.                                       *)
THEOREM ChannelCallsEnd ==
  Spec => [][pc # "idle" => IF Step THEN pc' = "idle" \/ Left' \in 0 .. (Left - 1)
                            ELSE UNCHANGED frame]_vars
<1>1. ASSUME Inv, Booked, PaidUp, Next, pc # "idle"
      PROVE  IF Step THEN pc' = "idle" \/ Left' \in 0 .. (Left - 1) ELSE UNCHANGED frame
  <2>1. CASE ~ Step
    <3>1. guard  BY <1>1 DEF Inv, Shape
    <3>2. Environment  BY <1>1, <2>1, <3>1 DEF Next, Transact, EnterReentrancyGuard
    <3>3. UNCHANGED frame
      BY <1>1, <3>2 DEF Environment, UtxoBalance, Restore, CloseLedger, RestoreInstance,
         AssetTransfer, rest, frame
    <3> QED  BY <2>1, <3>3
  <2>2. CASE Step /\ pc' # "idle"
    <3> SUFFICES Left' \in 0 .. (Left - 1)  BY <2>2
    <3> DEFINE ls == Len(op.spend)
               lc == Len(op.create)
               ld == Len(op.deposit)
               lw == Len(op.withdraw)
               w == 2 * (lw + 1)
               d == w + 2 * (ld + 1)
               c == d + (lc + 1)
               s == c + (ls + 1)
    <3>1. /\ i \in Nat \ {0} /\ ls \in Nat /\ lc \in Nat /\ ld \in Nat /\ lw \in Nat
      BY <1>1, PositionFacts
    <3>2. /\ pc = "pre" => Left = s + 1
          /\ pc = "auth" => Left = s
          /\ pc = "spend" => Left = s - i
          /\ pc = "create" => Left = c - i
          /\ pc = "deposit" => Left = (d - 2 * i) + 1
          /\ pc = "pulled" => Left = d - 2 * i
          /\ pc = "withdraw" => Left = (w - 2 * i) + 1
          /\ pc = "pushed" => Left = w - 2 * i
      BY DEF Left, StepsLeft
    <3>3. ASSUME UNCHANGED op
          PROVE  /\ pc' = "auth" => Left' = s
                 /\ pc' = "spend" => Left' = s - i'
                 /\ pc' = "create" => Left' = c - i'
                 /\ pc' = "deposit" => Left' = (d - 2 * i') + 1
                 /\ pc' = "pulled" => Left' = d - 2 * i'
                 /\ pc' = "withdraw" => Left' = (w - 2 * i') + 1
                 /\ pc' = "pushed" => Left' = w - 2 * i'
                 /\ pc' = "exit" => Left' = 0
      BY <3>3 DEF Left, StepsLeft
    <3>4. /\ pc \in {"pre", "auth"} => i = 1
          /\ pc = "spend" => i <= ls + 1
          /\ pc = "create" => i <= lc + 1
          /\ pc = "deposit" => i <= ld + 1
          /\ pc = "pulled" => i <= ld
          /\ pc = "withdraw" => i <= lw + 1
          /\ pc = "pushed" => i <= lw
      BY <1>1, PositionFacts
    <3>0. /\ w \in Nat /\ w = 2 * (lw + 1) /\ d = w + 2 * (ld + 1)
          /\ c = d + (lc + 1) /\ s = c + (ls + 1)
      BY <3>1
    <3> HIDE DEF w, d, c, s
    <3>5. CASE PreProcess
      <4>1. pc = "pre" /\ pc' = "auth" /\ UNCHANGED op  BY <3>5 DEF PreProcess
      <4>2. Left = s + 1 /\ Left' = s  BY <3>2, <3>3, <4>1
      <4> HIDE DEF ls, lc, ld, lw
      <4> QED  BY <3>0, <3>1, <4>1, <4>2
    <3>6. CASE RequireAuth
      <4>1. pc = "auth" /\ pc' = "spend" /\ UNCHANGED op /\ i' = i  BY <3>6 DEF RequireAuth
      <4>2. Left = s /\ Left' = s - i' /\ i = 1  BY <3>2, <3>3, <3>4, <4>1
      <4> HIDE DEF ls, lc, ld, lw
      <4> QED  BY <3>0, <3>1, <4>1, <4>2
    <3>7. CASE SpendStep
      <4>1. pc = "spend" /\ pc' = "spend" /\ UNCHANGED op /\ i <= ls /\ i' = i + 1
        BY <3>7 DEF SpendStep
      <4>2. Left = s - i /\ Left' = s - i'  BY <3>2, <3>3, <4>1
      <4> HIDE DEF ls, lc, ld, lw
      <4> QED  BY <3>0, <3>1, <4>1, <4>2
    <3>8. CASE SpendsDone
      <4>1. pc = "spend" /\ pc' = "create" /\ UNCHANGED op /\ i' = 1  BY <3>8 DEF SpendsDone
      <4>2. Left = s - i /\ Left' = c - i' /\ i <= ls + 1  BY <3>2, <3>3, <3>4, <4>1
      <4> HIDE DEF ls, lc, ld, lw
      <4> QED  BY <3>0, <3>1, <4>1, <4>2
    <3>9. CASE CreateStep
      <4>1. pc = "create" /\ pc' = "create" /\ UNCHANGED op /\ i <= lc /\ i' = i + 1
        BY <3>9 DEF CreateStep
      <4>2. Left = c - i /\ Left' = c - i'  BY <3>2, <3>3, <4>1
      <4> HIDE DEF ls, lc, ld, lw
      <4> QED  BY <3>0, <3>1, <4>1, <4>2
    <3>10. CASE CheckBalanced
      <4>1. pc = "create" /\ pc' = "deposit" /\ UNCHANGED op /\ i' = 1  BY <3>10 DEF CheckBalanced
      <4>2. Left = c - i /\ Left' = (d - 2 * i') + 1 /\ i <= lc + 1  BY <3>2, <3>3, <3>4, <4>1
      <4> HIDE DEF ls, lc, ld, lw
      <4> QED  BY <3>0, <3>1, <4>1, <4>2
    <3>11. CASE PullDeposit
      <4>1. pc = "deposit" /\ pc' = "pulled" /\ UNCHANGED op /\ i <= ld /\ i' = i
        BY <3>11 DEF PullDeposit
      <4>2. Left = (d - 2 * i) + 1 /\ Left' = d - 2 * i'  BY <3>2, <3>3, <4>1
      <4> HIDE DEF ls, lc, ld, lw
      <4> QED  BY <3>0, <3>1, <4>1, <4>2
    <3>12. CASE IncreaseSupply
      <4>1. pc = "pulled" /\ pc' = "deposit" /\ UNCHANGED op /\ i' = i + 1
        BY <3>12 DEF IncreaseSupply
      <4>2. Left = d - 2 * i /\ Left' = (d - 2 * i') + 1 /\ i <= ld  BY <3>2, <3>3, <3>4, <4>1
      <4> HIDE DEF ls, lc, ld, lw
      <4> QED  BY <3>0, <3>1, <4>1, <4>2
    <3>13. CASE DepositsDone
      <4>1. pc = "deposit" /\ pc' = "withdraw" /\ UNCHANGED op /\ i' = 1  BY <3>13 DEF DepositsDone
      <4>2. Left = (d - 2 * i) + 1 /\ Left' = (w - 2 * i') + 1 /\ i <= ld + 1
        BY <3>2, <3>3, <3>4, <4>1
      <4> HIDE DEF ls, lc, ld, lw
      <4> QED  BY <3>0, <3>1, <4>1, <4>2
    <3>14. CASE PushWithdraw
      <4>1. pc = "withdraw" /\ pc' = "pushed" /\ UNCHANGED op /\ i <= lw /\ i' = i
        BY <3>14 DEF PushWithdraw
      <4>2. Left = (w - 2 * i) + 1 /\ Left' = w - 2 * i'  BY <3>2, <3>3, <4>1
      <4> HIDE DEF ls, lc, ld, lw
      <4> QED  BY <3>0, <3>1, <4>1, <4>2
    <3>15. CASE DecreaseSupply
      <4>1. pc = "pushed" /\ pc' = "withdraw" /\ UNCHANGED op /\ i' = i + 1
        BY <3>15 DEF DecreaseSupply
      <4>2. Left = w - 2 * i /\ Left' = (w - 2 * i') + 1 /\ i <= lw  BY <3>2, <3>3, <3>4, <4>1
      <4> HIDE DEF ls, lc, ld, lw
      <4> QED  BY <3>0, <3>1, <4>1, <4>2
    <3>16. CASE WithdrawsDone
      <4>1. pc = "withdraw" /\ pc' = "exit" /\ UNCHANGED op  BY <3>16 DEF WithdrawsDone
      <4>2. Left = (w - 2 * i) + 1 /\ Left' = 0 /\ i <= lw + 1  BY <3>2, <3>3, <3>4, <4>1
      <4> HIDE DEF ls, lc, ld, lw
      <4> QED  BY <3>0, <3>1, <4>1, <4>2
    <3>17. ~ Exit /\ ~ Panic  BY <1>1, <2>2, ReturnIdle DEF Exit, Panic
    <3> QED
      BY <2>2, <3>5, <3>6, <3>7, <3>8, <3>9, <3>10, <3>11, <3>12, <3>13, <3>14, <3>15, <3>16,
         <3>17 DEF Step
  <2> QED  BY <2>1, <2>2
<1> QED  BY <1>1, ChannelProgress, PTL DEF Spec
-----------------------------------------------------------------------------
(* The call as one step of the ledger that outsiders see.  The running     *)
(* call is one that was submitted.                                         *)
Submitted == pc # "idle" => op \in Ops

LEMMA ChannelSubmitted == Spec => []Submitted
<1>1. Init => Submitted  BY DEF Init, Submitted
<1>2. Inv /\ Submitted /\ [Next]_vars => Submitted'
  <2> SUFFICES ASSUME Inv, Submitted, [Next]_vars, pc' # "idle"  PROVE op' \in Ops
    BY DEF Submitted
  <2>1. ASSUME NEW o \in Ops, Transact(o)  PROVE op' \in Ops  BY <2>1 DEF Transact
  <2>2. CASE UNCHANGED op /\ pc # "idle"  BY <2>2 DEF Submitted
  <2>3. CASE UNCHANGED <<op, pc>>  BY <2>3 DEF Submitted
  <2> QED
    BY <2>1, <2>2, <2>3, RunningStep DEF PreProcess, RequireAuth, SpendStep, SpendsDone,
       CreateStep, CheckBalanced, PullDeposit, IncreaseSupply, DepositsDone, PushWithdraw,
       DecreaseSupply, WithdrawsDone
<1> QED  BY <1>1, <1>2, ChannelInv, PTL DEF Spec

(* A settlement depends on nothing else in a ledger.                       *)
LEMMA SameLedger ==
  ASSUME NEW l, NEW m, NEW o, l.utxo = m.utxo, l.supply = m.supply, l.bal = m.bal
  PROVE  /\ Accepts(Channel, l, o) => Accepts(Channel, m, o)
         /\ Settlement(Channel, l, o) = Settlement(Channel, m, o)
<1>1. \A a : Paid(Channel, l, o, a) = Paid(Channel, m, o, a)  BY Zenon DEF Paid
<1>2. Balanced(l, o) => Balanced(m, o)  BY Zenon DEF Balanced
<1>3. Payable(Channel, l, o) => Payable(Channel, m, o)  BY <1>1, Zenon DEF Payable
<1>4. UtxosAfter(l, o) = UtxosAfter(m, o)  BY SMT DEF UtxosAfter
<1>5. [a \in DOMAIN l.bal |-> Paid(Channel, l, o, a)] =
        [a \in DOMAIN m.bal |-> Paid(Channel, m, o, a)]
  BY <1>1
<1> QED  BY <1>2, <1>3, <1>4, <1>5 DEF Accepts, Settlement

(* For everybody outside, transact is one step: the ledger they see        *)
(* becomes the settlement of an acceptable bundle that was submitted, or   *)
(* stays as it is.  Between calls only balances of the asset change.       *)
THEOREM ChannelIsAtomic == Spec => TransactIsAtomic
<1> DEFINE OneStep ==
             IF pc = "idle" THEN UNCHANGED <<utxo, supply>>
             ELSE \/ UNCHANGED Public
                  \/ \E o \in Ops : /\ Accepts(Channel, Public, o)
                                    /\ Public' = Settlement(Channel, Public, o)
<1>1. ASSUME Inv, Inv', Checked, Booked, PaidUp, Submitted, Next
      PROVE  OneStep
  <2>1. CASE pc = "idle"
    <3>1. ~ Step
      BY <2>1 DEF Step, PreProcess, RequireAuth, SpendStep, SpendsDone, CreateStep, CheckBalanced,
         PullDeposit, IncreaseSupply, DepositsDone, PushWithdraw, DecreaseSupply, WithdrawsDone,
         Exit, Panic
    <3>2. ASSUME NEW o \in Ops, Transact(o)  PROVE UNCHANGED <<utxo, supply>>
      BY <3>2 DEF Transact, storeVars
    <3>3. Environment => UNCHANGED <<utxo, supply>>
      <4> USE DEF rest, frame, storeVars
      <4> HIDE DEF OneStep
      <4>1. ASSUME NEW u \in Utxos, UtxoBalance(u)  PROVE UNCHANGED <<utxo, supply>>
        BY <4>1 DEF UtxoBalance, Store!Balance
      <4>2. ASSUME NEW u \in Utxos, Restore(u)  PROVE UNCHANGED <<utxo, supply>>
        BY <4>2 DEF Restore, Store!Restore
      <4>3. CloseLedger => UNCHANGED <<utxo, supply>>
        BY DEF CloseLedger, Store!CloseLedger, Store!entries
      <4>4. RestoreInstance => UNCHANGED <<utxo, supply>>  BY DEF RestoreInstance
      <4>5. ASSUME NEW from \in Accounts, NEW to \in Addresses, NEW a \in 1 .. MaxAmount,
                   AssetTransfer(from, to, a)
            PROVE  UNCHANGED <<utxo, supply>>
        BY <4>5 DEF AssetTransfer
      <4> QED  BY <4>1, <4>2, <4>3, <4>4, <4>5 DEF Environment
    <3> QED  BY <1>1, <2>1, <3>1, <3>2, <3>3 DEF Next
  <2>2. CASE pc # "idle"
    <3>1. Public.utxo = snap.utxo /\ Public.supply = snap.supply /\ Public.bal = snap.bal
      BY <1>1, <2>2, CommittedIs DEF Public
    <3>2. Public = [utxo |-> snap.utxo, supply |-> snap.supply, bal |-> snap.bal]
      BY <1>1, <2>2, CommittedIs DEF Public
    <3>3. /\ pc' = "idle" => Public' = [utxo |-> utxo', supply |-> supply', bal |-> bal']
          /\ pc' # "idle" =>
               Public' = [utxo |-> snap'.utxo, supply |-> snap'.supply, bal |-> snap'.bal]
      BY <1>1, CommittedNext DEF Public
    <3>4. CASE Exit
      <4>1. pc = "exit" /\ pc' = "idle" /\ UNCHANGED <<utxo, supply, bal>>
        BY <1>1, <3>4, ReturnIdle DEF Exit, storeVars
      <4>2. Accepts(Channel, snap, op) /\ Public' = Settlement(Channel, snap, op)
        BY <1>1, <3>3, <4>1, ExitSettlement DEF SettlesExactly
      <4>3. op \in Ops  BY <1>1, <2>2 DEF Submitted
      <4>4. Accepts(Channel, Public, op) /\ Public' = Settlement(Channel, Public, op)
        BY <3>1, <4>2, SameLedger
      <4> QED  BY <2>2, <4>3, <4>4
    <3>5. CASE Panic
      <4>1. /\ pc' = "idle" /\ utxo' = snap.utxo /\ supply' = snap.supply /\ bal' = snap.bal
        BY <1>1, <3>5, ReturnIdle DEF Panic
      <4> QED  BY <2>2, <3>2, <3>3, <4>1
    <3>6. CASE ~ Exit /\ ~ Panic
      <4>1. ASSUME NEW o \in Ops  PROVE ~ Transact(o)
        BY <1>1, <2>2 DEF Transact, EnterReentrancyGuard, Inv, Shape
      <4>2. pc' # "idle" /\ UNCHANGED snap
        BY <1>1, <2>2, <3>6, <4>1 DEF Next, Step, PreProcess, RequireAuth, SpendStep, SpendsDone,
           CreateStep, CheckBalanced, PullDeposit, IncreaseSupply, DepositsDone, PushWithdraw,
           DecreaseSupply, WithdrawsDone, Environment, UtxoBalance, Restore, CloseLedger,
           RestoreInstance, AssetTransfer, rest, frame
      <4> QED  BY <2>2, <3>2, <3>3, <4>2
    <3> QED  BY <3>4, <3>5, <3>6
  <2> QED  BY <2>1, <2>2
<1> QED  BY <1>1, ChannelProgress, ChannelSubmitted, PTL DEF Spec, TransactIsAtomic
-----------------------------------------------------------------------------
(* Nothing the scan for conflicts reads is left out of AllConds, and it    *)
(* holds the signers' conditions only.                                     *)
LEMMA CondsOfType ==
  ASSUME NEW T, NEW items \in Seq(T), \A x \in T : x.conds \in Conds
  PROVE  CondsOf(items) \in Conds
<1> DEFINE C == Condition(Utxos, Addresses, I128)
           ss == [k \in DOMAIN items |-> items[k].conds]
<1>1. ss \in Seq(Seq(C))
  <2>1. DOMAIN items = 1 .. Len(items) /\ \A k \in 1 .. Len(items) : items[k] \in T  OBVIOUS
  <2>2. \A k \in 1 .. Len(items) : items[k].conds \in Seq(C)  BY <2>1 DEF Conds
  <2>3. ss = [k \in 1 .. Len(items) |-> items[k].conds]  BY <2>1
  <2> HIDE DEF C, ss
  <2> QED  BY <2>2, <2>3
<1>2. CondsOf(items) = FlattenSeq(ss)  BY DEF CondsOf
<1> HIDE DEF C, ss
<1>3. FlattenSeq(ss) \in Seq(C)  BY <1>1, FlattenElements
<1> QED  BY <1>2, <1>3 DEF Conds, C

LEMMA AllCondsType ==
  ASSUME Inv
  PROVE  AllConds(op) \in Conds
<1>1. CondsOf(op.spend) \in Conds
  <2>1. \A x \in SpendItem : x.conds \in Conds  BY DEF SpendItem
  <2> QED  BY <2>1, CondsOfType, BundleFacts
<1>2. CondsOf(op.deposit) \in Conds /\ CondsOf(op.withdraw) \in Conds
  <2>1. \A x \in ExternalItem : x.conds \in Conds  BY DEF ExternalItem
  <2> QED  BY <2>1, CondsOfType, BundleFacts
<1> QED  BY <1>1, <1>2 DEF AllConds, Conds

(* In a bundle that is executed no condition contradicts another, although *)
(* the scan compares each one with its predecessors only.                  *)
THEOREM ChannelConditionsAgree == Spec => []ConditionsAgree
<1>1. ASSUME Inv, Checked  PROVE ConditionsAgree
  <2> SUFFICES ASSUME pc = "exit", NEW c \in ToSet(AllConds(op)), NEW d \in ToSet(AllConds(op))
               PROVE  ~ ConflictsWith(c, d)
    BY DEF ConditionsAgree
  <2>1. NoConflicts(AllConds(op))  BY <1>1 DEF Checked, PreProcessed, OpHasNoConflictingConditions
  <2>2. AllConds(op) \in Seq(Condition(Utxos, Addresses, I128))
    BY <1>1, AllCondsType DEF Conds
  <2>3. \A j, k \in DOMAIN AllConds(op) : ~ ConflictsWith(AllConds(op)[j], AllConds(op)[k])
    BY <2>1, <2>2, ScanFindsEveryConflict
  <2> QED  BY <2>3 DEF ToSet
<1> QED  BY <1>1, ChannelProgress, PTL
-----------------------------------------------------------------------------
(* What a signer signed for is in the ledger the call leaves: the UTXOs to *)
(* create are new and hold the signed amount, the accounts to pay received *)
(* it on top of what they deposited.                                       *)
THEOREM ChannelSignedEffectsRealised == Spec => []SignedEffectsRealised
<1>1. ASSUME Inv, Checked, Booked, PaidUp  PROVE SignedEffectsRealised
  <2> SUFFICES ASSUME pc = "exit", NEW c \in AuthorizedEffects(op)
               PROVE  \/ /\ c.kind = "Create"
                         /\ c.target \in NewUtxos
                         /\ utxo[c.target] = c.amount
                      \/ /\ c.kind = "ExtWithdraw"
                         /\ c.target # Channel =>
                              bal[c.target] = snap.bal[c.target] - DepositedBy(c.target) + c.amount
    BY DEF SignedEffectsRealised
  <2>0. DOMAIN op.create = 1 .. Len(op.create) /\ DOMAIN op.withdraw = 1 .. Len(op.withdraw)
    BY <1>1, BundleFacts
  <2>1. c \in ExecutedEffects(op)  BY <1>1 DEF Checked, PreProcessed, AssertSignedEffectsAreExecuted
  <2>2. CASE \E x \in ToSet(op.create) : c = Create(x.utxo, x.amount)
    <3>1. PICK k \in 1 .. Len(op.create) : c = Create(op.create[k].utxo, op.create[k].amount)
      BY <2>0, <2>2 DEF ToSet
    <3>2. c.kind = "Create" /\ c.target = op.create[k].utxo /\ c.amount = op.create[k].amount
      BY <3>1 DEF Create
    <3>3. /\ snap.utxo[c.target] = -1 /\ c.amount > 0 /\ utxo[c.target] = c.amount
      BY <1>1, <3>2, BookedUtxos
    <3>4. c.target \in Utxos /\ c.amount \in Int  BY <1>1, <3>2, BundleFacts, AmountBounds
    <3> QED  BY <3>2, <3>3, <3>4 DEF NewUtxos
  <2>3. CASE \E x \in ToSet(op.withdraw) : c = ExtWithdraw(x.addr, x.amount)
    <3>1. PICK k \in 1 .. Len(op.withdraw) : c = ExtWithdraw(op.withdraw[k].addr, op.withdraw[k].amount)
      BY <2>0, <2>3 DEF ToSet
    <3>2. c.kind = "ExtWithdraw" /\ c.target = op.withdraw[k].addr /\ c.amount = op.withdraw[k].amount
      BY <3>1 DEF ExtWithdraw
    <3>3. op.withdraw \in Seq(ExternalItem)  BY <1>1, BundleFacts
    <3>4. c.target \in Addresses  BY <3>2, <3>3, ExternalFacts
    <3>5. AmountFor(op.withdraw, c.target) = c.amount
      <4>1. PositiveAmounts(op.withdraw)  BY <1>1, PaymentFacts
      <4>2. NoDuplicates(AddressesOf(op.withdraw))
        BY <1>1 DEF Checked, PreProcessed, VerifyExternalOperations
      <4>3. k \in DOMAIN op.withdraw /\ op.withdraw[k].amount > 0  BY <2>0, <4>1 DEF PositiveAmounts
      <4> QED  BY <3>2, <3>3, <4>2, <4>3, AmountForOne, ExternalFacts
    <3>6. AmountFor(op.deposit, c.target) = DepositedBy(c.target)  BY DEF AmountFor, DepositedBy
    <3>7. bal[c.target] = Paid(Channel, snap, op, c.target)  BY <1>1, <3>4, ExitBalances
    <3> QED  BY <3>2, <3>5, <3>6, <3>7 DEF Paid
  <2> QED  BY <2>1, <2>2, <2>3 DEF ExecutedEffects
<1> QED  BY <1>1, ChannelProgress, PTL
-----------------------------------------------------------------------------
(* The outputs of a bundle, as effects: distinct items are distinct        *)
(* effects, so their value is the sum along the vectors.                   *)
CreateEffects == {Create(x.utxo, x.amount) : x \in ToSet(op.create)}
WithdrawEffects == {ExtWithdraw(x.addr, x.amount) : x \in ToSet(op.withdraw)}

(* The value of effects, one for each item of a vector.                    *)
LEMMA EffectsWorth ==
  ASSUME NEW T, NEW items \in Seq(T), NEW E, NEW e \in Bijection(1 .. Len(items), E),
         \A k \in 1 .. Len(items) : e[k].amount = items[k].amount
  PROVE  IsFiniteSet(E) /\ Value(E) = SumFrom(items, 1)
<1>1. DOMAIN items = 1 .. Len(items) /\ 1 \in Int /\ Len(items) \in Int  OBVIOUS
<1>2. IsFiniteSet(1 .. Len(items))  BY <1>1, FS_Interval, Zenon
<1>3. ExistsBijection(1 .. Len(items), E)  BY DEF ExistsBijection
<1>4. IsFiniteSet(E)  BY <1>2, <1>3, FS_Bijection
<1> DEFINE g == [c \in E |-> c.amount]
<1>5. ASSUME NEW k \in 1 .. Len(items)  PROVE g[e[k]] = Amounts(items)[k]
  <2>1. e[k] \in E  BY DEF Bijection, Injection
  <2> QED  BY <1>1, <2>1 DEF Amounts
<1>6. Value(E) = Total(g, E)  BY DEF Value
<1> DEFINE a == Amounts(items)
           N == 1 .. Len(items)
<1>7. /\ IsFiniteSet(N) /\ e \in Bijection(N, E)
      /\ \A k \in N : g[e[k]] = a[k]
  BY <1>2, <1>5
<1>8. SumFrom(items, 1) = Total(a, N)  BY DEF SumFrom
<1> HIDE DEF g, a, N
<1>9. Total(a, N) = Total(g, E)  BY <1>7, TotalRenamed
<1> QED  BY <1>4, <1>6, <1>8, <1>9

LEMMA CreatesWorth ==
  ASSUME Inv, NoDuplicates(UtxosOf(op.create))
  PROVE  IsFiniteSet(CreateEffects) /\ Value(CreateEffects) = SumFrom(op.create, 1)
<1> DEFINE N == 1 .. Len(op.create)
           e == [k \in N |-> Create(op.create[k].utxo, op.create[k].amount)]
<1>1. op.create \in Seq(CreateItem) /\ DOMAIN op.create = N  BY BundleFacts
<1>2. CreateEffects = {e[k] : k \in N}  BY <1>1 DEF CreateEffects, ToSet
<1>3. \A k \in N : e[k].target = op.create[k].utxo /\ e[k].amount = op.create[k].amount
  BY DEF Create
<1>4. \A j, k \in N : e[j] = e[k] => j = k
  <2>1. \A j, k \in N : op.create[j].utxo = op.create[k].utxo => j = k
    BY <1>1 DEF NoDuplicates, UtxosOf
  <2> HIDE DEF e
  <2> QED  BY <1>3, <2>1
<1>5. e \in [N -> CreateEffects]  BY <1>2
<1> HIDE DEF e
<1>6. e \in Bijection(N, CreateEffects)
  BY <1>2, <1>4, <1>5 DEF Bijection, Injection, Surjection, IsInjective
<1> QED  BY <1>1, <1>3, <1>6, EffectsWorth

LEMMA WithdrawsWorth ==
  ASSUME Inv, NoDuplicates(AddressesOf(op.withdraw))
  PROVE  IsFiniteSet(WithdrawEffects) /\ Value(WithdrawEffects) = TotalWithdraw(op)
<1> DEFINE N == 1 .. Len(op.withdraw)
           e == [k \in N |-> ExtWithdraw(op.withdraw[k].addr, op.withdraw[k].amount)]
<1>1. op.withdraw \in Seq(ExternalItem) /\ DOMAIN op.withdraw = N  BY BundleFacts
<1>2. WithdrawEffects = {e[k] : k \in N}  BY <1>1 DEF WithdrawEffects, ToSet
<1>3. \A k \in N : e[k].target = op.withdraw[k].addr /\ e[k].amount = op.withdraw[k].amount
  BY DEF ExtWithdraw
<1>4. \A j, k \in N : e[j] = e[k] => j = k
  <2>1. \A j, k \in N : op.withdraw[j].addr = op.withdraw[k].addr => j = k
    BY <1>1 DEF NoDuplicates, AddressesOf
  <2> HIDE DEF e
  <2> QED  BY <1>3, <2>1
<1>5. e \in [N -> WithdrawEffects]  BY <1>2
<1> HIDE DEF e
<1>6. e \in Bijection(N, WithdrawEffects)
  BY <1>2, <1>4, <1>5 DEF Bijection, Injection, Surjection, IsInjective
<1> QED  BY <1>1, <1>3, <1>6, EffectsWorth DEF TotalWithdraw

(* Disjoint effects are worth the sum of their values.                     *)
LEMMA ValueUnion ==
  ASSUME NEW D, NEW E, IsFiniteSet(D), IsFiniteSet(E), D \cap E = {}
  PROVE  Value(D \cup E) = Value(D) + Value(E)
<1> DEFINE f == [c \in D \cup E |-> c.amount]
<1>1. Value(D) = Total(f, D)
  <2> DEFINE g == [c \in D |-> c.amount]
  <2>1. \A c \in D : g[c] = f[c]  OBVIOUS
  <2> HIDE DEF f
  <2>2. Value(D) = Total(g, D)  BY DEF Value
  <2> HIDE DEF g
  <2> QED  BY <2>1, <2>2, TotalAgree
<1>2. Value(E) = Total(f, E)
  <2> DEFINE g == [c \in E |-> c.amount]
  <2>1. \A c \in E : g[c] = f[c]  OBVIOUS
  <2> HIDE DEF f
  <2>2. Value(E) = Total(g, E)  BY DEF Value
  <2> HIDE DEF g
  <2> QED  BY <2>1, <2>2, TotalAgree
<1>3. Value(D \cup E) = Total(f, D \cup E)  BY DEF Value
<1> HIDE DEF f
<1> QED  BY <1>1, <1>2, <1>3, TotalUnion

(* The UTXOs the call made and used are the ones the bundle lists.         *)
LEMMA ExitOutputs ==
  ASSUME Inv, Booked, pc = "exit"
  PROVE  /\ SpentUtxos = SpentBy(op)
         /\ {Create(u, utxo[u]) : u \in NewUtxos} = CreateEffects
<1>1. \A k \in 1 .. Len(op.create) :
        /\ op.create[k].utxo \in Utxos
        /\ snap.utxo[op.create[k].utxo] = -1
        /\ op.create[k].amount > 0
        /\ utxo[op.create[k].utxo] = op.create[k].amount
  BY BookedUtxos, BundleFacts
<1>2. Creates(Len(op.create) + 1)  BY DEF Booked
<1>3. \A u \in SpentBy(op) : u \in Utxos /\ snap.utxo[u] > 0 /\ utxo[u] = 0
  BY <1>2, FundsFacts DEF Creates
<1>4. \A u \in Utxos : u \notin SpentBy(op) /\ u \notin CreatedBy(op) => utxo[u] = snap.utxo[u]
  <2>1. First(op.create, Len(op.create) + 1) = CreatedBy(op)
    BY BundleFacts, FirstFacts DEF CreatedBy
  <2> QED  BY <1>2, <2>1 DEF Creates
<1>5. \A u \in CreatedBy(op) : \E k \in 1 .. Len(op.create) : u = op.create[k].utxo
  BY FundsFacts
<1>6. \A u \in Utxos : utxo[u] \in Int /\ snap.utxo[u] \in Int
  BY BundleFacts, AmountBounds
<1>7. SpentUtxos = SpentBy(op)
  <2>1. ASSUME NEW u \in SpentUtxos  PROVE u \in SpentBy(op)
    BY <1>1, <1>4, <1>5, <1>6 DEF SpentUtxos
  <2> QED  BY <1>3, <2>1 DEF SpentUtxos
<1>8. ToSet(op.create) = {op.create[k] : k \in 1 .. Len(op.create)}
  <2>1. DOMAIN op.create = 1 .. Len(op.create)  BY BundleFacts
  <2> QED  BY <2>1 DEF ToSet
<1>9. ASSUME NEW u \in NewUtxos  PROVE Create(u, utxo[u]) \in CreateEffects
  <2>1. u \in Utxos /\ snap.utxo[u] = -1 /\ utxo[u] # -1  BY DEF NewUtxos
  <2>2. u \in CreatedBy(op)  BY <1>3, <1>4, <2>1
  <2>3. PICK k \in 1 .. Len(op.create) : u = op.create[k].utxo  BY <1>5, <2>2
  <2>4. utxo[u] = op.create[k].amount  BY <1>1, <2>3
  <2> QED  BY <1>8, <2>3, <2>4 DEF CreateEffects
<1>10. ASSUME NEW x \in ToSet(op.create)
       PROVE  x.utxo \in NewUtxos /\ utxo[x.utxo] = x.amount
  <2>1. PICK k \in 1 .. Len(op.create) : x = op.create[k]  BY <1>8
  <2>2. x.utxo \in Utxos /\ snap.utxo[x.utxo] = -1 /\ x.amount > 0 /\ utxo[x.utxo] = x.amount
    BY <1>1, <2>1
  <2> QED  BY <1>6, <2>2 DEF NewUtxos
<1>11. {Create(u, utxo[u]) : u \in NewUtxos} = CreateEffects
  <2>1. \A x \in ToSet(op.create) : Create(x.utxo, x.amount) \in {Create(u, utxo[u]) : u \in NewUtxos}
    BY <1>10
  <2> QED  BY <1>9, <2>1 DEF CreateEffects
<1> QED  BY <1>7, <1>11

(* The outputs nobody signed for, the fee among them, are worth exactly    *)
(* what the signers left: what was spent and deposited less what they      *)
(* signed for.                                                             *)
THEOREM ChannelFeeIsResidual == Spec => []FeeIsResidual
<1>1. ASSUME Inv, Checked, Booked  PROVE FeeIsResidual
  <2> DEFINE A == AuthorizedEffects(op)
             E == CreateEffects \cup WithdrawEffects
  <2> SUFFICES ASSUME pc = "exit"
               PROVE  Value(E \ A) =
                        Total(snap.utxo, SpentBy(op)) + TotalDeposit(op) - Value(A)
    <3>1. CASE pc = "exit"
      BY <1>1, <3>1, ExitOutputs, Zenon DEF FeeIsResidual, WithdrawEffects
    <3>2. CASE pc # "exit"  BY <3>2 DEF FeeIsResidual
    <3> QED  BY <3>1, <3>2
  <2>1. A \subseteq E
    BY <1>1 DEF Checked, PreProcessed, AssertSignedEffectsAreExecuted, ExecutedEffects,
       CreateEffects, WithdrawEffects
  <2>2. /\ IsFiniteSet(CreateEffects) /\ Value(CreateEffects) = SumFrom(op.create, 1)
        /\ IsFiniteSet(WithdrawEffects) /\ Value(WithdrawEffects) = TotalWithdraw(op)
    <3>1. NoDuplicates(UtxosOf(op.create)) /\ NoDuplicates(AddressesOf(op.withdraw))
      BY <1>1 DEF Checked, PreProcessed, NoUtxoTwice, VerifyExternalOperations
    <3> QED  BY <1>1, <3>1, CreatesWorth, WithdrawsWorth
  <2>3. CreateEffects \cap WithdrawEffects = {}
    BY DEF CreateEffects, WithdrawEffects, Create, ExtWithdraw
  <2>4. Value(E) = SumFrom(op.create, 1) + TotalWithdraw(op)
    <3>1. Value(E) = Value(CreateEffects) + Value(WithdrawEffects)
      BY <2>2, <2>3, ValueUnion, Zenon
    <3> QED  BY <2>2, <3>1, Zenon
  <2>5. IsFiniteSet(A) /\ IsFiniteSet(E \ A) /\ A \cup (E \ A) = E /\ A \cap (E \ A) = {}
    <3>1. IsFiniteSet(E)  BY <2>2, FS_Union
    <3> HIDE DEF A, E
    <3> QED  BY <2>1, <3>1, FS_Subset
  <2> HIDE DEF A, E
  <2>6. Value(E) = Value(A) + Value(E \ A)
    <3>1. Value(A \cup (E \ A)) = Value(A) + Value(E \ A)  BY <2>5, ValueUnion, Zenon
    <3> QED  BY <2>5, <3>1, Zenon
  <2>7. Value(A) \in Nat /\ Value(E \ A) \in Nat  BY <2>5, TotalType DEF Value
  <2>8. Funds = SumFrom(op.create, 1) + TotalWithdraw(op)  BY <1>1 DEF Booked
  <2>9. Total(snap.utxo, SpentBy(op)) \in Nat /\ TotalDeposit(op) \in Nat
    BY <1>1, FundsFacts, BundleFacts
  <2> QED  BY <2>4, <2>6, <2>7, <2>8, <2>9 DEF Funds
<1> QED  BY <1>1, ChannelProgress, PTL
=============================================================================
