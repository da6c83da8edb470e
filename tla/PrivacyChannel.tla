--------------------------- MODULE PrivacyChannel ---------------------------
(***************************************************************************)
(* contracts/privacy-channel with modules/utxo-core: the entry point       *)
(* `transact` of a privacy channel, statement by statement where another   *)
(* contract runs in between, over the UTXO store, the channel's supply and *)
(* the balances of the asset contract.                                     *)
(*                                                                         *)
(* A running call is the frame <<pc, op, i, avail, snap>>: where it is,    *)
(* its argument, the position in the vector it loops over, process_bundle's *)
(* total_available_balance, and the ledger it started on.  A call that     *)
(* panics restores snap (the host's rollback).  The asset contract has     *)
(* control during its transfers and may call transact again: such a call   *)
(* suspends the running frame on `outer`.  The Soroban host refuses to     *)
(* enter a contract that is on the call stack; the model does not rely on  *)
(* it, so that what it shows of the guard holds without the host's help.   *)
(*                                                                         *)
(* External and abstracted to their verdict: the channel's auth contract   *)
(* and the depositors' authorizations (either refuses by a panic), the     *)
(* resource limits and the archival checks of the host (likewise).         *)
(*                                                                         *)
(* A definition before the properties that no other definition uses is a   *)
(* slip the code could have made, in the place of the definition that      *)
(* follows: the properties are shown to fail with it.                      *)
(***************************************************************************)
EXTENDS ChannelOps, Ttl

CONSTANTS Utxos, Threshold, Bump, MinTtl, MaxLedger,   \* of the store
          InstThreshold, \* INSTANCE_LIFETIME_THRESHOLD
          InstBump,      \* INSTANCE_BUMP_AMOUNT
          Accounts,      \* the addresses other than the channel's
          Channel,       \* the channel's own address
          InitialBal,    \* the asset's balances when the channel is deployed
          Ops            \* the ChannelOperations that are submitted

Addresses == Accounts \cup {Channel}

Conds == Seq(Condition(Utxos, Addresses, I128))
SpendItem == [utxo : Utxos, conds : Conds]
CreateItem == [utxo : Utxos, amount : I128]
ExternalItem == [addr : Addresses, amount : I128, conds : Conds]

ChannelOperation ==
  [spend : Seq(SpendItem), create : Seq(CreateItem),
   deposit : Seq(ExternalItem), withdraw : Seq(ExternalItem)]

ASSUME UtxosAssumption == IsFiniteSet(Utxos)
ASSUME TtlAssumption ==
  /\ Threshold \in Nat /\ Bump \in Nat /\ Threshold < Bump
  /\ InstThreshold \in Nat /\ InstBump \in Nat /\ InstThreshold < InstBump
  /\ MinTtl \in Nat \ {0}
  /\ MaxLedger \in Nat
ASSUME AccountsAssumption == Channel \notin Accounts
ASSUME InitialBalAssumption ==
  InitialBal \in [Addresses -> 0 .. MaxAmount]
ASSUME OpsAssumption == Ops \subseteq ChannelOperation

VARIABLES
  utxo, until, touched, seq,     \* the UTXO store and the ledger number
  supply,                        \* Supply, the channel's own account of it
  bal,                           \* the balances in the asset contract
  inst,                          \* the last ledger the instance is live in
  guard,                         \* RGUARD is set in temporary storage
  pc, op, i, avail, snap, outer  \* the running call

Store == INSTANCE UtxoStore

storeVars == <<utxo, until, touched>>
frame == <<pc, op, i, avail, snap, outer>>
vars == <<utxo, until, touched, seq, supply, bal, inst, guard, pc, op, i, avail, snap, outer>>
-----------------------------------------------------------------------------
(* What a rollback restores.                                               *)
Ledger == [utxo |-> utxo, until |-> until, touched |-> touched, supply |-> supply,
           bal |-> bal, inst |-> inst, guard |-> guard]

Genesis == [utxo |-> [u \in Utxos |-> -1], until |-> [u \in Utxos |-> 0],
            touched |-> [u \in Utxos |-> 0], supply |-> 0, bal |-> InitialBal,
            inst |-> ExtendTtl(FreshTtl(0, MinTtl), 0, InstThreshold, InstBump),
            guard |-> FALSE]

NoOp == [spend |-> <<>>, create |-> <<>>, deposit |-> <<>>, withdraw |-> <<>>]

(* The deployed channel, after __constructor.                              *)
Init ==
  /\ utxo = Genesis.utxo /\ until = Genesis.until /\ touched = Genesis.touched
  /\ supply = Genesis.supply /\ bal = Genesis.bal
  /\ inst = Genesis.inst /\ guard = Genesis.guard /\ seq = 0
  /\ pc = "idle" /\ op = NoOp /\ i = 1 /\ avail = 0
  /\ snap = Genesis
  /\ outer = <<>>

Phases == {"idle", "pre", "auth", "spend", "create", "deposit", "pulled",
           "withdraw", "pushed", "exit"}

LedgerType ==
  [utxo : [Utxos -> -1 .. MaxAmount], until : [Utxos -> Nat], touched : [Utxos -> Nat],
   supply : I128, bal : [Addresses -> 0 .. MaxAmount], inst : Nat, guard : BOOLEAN]

TypeOK ==
  /\ Ledger \in LedgerType
  /\ seq \in Nat
  /\ pc \in Phases
  /\ op \in ChannelOperation
  /\ i \in Nat \ {0}
  /\ avail \in I128
  /\ snap \in LedgerType
  /\ outer \in Seq([pc : Phases, op : ChannelOperation, i : Nat \ {0}, avail : I128, snap : LedgerType])
-----------------------------------------------------------------------------
(* transact, from its entry to its exit.  A step is enabled when the       *)
(* code's checks pass; when they do not, only Panic is left.               *)
AssetPhases == {"deposit", "pulled", "withdraw", "pushed"}

BumpInstanceTtl == inst' = ExtendTtl(inst, seq, InstThreshold, InstBump)

EnterReentrancyGuardUnchecked == guard' = TRUE

EnterReentrancyGuard == ~ guard /\ guard' = TRUE

ExitReentrancyGuardNot == UNCHANGED guard

ExitReentrancyGuard == guard' = FALSE

Transact(o) ==
  /\ pc \in {"idle"} \cup AssetPhases
  /\ Live(inst, seq)
  /\ BumpInstanceTtl
  /\ EnterReentrancyGuard
  /\ outer' = IF pc = "idle" THEN outer
              ELSE <<[pc |-> pc, op |-> op, i |-> i, avail |-> avail, snap |-> snap]>> \o outer
  /\ snap' = Ledger
  /\ pc' = "pre" /\ op' = o /\ i' = 1 /\ avail' = 0
  /\ UNCHANGED <<storeVars, seq, supply, bal>>

(* pre_process_channel_operation, which also fixes incoming_amount.        *)
PreProcess ==
  /\ pc = "pre"
  /\ PreProcessed(op)
  /\ pc' = "auth"
  /\ avail' = TotalDeposit(op)
  /\ UNCHANGED <<storeVars, seq, supply, bal, inst, guard, op, i, snap, outer>>

(* The head of process_bundle; the auth contract accepts.                  *)
RequireAuth ==
  /\ pc = "auth"
  /\ NoUtxoTwice(op)
  /\ pc' = "spend"
  /\ UNCHANGED <<storeVars, seq, supply, bal, inst, guard, op, i, avail, snap, outer>>

CanSpendUnchecked == Store!CanSpend(op.spend[i].utxo)

(* What the call checks in a round of a loop, here and below.              *)
CanSpend == Store!CanSpend(op.spend[i].utxo) /\ avail + utxo[op.spend[i].utxo] \in I128

SpendStep ==
  /\ pc = "spend" /\ i <= Len(op.spend)
  /\ CanSpend
  /\ Store!Spend(op.spend[i].utxo)
  /\ avail' = avail + utxo[op.spend[i].utxo]
  /\ i' = i + 1
  /\ UNCHANGED <<supply, bal, inst, guard, pc, op, snap, outer>>

SpendsDone ==
  /\ pc = "spend" /\ i > Len(op.spend)
  /\ pc' = "create" /\ i' = 1
  /\ UNCHANGED <<storeVars, seq, supply, bal, inst, guard, op, avail, snap, outer>>

CanCreateWithRest ==
  Store!CanCreate(op.create[i].utxo, op.create[i].amount) /\ avail - op.create[i].amount > 0

CanCreate ==
  Store!CanCreate(op.create[i].utxo, op.create[i].amount) /\ avail - op.create[i].amount \in I128

CreateStep ==
  /\ pc = "create" /\ i <= Len(op.create)
  /\ CanCreate
  /\ Store!Create(op.create[i].utxo, op.create[i].amount)
  /\ avail' = avail - op.create[i].amount
  /\ i' = i + 1
  /\ UNCHANGED <<supply, bal, inst, guard, pc, op, snap, outer>>

Covers == avail >= TotalWithdraw(op)

(* The end of process_bundle: what is left is exactly what goes out.       *)
ComesOut == avail = TotalWithdraw(op)

CheckBalanced ==
  /\ pc = "create" /\ i > Len(op.create)
  /\ ComesOut
  /\ pc' = "deposit" /\ i' = 1
  /\ UNCHANGED <<storeVars, seq, supply, bal, inst, guard, op, avail, snap, outer>>

(* The asset's transfer: debit, then credit what the debit left.           *)
Debited(from, amount) == [bal EXCEPT ![from] = @ - amount]

CanTransfer(from, to, amount) ==
  bal[from] >= amount /\ Debited(from, amount)[to] + amount <= MaxAmount

Transfer(from, to, amount) ==
  /\ CanTransfer(from, to, amount)
  /\ bal' = [Debited(from, amount) EXCEPT ![to] = @ + amount]

CanPullFromAnyone == CanTransfer(op.deposit[i].addr, Channel, op.deposit[i].amount)

CanPull ==
  op.deposit[i].addr # Channel /\ CanTransfer(op.deposit[i].addr, Channel, op.deposit[i].amount)

(* A deposit: the depositor's authorization, which the channel itself      *)
(* never gives, and the transfer.  Then increase_supply.                   *)
PullDeposit ==
  /\ pc = "deposit" /\ i <= Len(op.deposit)
  /\ CanPull
  /\ Transfer(op.deposit[i].addr, Channel, op.deposit[i].amount)
  /\ pc' = "pulled"
  /\ UNCHANGED <<storeVars, seq, supply, inst, guard, op, i, avail, snap, outer>>

IncreaseSupply ==
  /\ pc = "pulled"
  /\ supply + op.deposit[i].amount \in I128
  /\ supply' = supply + op.deposit[i].amount
  /\ pc' = "deposit" /\ i' = i + 1
  /\ UNCHANGED <<storeVars, seq, bal, inst, guard, op, avail, snap, outer>>

DepositsDone ==
  /\ pc = "deposit" /\ i > Len(op.deposit)
  /\ pc' = "withdraw" /\ i' = 1
  /\ UNCHANGED <<storeVars, seq, supply, bal, inst, guard, op, avail, snap, outer>>

(* A withdrawal: the transfer, which the channel authorizes for itself.    *)
(* Then decrease_supply.                                                   *)
PushWithdraw ==
  /\ pc = "withdraw" /\ i <= Len(op.withdraw)
  /\ Transfer(Channel, op.withdraw[i].addr, op.withdraw[i].amount)
  /\ pc' = "pushed"
  /\ UNCHANGED <<storeVars, seq, supply, inst, guard, op, i, avail, snap, outer>>

DecreaseSupplyNot ==
  /\ pc = "pushed"
  /\ pc' = "withdraw" /\ i' = i + 1
  /\ UNCHANGED <<storeVars, seq, supply, bal, inst, guard, op, avail, snap, outer>>

DecreaseSupply ==
  /\ pc = "pushed"
  /\ supply - op.withdraw[i].amount \in I128
  /\ supply' = supply - op.withdraw[i].amount
  /\ pc' = "withdraw" /\ i' = i + 1
  /\ UNCHANGED <<storeVars, seq, bal, inst, guard, op, avail, snap, outer>>

WithdrawsDone ==
  /\ pc = "withdraw" /\ i > Len(op.withdraw)
  /\ pc' = "exit" /\ i' = 1
  /\ UNCHANGED <<storeVars, seq, supply, bal, inst, guard, op, avail, snap, outer>>
-----------------------------------------------------------------------------
(* The running call is over: its caller goes on, or nobody.                *)
Return ==
  IF outer = <<>>
  THEN /\ pc' = "idle" /\ op' = NoOp /\ i' = 1 /\ avail' = 0 /\ snap' = Genesis
       /\ UNCHANGED outer
  ELSE LET f == Head(outer)
       IN  /\ pc' = f.pc /\ op' = f.op /\ i' = f.i /\ avail' = f.avail /\ snap' = f.snap
           /\ outer' = Tail(outer)

(* The end of transact.                                                    *)
Exit ==
  /\ pc = "exit"
  /\ ExitReentrancyGuard
  /\ Return
  /\ UNCHANGED <<storeVars, seq, supply, bal, inst>>

(* A check of the code failed, the auth contract, a depositor or the asset *)
(* refused, or the host ran out of budget or met an archived entry.        *)
Panic ==
  /\ pc # "idle"
  /\ utxo' = snap.utxo /\ until' = snap.until /\ touched' = snap.touched
  /\ supply' = snap.supply /\ bal' = snap.bal /\ inst' = snap.inst /\ guard' = snap.guard
  /\ Return
  /\ UNCHANGED seq
-----------------------------------------------------------------------------
(* Around the calls: the view utxo_balance, which the asset can also call  *)
(* during a transfer, ledgers, restorations, and transfers of the asset    *)
(* that do not concern the channel, or give to it.                         *)
rest == <<supply, bal, inst, guard, frame>>

UtxoBalance(u) ==
  /\ pc \in {"idle"} \cup AssetPhases
  /\ Live(inst, seq)
  /\ Store!Balance(u)
  /\ UNCHANGED rest

CloseLedger == pc = "idle" /\ Store!CloseLedger /\ UNCHANGED rest

Restore(u) == pc = "idle" /\ Store!Restore(u) /\ UNCHANGED rest

RestoreInstance ==
  /\ pc = "idle"
  /\ ~ Live(inst, seq)
  /\ inst' = FreshTtl(seq, MinTtl)
  /\ UNCHANGED <<storeVars, seq, supply, bal, guard, frame>>

AssetTransfer(from, to, amount) ==
  /\ pc = "idle"
  /\ Transfer(from, to, amount)
  /\ UNCHANGED <<storeVars, seq, supply, inst, guard, frame>>
-----------------------------------------------------------------------------
Step ==
  \/ PreProcess \/ RequireAuth
  \/ SpendStep \/ SpendsDone \/ CreateStep \/ CheckBalanced
  \/ PullDeposit \/ IncreaseSupply \/ DepositsDone
  \/ PushWithdraw \/ DecreaseSupply \/ WithdrawsDone
  \/ Exit \/ Panic

Environment ==
  \/ \E u \in Utxos : UtxoBalance(u) \/ Restore(u)
  \/ CloseLedger
  \/ RestoreInstance
  \/ \E from \in Accounts, to \in Addresses : \E a \in 1 .. MaxAmount : AssetTransfer(from, to, a)

Next ==
  \/ \E o \in Ops : Transact(o)
  \/ Step
  \/ Environment

Spec == Init /\ [][Next]_vars

(* The host runs an invocation to its end: it never abandons one half-way. *)
FairSpec == Spec /\ WF_vars(Step)
-----------------------------------------------------------------------------
(* Whenever no call is in progress, the supply is the value of the unspent *)
(* UTXOs: process_bundle moves the UTXOs, execute_external_operations the  *)
(* supply, in separate loops that only agree through the balance check.    *)
SupplyBacked == ~ guard => supply = Total(utxo, Utxos)

(* Whenever no call is in progress, the channel holds the asset for every  *)
(* unit of its supply, whatever is given to it, deposited, withdrawn, or   *)
(* withdrawn to the channel's own address.                                 *)
Solvent == ~ guard => bal[Channel] >= supply

NewUtxos == {u \in Utxos : snap.utxo[u] = -1 /\ utxo[u] # -1}
SpentUtxos == {u \in Utxos : snap.utxo[u] > 0 /\ utxo[u] = 0}

DepositedBy(a) ==
  LET ds == {k \in DOMAIN op.deposit : op.deposit[k].addr = a}
  IN  Total(Amounts(op.deposit), ds)

(* assert_signed_effects_are_executed looks at the operation only; here    *)
(* its promise is held against the ledger the call leaves.  Every UTXO a   *)
(* spend owner or a depositor signed to create is new and holds the signed *)
(* amount, and every account they signed to pay received it on top of what *)
(* it deposited.                                                           *)
SignedEffectsRealised ==
  pc = "exit" =>
    \A c \in AuthorizedEffects(op) :
      \/ /\ c.kind = "Create"
         /\ c.target \in NewUtxos
         /\ utxo[c.target] = c.amount
      \/ /\ c.kind = "ExtWithdraw"
         /\ c.target # Channel =>
              bal[c.target] = snap.bal[c.target] - DepositedBy(c.target) + c.amount

Value(effects) == Total([c \in effects |-> c.amount], effects)

(* "The retained balance check bounds those extras to exactly the residual *)
(* the signers left unallocated": the effects nobody signed for are worth  *)
(* what was spent and deposited less what was signed for.                  *)
FeeIsResidual ==
  pc = "exit" =>
    LET Outputs == {Create(u, utxo[u]) : u \in NewUtxos}
                     \cup {ExtWithdraw(w.addr, w.amount) : w \in ToSet(op.withdraw)}
    IN  Value(Outputs \ AuthorizedEffects(op)) =
          Total(snap.utxo, SpentUtxos) + TotalDeposit(op) - Value(AuthorizedEffects(op))

(* The scan compares a condition with the ones before it only, and looks   *)
(* for a conflict in one direction.  In a bundle that is executed no       *)
(* condition contradicts another all the same, whoever attached them and   *)
(* in whatever order.                                                      *)
ConditionsAgree ==
  pc = "exit" => \A c, d \in ToSet(AllConds(op)) : ~ ConflictsWith(c, d)

(* The call as one step: it returns only where ChannelOps accepts the      *)
(* bundle on the ledger the call started on, and has made of that ledger   *)
(* exactly the settlement of the bundle, though it wrote UTXOs, balances   *)
(* and supply one by one.                                                  *)
SettlesExactly ==
  pc = "exit" =>
    /\ Accepts(Channel, snap, op)
    /\ [utxo |-> utxo, supply |-> supply, bal |-> bal] = Settlement(Channel, snap, op)

(* And it returns everywhere else: on the way, a bundle that is acceptable *)
(* on the ledger the call started on meets no check that fails, unless an  *)
(* entry is archived.                                                      *)
AcceptedGoesThrough ==
  /\ pc # "idle" /\ Accepts(Channel, snap, op)
  /\ \A u \in SpentBy(op) : Store!Readable(u)
  => /\ pc = "pre" => PreProcessed(op)
     /\ pc = "auth" => NoUtxoTwice(op)
     /\ pc = "spend" /\ i <= Len(op.spend) => CanSpend
     /\ pc = "create" => IF i <= Len(op.create) THEN CanCreate ELSE ComesOut
     /\ pc = "deposit" /\ i <= Len(op.deposit) => CanPull
     /\ pc = "pulled" => supply + op.deposit[i].amount \in I128
     /\ pc = "withdraw" /\ i <= Len(op.withdraw) =>
          CanTransfer(Channel, op.withdraw[i].addr, op.withdraw[i].amount)
     /\ pc = "pushed" => supply - op.withdraw[i].amount \in I128

(* The ledger inside a call, while the asset has control: the UTXOs are    *)
(* those the call will leave, and increase_supply and decrease_supply lag  *)
(* behind them by exactly the deposits and the withdrawals not counted     *)
(* yet, the one under way included.                                        *)
SupplyOffByPending ==
  pc \in AssetPhases =>
    LET pulling == pc \in {"deposit", "pulled"}
    IN  /\ utxo = UtxosAfter(snap, op)
        /\ supply + (IF pulling THEN SumFrom(op.deposit, i) ELSE 0) =
             Total(utxo, Utxos) + (IF pulling THEN TotalWithdraw(op) ELSE SumFrom(op.withdraw, i))

(* A call of transact never starts on a ledger that another call has only  *)
(* half changed: the asset is called between the transfer and the supply   *)
(* update, and only the guard turns a nested call away there.              *)
CallsStartSettled ==
  [][pc' = "pre" /\ pc # "pre" => /\ supply = Total(utxo, Utxos)
                                 /\ bal[Channel] >= supply]_vars

(* Once a call has set the guard, it is cleared again, on success as on a  *)
(* panic: a flag left behind would close the channel to every later call.  *)
GuardReleased == guard ~> ~ guard

(* The ledger as everybody outside the running call sees it.               *)
Committed ==
  IF pc = "idle" THEN Ledger ELSE IF outer = <<>> THEN snap ELSE Last(outer).snap

Promise ==
  INSTANCE ChannelPromise WITH
    Notes <- Utxos,
    InitialVault <- InitialBal[Channel],
    note <- Committed.utxo,
    pot <- Committed.supply,
    vault <- Committed.bal[Channel]

(* transact is atomic and keeps the promise of ChannelPromise: every call  *)
(* that returns is one settlement, every call that panics is no step.      *)
KeepsPromise == Promise!Spec

Public == [utxo |-> Committed.utxo, supply |-> Committed.supply, bal |-> Committed.bal]

(* Nothing but a call of transact changes the UTXOs and the supply that    *)
(* outsiders see, and each call does it at once: what they see next is the *)
(* settlement of one acceptable bundle, or nothing new, however many steps *)
(* and calls of the asset it took.                                         *)
TransactIsAtomic ==
  [][IF pc = "idle" THEN UNCHANGED <<utxo, supply>>
     ELSE \/ UNCHANGED Public
          \/ \E o \in Ops : /\ Accepts(Channel, Public, o)
                            /\ Public' = Settlement(Channel, Public, o)]_vars

(* modules/errors: UnauthorizedOperation is raised when "an executed       *)
(* create/withdraw effect is not covered by an owner-signed condition".    *)
ExecutedEffectsAreSigned ==
  pc = "exit" => ExecutedEffects(op) \subseteq AuthorizedEffects(op)
=============================================================================
