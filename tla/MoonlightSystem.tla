-------------------------- MODULE MoonlightSystem --------------------------
(***************************************************************************)
(* The contracts together: channels that share one asset and one auth      *)
(* contract, with the accounts that deposit, the owners of UTXOs and the   *)
(* providers that sign, and the ledgers that close in between.  What       *)
(* PrivacyChannel leaves to a choice is decided here: the auth contract's  *)
(* verdict is ChannelAuth's CheckAuth on the signatures that exist, and a  *)
(* deposit takes an authorization that its account gave for it.            *)
(*                                                                         *)
(* A bundle is one step: PrivacyChannel shows that a call of transact is   *)
(* its settlement or nothing (SettlesExactly, AcceptedGoesThrough,         *)
(* KeepsPromise).  Archival and the change of owners are left to the other *)
(* modules.  An account's authorization is used up (the host's nonce); a   *)
(* provider's is not, which allows more than the host does.  Signatures    *)
(* get lost, and are made again.                                           *)
(***************************************************************************)
EXTENDS ChannelOps, AuthRequest, Ttl

CONSTANTS Channels,      \* the privacy channels
          Accounts,      \* the other addresses
          Utxos,         \* UTXO keys; a key may be used in several channels
          Providers,     \* the accounts that may be registered as providers
          Admin,         \* the owner of the auth contract
          InitialBal,    \* the asset's balances
          Ops,           \* the operations that are submitted, to any channel
          Intents,       \* what the owners of UTXOs sign: key, channel, conditions, expiry
          InstThreshold, InstBump, MinTtl, MaxTtl, MaxLedger, MaxSigs,   \* of ChannelAuth
          MaxGrants      \* bound: the deposits that are authorized and not made

Addresses == Accounts \cup Channels

Conds == Seq(Condition(Utxos, Addresses, I128))
SpendItem == [utxo : Utxos, conds : Conds]
CreateItem == [utxo : Utxos, amount : I128]
ExternalItem == [addr : Addresses, amount : I128, conds : Conds]

ChannelOperation ==
  [spend : Seq(SpendItem), create : Seq(CreateItem),
   deposit : Seq(ExternalItem), withdraw : Seq(ExternalItem)]

ASSUME SystemAssumption ==
  /\ IsFiniteSet(Utxos) /\ Accounts \cap Channels = {}
  /\ InitialBal \in [Addresses -> 0 .. MaxAmount]
  /\ \A c \in Channels : InitialBal[c] = 0
ASSUME OpsAssumption == Ops \subseteq ChannelOperation
ASSUME IntentsAssumption ==
  /\ Intents \subseteq
       [utxo : Utxos, w : [contract : Channels, conds : Conds, until : 0 .. MaxLedger]]
  /\ Utxos \cap Addresses = {} /\ (Utxos \cup Addresses) \cap Int = {}
ASSUME AuthTtlAssumption ==
  /\ InstThreshold \in Nat /\ InstBump \in Nat
  /\ MinTtl \in Nat \ {0} /\ MaxTtl \in Nat \ {0} /\ MaxLedger \in Nat

VARIABLES
  chan,                                        \* the UTXOs and the supply of each channel
  bal,                                         \* the balances in the asset contract
  grants,                                      \* the deposits that are authorized
  owner, pending, providers, inst, seq, made,  \* of the auth contract
  last, lastUse                                \* its history

authVars == <<owner, pending, providers, inst, seq, made, last, lastUse>>
vars == <<chan, bal, grants, authVars>>

Auth == INSTANCE ChannelAuth WITH
          Admins <- {Admin}, FirstAdmin <- Admin,
          Outputs <- Utxos, CondLists <- {n.w.conds : n \in Intents},
          Checks <- {Contexts(c, o.spend) : c \in Channels, o \in Ops}

Init ==
  /\ chan = [c \in Channels |-> [utxo |-> [u \in Utxos |-> -1], supply |-> 0]]
  /\ bal = InitialBal
  /\ grants = {}
  /\ Auth!Init

TypeOK ==
  /\ chan \in [Channels -> [utxo : [Utxos -> -1 .. MaxAmount], supply : 0 .. MaxAmount]]
  /\ bal \in [Addresses -> 0 .. MaxAmount]
  /\ \A g \in grants : g.from \in Accounts /\ g.channel \in Channels
  /\ Auth!TypeOK
-----------------------------------------------------------------------------
(* What an account authorizes by a deposit: the call of the channel with   *)
(* its conditions, and in it the asset's transfer of the amount.           *)
Grant(c, d) == [channel |-> c, from |-> d.addr, amount |-> d.amount, conds |-> d.conds]

LedgerOf(c) == [utxo |-> chan[c].utxo, supply |-> chan[c].supply, bal |-> bal]

Transact(c, o, sigs) ==
  LET asked == {Grant(c, d) : d \in ToSet(o.deposit)}
      after == Settlement(c, LedgerOf(c), o)
  IN  /\ Accepts(c, LedgerOf(c), o)
      /\ Auth!CheckAuth(sigs, Contexts(c, o.spend))
      /\ asked \subseteq grants
      /\ grants' = grants \ asked
      /\ chan' = [chan EXCEPT ![c] = [utxo |-> after.utxo, supply |-> after.supply]]
      /\ bal' = after.bal

(* The signatures a submitter attaches to a bundle: any that were made,    *)
(* under the keys the bundle asks for and that of one provider.            *)
Attachable(o) ==
  UNION {[{P256(u) : u \in SpentBy(o)} \cup {Provider(p)} -> [sig : made, until : 0 .. MaxLedger]] :
           p \in Providers}
-----------------------------------------------------------------------------
(* Around the contracts.                                                   *)
Authorize(c, d) ==
  /\ d.addr \in Accounts
  /\ Cardinality(grants \cup {Grant(c, d)}) <= MaxGrants
  /\ grants' = grants \cup {Grant(c, d)}
  /\ UNCHANGED <<chan, bal, authVars>>

Lose(sig) ==
  /\ made' = made \ {sig}
  /\ UNCHANGED <<chan, bal, grants, owner, pending, providers, inst, seq, last, lastUse>>

AssetTransfer(from, to, amount) ==
  /\ bal[from] >= amount
  /\ bal[to] + amount <= MaxAmount
  /\ from # to
  /\ bal' = [bal EXCEPT ![from] = @ - amount, ![to] = @ + amount]
  /\ UNCHANGED <<chan, grants, authVars>>

AuthContract ==
  /\ \/ \E p \in Providers : Auth!AddProvider(Admin, p) \/ Auth!RemoveProvider(Admin, p)
     \/ \E n \in Intents : Auth!Sign(Auth!OwnerSignature(n.utxo, n.w))
     \/ \E p \in Providers, c \in Channels, o \in Ops :
          Auth!Sign(Auth!ProviderSignature(p, Contexts(c, o.spend)))
     \/ Auth!CloseLedger
  /\ UNCHANGED <<chan, bal, grants>>

Next ==
  \/ \E c \in Channels, o \in Ops :
       \/ \E sigs \in Attachable(o) : Transact(c, o, sigs)
       \/ \E d \in ToSet(o.deposit) : Authorize(c, d)
  \/ \E from \in Accounts, to \in Addresses : AssetTransfer(from, to, 1)
  \/ \E sig \in made : Lose(sig)
  \/ AuthContract

Spec == Init /\ [][Next]_vars
-----------------------------------------------------------------------------
Creates(conds) == {d \in ToSet(conds) : d.kind = "Create"}

(* UTXOs that were absent from channel c and now hold the amounts asked for. *)
Realised(c, creates) ==
  \A d \in creates : chan[c].utxo[d.target] = -1 /\ chan'[c].utxo[d.target] = d.amount

(* The withdrawals among the conditions, and the conditions that the       *)
(* bundle of this step lists with the UTXO it spends.                      *)
Withdraws(conds) == {d \in ToSet(conds) : d.kind = "ExtWithdraw"}
Listed(u) == last'[1].reqs[P256(u)]

(* The address asked for gets the amount, on top of what the bundle takes  *)
(* from it as a deposit.  A channel that pays itself pays nothing.         *)
PaidOut(c, d) ==
  LET used == {g \in grants \ grants' : g.from = d.target}
  IN  d.target # c =>
        IF used = {} THEN bal'[d.target] = bal[d.target] + d.amount
        ELSE \A g \in used : bal'[d.target] = bal[d.target] - g.amount + d.amount

(* The owner of u signed for this channel, and in time.                    *)
SignedInTime(sig, c, u) ==
  sig.variant = "P256" /\ sig.pk = u /\ sig.intent.contract = c /\ sig.intent.until >= seq

LeavesChannel(c, u) == chan[c].utxo[u] > 0 /\ chan'[c].utxo[u] # chan[c].utxo[u]

(* A UTXO leaves a channel only by a signature its owner made for that     *)
(* channel, in time.  If what was signed and what the bundle lists are of  *)
(* sizes that fix their shapes, every UTXO the owner signed to create is   *)
(* created there in the same step, and every withdrawal the owner signed   *)
(* is either paid or listed under another kind, whoever put the bundle     *)
(* together from whatever signatures were lying about, for whichever       *)
(* channel.  The second case is what SignedWithdrawalsArePaid is about.    *)
OwnersGetTheirOutputs ==
  [][\A c \in Channels, u \in Utxos : LeavesChannel(c, u) =>
       \E sig \in made :
         /\ SignedInTime(sig, c, u)
         /\ Fixed(sig.intent.conds) /\ Fixed(Listed(u)) =>
              /\ Realised(c, Creates(sig.intent.conds))
              /\ \A d \in Withdraws(sig.intent.conds) :
                   \/ PaidOut(c, d)
                   \/ \E e \in ToSet(Listed(u)) :
                        e.kind # d.kind /\ e.target = d.target /\ e.amount = d.amount]_vars

(* transact.rs: "every Create/ExtWithdraw condition signed by a spend      *)
(* owner (P256) or depositor (Ed25519) is executed exactly".  A withdrawal *)
(* that the owner signed is not, when the bundle lists it as a deposit:    *)
(* hash_payload is the same for both, and no deposit is execution-bound.   *)
SignedWithdrawalsArePaid ==
  [][\A c \in Channels, u \in Utxos : LeavesChannel(c, u) =>
       \E sig \in made :
         /\ SignedInTime(sig, c, u)
         /\ \A d \in Withdraws(sig.intent.conds) : PaidOut(c, d)]_vars

(* A channel takes from an account only what the account has authorized    *)
(* for it and not yet paid, and creates in return every UTXO the account   *)
(* asked for.                                                              *)
DepositorsGetTheirOutputs ==
  [][\A c \in Channels, a \in Accounts :
       chan'[c] # chan[c] /\ bal'[a] < bal[a] =>
         \E g \in grants \ grants' :
           /\ g.from = a /\ g.channel = c
           /\ bal[a] - bal'[a] <= g.amount
           /\ Realised(c, Creates(g.conds))]_vars

Promise(c) ==
  INSTANCE ChannelPromise WITH
    Notes <- Utxos, InitialVault <- 0,
    note <- chan[c].utxo, pot <- chan[c].supply, vault <- bal[c]

(* Sharing the asset and the auth contract costs no channel its promise:   *)
(* each is solvent, and its supply is the value of its own UTXOs, through  *)
(* payments from one channel to another and keys used in both.             *)
EveryChannelKeepsPromise ==
  /\ \A c \in Channels : Promise(c)!Init
  /\ [][\A c \in Channels : Promise(c)!Next \/ UNCHANGED Promise(c)!vars]_vars
=============================================================================
