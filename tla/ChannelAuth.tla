---------------------------- MODULE ChannelAuth ----------------------------
(***************************************************************************)
(* contracts/channel-auth with the registry of modules/auth: the account   *)
(* contract that channels ask for the authorization of a bundle.  Its      *)
(* state is the owner with a pending successor, the providers, and the TTL *)
(* of the instance; its checks are those of AuthCheck.                     *)
(*                                                                         *)
(* Signatures are records of who signed what: a submitter can use any that *)
(* was made and forge none (external: secp256r1_verify and ed25519_verify, *)
(* which panic on anything else).  A UTXO's owner signs a hash_payload;    *)
(* `intent` (history) is what it was made from.  A provider signs the      *)
(* host's payload of an authorization entry, which fixes its contexts.     *)
(* The nonce by which the host uses an entry once is left out: an entry    *)
(* can be checked again.  SignerKey::Ed25519 is left out too: required, it *)
(* is passed over as Provider is; in the Signatures, nothing looks it up.  *)
(* A check that fails, by an error or a panic, changes nothing.  Of the    *)
(* operations, enable_channel and disable_channel keep no state, and only  *)
(* publish an event; upgrade replaces the code.  Events are left out.      *)
(*                                                                         *)
(* A definition before the properties that no other definition uses is a   *)
(* slip the code could have made, in the place of the one that follows.    *)
(***************************************************************************)
EXTENDS AuthCheck, Ttl, FiniteSets

CONSTANTS Admins,        \* the addresses that may become owner
          FirstAdmin,    \* the owner the contract is deployed with
          Providers,     \* the accounts that may be registered
          Utxos,         \* UTXO keys
          Channels,      \* the contracts that ask for authorization
          Outputs,       \* the UTXO keys that conditions name
          Addresses,     \* the addresses that conditions name
          CondLists,     \* the lists of conditions that are signed or asked for
          Checks,        \* the contexts of the authorization entries
          InstThreshold, \* INSTANCE_LIFETIME_THRESHOLD
          InstBump,      \* INSTANCE_BUMP_AMOUNT
          MinTtl,        \* the host's least TTL of a new entry
          MaxTtl,        \* the host's greatest
          MaxLedger,     \* bound: the last ledger of the model
          MaxSigs        \* bound: the signatures made

SignerKey == {P256(u) : u \in Utxos} \cup {Provider(p) : p \in Providers}

(* Who is to sign for which conditions, in one context of a check.         *)
AuthRequirements == UNION {[K -> CondLists] : K \in SUBSET SignerKey}

Context ==
  [kind : {"contract", "other"}, contract : Channels,
   arg : {"none", "bad", "reqs"}, reqs : AuthRequirements]

ASSUME AuthTtlAssumption ==
  /\ InstThreshold \in Nat /\ InstBump \in Nat /\ InstThreshold < InstBump
  /\ MinTtl \in Nat \ {0} /\ MaxTtl \in Nat \ {0} /\ MaxLedger \in Nat
ASSUME FirstAdminAssumption == FirstAdmin \in Admins
ASSUME CondListsAssumption ==
  /\ CondLists \subseteq Seq(Condition(Outputs, Addresses, Int))
  /\ Outputs \cap Addresses = {} /\ (Outputs \cup Addresses) \cap Int = {}
ASSUME ChecksAssumption ==
  /\ Checks \subseteq Seq(Context)
  /\ \A contexts \in Checks : \A k \in DOMAIN contexts :
       contexts[k].arg # "reqs" => DOMAIN contexts[k].reqs = {}

VARIABLES
  owner, pending,    \* ownable: the owner, and who may accept until when
  providers,         \* AuthorizedProvider entries
  inst, seq,         \* the last ledger the instance is live in; the ledger
  made,              \* the signatures that exist
  last, lastUse      \* history: the last check that passed, and its ledger

vars == <<owner, pending, providers, inst, seq, made, last, lastUse>>
-----------------------------------------------------------------------------
Untils == 0 .. MaxLedger
Intent == [contract : Channels, conds : CondLists, until : Untils]

(* What a P256 key signs, and what a provider signs.                       *)
OwnerSignature(u, w) ==
  [variant |-> "P256", pk |-> u, msg |-> HashPayload(w.conds, w.until, w.contract), intent |-> w]
ProviderSignature(p, contexts) ==
  [variant |-> "Ed25519", pk |-> p, msg |-> contexts]

NoPending == [to |-> FirstAdmin, until |-> -1]

Init ==
  /\ owner = FirstAdmin /\ pending = NoPending
  /\ providers = {}
  /\ seq = 0
  /\ inst = ExtendTtl(FreshTtl(0, MinTtl), 0, InstThreshold, InstBump)
  /\ made = {} /\ last = <<>> /\ lastUse = 0

(* made, whose elements are of two shapes, is left to the other properties. *)
TypeOK ==
  /\ owner \in Admins
  /\ pending \in [to : Admins, until : -1 .. (MaxLedger + MaxTtl - 1)]
  /\ providers \subseteq Providers
  /\ inst \in Nat /\ seq \in Untils /\ lastUse \in Untils
  /\ last \in {<<>>} \cup Checks
-----------------------------------------------------------------------------
IsProvider(p) == p \in providers

BumpInstanceTtlNot == UNCHANGED inst

BumpInstanceTtl == inst' = ExtendTtl(inst, seq, InstThreshold, InstBump)

(* __check_auth, for an authorization entry with these contexts.           *)
CheckAuth(sigs, contexts) ==
  /\ Live(inst, seq)
  /\ RequireProvider(sigs, contexts, providers, seq)
  /\ HandleUtxoAuth(sigs, contexts, seq)
  /\ BumpInstanceTtl
  /\ last' = contexts /\ lastUse' = seq
  /\ UNCHANGED <<owner, pending, providers, seq, made>>
-----------------------------------------------------------------------------
(* Governance.  `by` is who authorizes the call.                           *)
EnforceOwnerAuth(by) == Live(inst, seq) /\ by = owner

RegisterProvider(p) == ~ IsProvider(p) /\ providers' = providers \cup {p}
DeregisterProvider(p) == IsProvider(p) /\ providers' = providers \ {p}

AddProvider(by, p) ==
  /\ EnforceOwnerAuth(by)
  /\ RegisterProvider(p)
  /\ UNCHANGED <<owner, pending, inst, seq, made, last, lastUse>>

RemoveProvider(by, p) ==
  /\ EnforceOwnerAuth(by)
  /\ DeregisterProvider(p)
  /\ UNCHANGED <<owner, pending, inst, seq, made, last, lastUse>>

(* ownable::transfer_ownership (external): the pending entry is temporary, *)
(* and lives until the last ledger the host allows.                        *)
SetAdminTooLate(by, to) ==
  /\ EnforceOwnerAuth(by)
  /\ pending' = [to |-> to, until |-> seq + MaxTtl]
  /\ UNCHANGED <<owner, providers, inst, seq, made, last, lastUse>>

SetAdmin(by, to) ==
  /\ EnforceOwnerAuth(by)
  /\ pending' = [to |-> to, until |-> seq + MaxTtl - 1]
  /\ UNCHANGED <<owner, providers, inst, seq, made, last, lastUse>>

AcceptAdmin(by) ==
  /\ Live(inst, seq)
  /\ pending.until >= seq
  /\ by = pending.to
  /\ owner' = by /\ pending' = NoPending
  /\ UNCHANGED <<providers, inst, seq, made, last, lastUse>>
-----------------------------------------------------------------------------
(* Around the contract: keys sign, ledgers close, the instance is restored. *)
Sign(sig) ==
  /\ Cardinality(made) < MaxSigs
  /\ made' = made \cup {sig}
  /\ UNCHANGED <<owner, pending, providers, inst, seq, last, lastUse>>

CloseLedger ==
  /\ seq < MaxLedger
  /\ seq' = seq + 1
  /\ UNCHANGED <<owner, pending, providers, inst, made, last, lastUse>>

RestoreInstance ==
  /\ ~ Live(inst, seq)
  /\ inst' = FreshTtl(seq, MinTtl)
  /\ UNCHANGED <<owner, pending, providers, seq, made, last, lastUse>>

(* The maps a submitter can put together from the signatures made.         *)
Submissions ==
  UNION {[K -> [sig : made, until : Untils]] : K \in SUBSET SignerKey}

Next ==
  \/ \E contexts \in Checks : \E sigs \in Submissions : CheckAuth(sigs, contexts)
  \/ \E by \in Admins :
       \/ \E p \in Providers : AddProvider(by, p) \/ RemoveProvider(by, p)
       \/ \E to \in Admins : SetAdmin(by, to)
       \/ AcceptAdmin(by)
  \/ \E u \in Utxos, w \in Intent : Sign(OwnerSignature(u, w))
  \/ \E p \in Providers, contexts \in Checks : Sign(ProviderSignature(p, contexts))
  \/ CloseLedger
  \/ RestoreInstance

Spec == Init /\ [][Next]_vars
-----------------------------------------------------------------------------
Passed == last' # last \/ lastUse' # lastUse

(* Each target of conds is in signed with its amount, a create as a create. *)
TermsSigned(conds, signed) ==
  \A c \in ToSet(conds) : \E d \in ToSet(signed) :
    d.target = c.target /\ d.amount = c.amount /\ (c.kind = "Create" => d = c)

(* A check that passes has, for every UTXO of every context, a signature   *)
(* that the UTXO's owner made for that channel, still valid in this        *)
(* ledger.  If the two lists are such that their size fixes their shape,   *)
(* the owner signed the creates that are asked for and no others, and the  *)
(* same targets with the same amounts.  The kinds of the conditions that   *)
(* are no creates are not bound: hash_payload does not write them, and a   *)
(* signed withdrawal passes for a deposit (SignedWithdrawalsArePaid in     *)
(* MoonlightSystem).  No context shields another: one without arguments is *)
(* passed over alone.  Two documents say that it ends the check, which     *)
(* then returns Ok(()) "without further checks" (contracts/arch.md:119,    *)
(* static-analysis.md:237); that is HandleUtxoAuthReturns of AuthCheck,    *)
(* under which this property fails.                                        *)
SpendersConsented ==
  [][Passed => \A k \in DOMAIN last' : \A s \in DOMAIN last'[k].reqs :
       s.kind = "P256" =>
         \E sig \in made :
           /\ sig.variant = "P256" /\ sig.pk = s.pk
           /\ sig.intent.contract = last'[k].contract
           /\ sig.intent.until >= seq
           /\ Fixed(last'[k].reqs[s]) /\ Fixed(sig.intent.conds) =>
                /\ TermsSigned(last'[k].reqs[s], sig.intent.conds)
                /\ TermsSigned(sig.intent.conds, last'[k].reqs[s])]_vars

(* A check that passes was signed, for these very contexts, by an account  *)
(* that is a provider now, whatever it was when it signed.                 *)
ProviderConsented ==
  [][Passed => \E p \in providers : ProviderSignature(p, last') \in made]_vars

(* "So it cannot archive while in use": the instance outlives the last     *)
(* check that passed by more than the threshold.                           *)
InUseStaysLive == inst > lastUse + InstThreshold
=============================================================================
