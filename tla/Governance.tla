----------------------------- MODULE Governance -----------------------------
(***************************************************************************)
(* The administration of a deployment: the channel contracts and the auth  *)
(* contract they share.  Both kinds of contract have the same owner, the   *)
(* same two-step change of owner and the same upgrade, and keep all of it  *)
(* in an instance whose TTL only use extends: transact of a channel and,   *)
(* through the channel's require_auth, __check_auth of the auth contract.  *)
(*                                                                         *)
(* stellar_access::ownable and stellar_contract_utils are external and     *)
(* modelled from how they are called.  `by` is who authorizes a call.  Of  *)
(* a bundle only the TTLs are kept (a bundle that panics changes nothing); *)
(* enable_channel and disable_channel keep no state.  A definition before  *)
(* the properties that no other definition uses is a slip the code could   *)
(* have made, in the place of the one that follows.                        *)
(***************************************************************************)
EXTENDS Ttl

CONSTANTS Channels,       \* the privacy channels
          AuthContract,   \* the auth contract of all of them
          Admins,         \* the addresses that may become owner
          FirstAdmin,     \* the owner everything is deployed with
          Wasms,          \* the builds that may be installed
          FirstWasm,      \* the one that is deployed
          InstThreshold,  \* INSTANCE_LIFETIME_THRESHOLD
          InstBump,       \* INSTANCE_BUMP_AMOUNT
          MinTtl,         \* the host's least TTL of a new entry
          MaxTtl,         \* the host's greatest
          MaxLedger       \* bound: the last ledger of the model

Contracts == Channels \cup {AuthContract}

ASSUME GovernanceAssumption ==
  /\ AuthContract \notin Channels
  /\ FirstAdmin \in Admins /\ FirstWasm \in Wasms
  /\ InstThreshold \in Nat /\ InstBump \in Nat /\ InstThreshold < InstBump
  /\ MinTtl \in Nat \ {0} /\ MaxTtl \in Nat \ {0} /\ MaxLedger \in Nat

VARIABLES
  owner, pending,   \* of each contract: the owner, and who may accept until when
  code,             \* of each contract: the build that runs
  inst, seq,        \* the last ledger each instance is live in; the ledger
  named,            \* history: who was named last, by whom and when
  used              \* history: the ledger of the last bundle through each contract

vars == <<owner, pending, code, inst, seq, named, used>>

Ledgers == 0 .. MaxLedger
NoPending == [to |-> FirstAdmin, until |-> -1]

(* The constructors: the owner, and the first extension of the instance.   *)
Init ==
  /\ owner = [c \in Contracts |-> FirstAdmin]
  /\ pending = [c \in Contracts |-> NoPending]
  /\ code = [c \in Contracts |-> FirstWasm]
  /\ seq = 0
  /\ inst = [c \in Contracts |->
               ExtendTtl(FreshTtl(0, MinTtl), 0, InstThreshold, InstBump)]
  /\ named = [c \in Contracts |-> [by |-> FirstAdmin, to |-> FirstAdmin, at |-> 0]]
  /\ used = [c \in Contracts |-> 0]

TypeOK ==
  /\ owner \in [Contracts -> Admins]
  /\ pending \in [Contracts -> [to : Admins, until : -1 .. (seq + MaxTtl - 1)]]
  /\ code \in [Contracts -> Wasms]
  /\ inst \in [Contracts -> Nat] /\ seq \in Ledgers
  /\ named \in [Contracts -> [by : Admins, to : Admins, at : Ledgers]]
  /\ used \in [Contracts -> Ledgers]
-----------------------------------------------------------------------------
EnforceOwnerAuth(c, by) == Live(inst[c], seq) /\ by = owner[c]

(* A nomination that an earlier one, still open, would keep out.           *)
NominatedOnce(c, nominee) ==
  IF Live(pending[c].until, seq) THEN pending[c] ELSE [to |-> nominee, until |-> seq + MaxTtl - 1]

(* A nomination for one ledger more than the host allows.                  *)
NominatedTooLate(c, nominee) == [to |-> nominee, until |-> seq + MaxTtl]

(* ownable::transfer_ownership up to max_live_until_ledger: a temporary    *)
(* entry, which replaces the one before.                                   *)
Nomination(c, nominee) == [to |-> nominee, until |-> seq + MaxTtl - 1]

SetAdmin(c, by, to) ==
  /\ EnforceOwnerAuth(c, by)
  /\ pending' = [pending EXCEPT ![c] = Nomination(c, to)]
  /\ named' = [named EXCEPT ![c] = [by |-> by, to |-> to, at |-> seq]]
  /\ UNCHANGED <<owner, code, inst, seq, used>>

(* ownable::accept_ownership.                                              *)
AcceptAdmin(c, by) ==
  /\ Live(inst[c], seq)
  /\ Live(pending[c].until, seq)
  /\ by = pending[c].to
  /\ owner' = [owner EXCEPT ![c] = by]
  /\ pending' = [pending EXCEPT ![c] = NoPending]
  /\ UNCHANGED <<code, inst, seq, named, used>>

Upgrade(c, by, wasm) ==
  /\ EnforceOwnerAuth(c, by)
  /\ code' = [code EXCEPT ![c] = wasm]
  /\ UNCHANGED <<owner, pending, inst, seq, named, used>>
-----------------------------------------------------------------------------
BumpedChannels(S) ==
  [c \in Contracts |->
     IF c \in S \cap Channels THEN ExtendTtl(inst[c], seq, InstThreshold, InstBump) ELSE inst[c]]

(* bump_instance_ttl of each contract a bundle runs through.               *)
Bumped(S) ==
  [c \in Contracts |->
     IF c \in S THEN ExtendTtl(inst[c], seq, InstThreshold, InstBump) ELSE inst[c]]

(* A bundle of channel ch that goes through.                               *)
Transact(ch) ==
  /\ \A c \in {ch, AuthContract} : Live(inst[c], seq)
  /\ inst' = Bumped({ch, AuthContract})
  /\ used' = [c \in Contracts |-> IF c \in {ch, AuthContract} THEN seq ELSE used[c]]
  /\ UNCHANGED <<owner, pending, code, seq, named>>
-----------------------------------------------------------------------------
(* The host (external).                                                    *)
CloseLedger ==
  /\ seq < MaxLedger
  /\ seq' = seq + 1
  /\ UNCHANGED <<owner, pending, code, inst, named, used>>

RestoreInstance(c) ==
  /\ ~ Live(inst[c], seq)
  /\ inst' = [inst EXCEPT ![c] = FreshTtl(seq, MinTtl)]
  /\ UNCHANGED <<owner, pending, code, seq, named, used>>

Next ==
  \/ \E c \in Contracts, by \in Admins :
       \/ \E to \in Admins : SetAdmin(c, by, to)
       \/ AcceptAdmin(c, by)
       \/ \E wasm \in Wasms : Upgrade(c, by, wasm)
  \/ \E ch \in Channels : Transact(ch)
  \/ \E c \in Contracts : RestoreInstance(c)
  \/ CloseLedger

Spec == Init /\ [][Next]_vars
-----------------------------------------------------------------------------
(* A contract passes only to the one its owner of this moment named last,  *)
(* in time: a nomination that was replaced, has run out, or was made by an *)
(* owner since replaced, is good for nothing.                              *)
HandoverByConsent ==
  [][\A c \in Contracts : owner'[c] # owner[c] =>
       /\ named[c].by = owner[c]
       /\ named[c].to = owner'[c]
       /\ seq - named[c].at < MaxTtl]_vars

(* Every contract a bundle ran through, the auth contract that several     *)
(* channels share too, outlives that bundle by more than the threshold:    *)
(* none archives "out from under live channels".                           *)
UsedStaysLive == \A c \in Contracts : inst[c] > used[c] + InstThreshold
=============================================================================
