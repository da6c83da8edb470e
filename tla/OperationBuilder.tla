-------------------------- MODULE OperationBuilder --------------------------
(***************************************************************************)
(* UTXOOperationBuilder of modules/utxo-core/src/testutils: a client puts  *)
(* a bundle together, hands its hashes to the signers, collects their      *)
(* signatures and builds the authorization entry.  Items can be added at   *)
(* any time, after the first signatures too.                               *)
(*                                                                         *)
(* A call that panics changes nothing.  The signers answer with signatures *)
(* of what they were handed (`handed`), late if they like, and the client  *)
(* adds each under the key and for the ledger it was asked for; a hash is  *)
(* the message it is made from.  The nonce and the expiration of the entry *)
(* are fixed, the getters left out.                                        *)
(* A definition before the properties that no other definition uses is a   *)
(* slip the code could have made, in the place of the one that follows.    *)
(***************************************************************************)
EXTENDS AuthRequest, AuthCheck, FiniteSets

CONSTANTS Channel,      \* channel_contract
          Utxos,        \* UTXO keys
          CondLists,    \* the condition lists of spends
          Amount,       \* the amounts of creates
          Providers,    \* the providers, registered in the auth contract
          Ed25519Keys,  \* the other Ed25519 keys
          MaxLedger,    \* bound: the last ledger a signature is asked for
          MaxSpends,    \* bound: the spends
          MaxCreates,   \* bound: the creates
          MaxHanded     \* bound: the hashes handed out

VARIABLES spend, create,   \* the bundle
          sign_map,        \* the signature and the last ledger under each key
          handed           \* the hashes handed out to signers

vars == <<spend, create, sign_map, handed>>

Untils == 0 .. MaxLedger
Ed25519(k) == [kind |-> "Ed25519", pk |-> k]

(* generate.                                                               *)
Init ==
  /\ spend = <<>> /\ create = <<>>
  /\ sign_map = <<>>
  /\ handed = {}
-----------------------------------------------------------------------------
(* has_no_conflicting_conditions_in_sets.                                  *)
HasNoConflictInFirst(a, b) ==
  a # <<>> => \A d \in ToSet(b) : ~ ConflictsWith(d, a[1])

HasNoConflictingConditionsInSets(a, b) ==
  \A c \in ToSet(a), d \in ToSet(b) : ~ ConflictsWith(d, c)

AddSpend(u, conds) ==
  /\ Len(spend) < MaxSpends
  /\ \A x \in ToSet(spend) :
       x.utxo # u /\ HasNoConflictingConditionsInSets(conds, x.conds)
  /\ spend' = Append(spend, [utxo |-> u, conds |-> conds])
  /\ UNCHANGED <<create, sign_map, handed>>

(* A create is held against the spends added so far, and a spend against   *)
(* no create.                                                              *)
AddCreate(u, amount) ==
  /\ Len(create) < MaxCreates
  /\ \A x \in ToSet(create) : x.utxo # u
  /\ \A x \in ToSet(spend) :
       HasNoConflictingConditionsInSets(<<Create(u, amount)>>, x.conds)
  /\ create' = Append(create, [utxo |-> u, amount |-> amount])
  /\ UNCHANGED <<spend, sign_map, handed>>
-----------------------------------------------------------------------------
HandOut(h) ==
  /\ Cardinality(handed \cup {h}) <= MaxHanded
  /\ handed' = handed \cup {h}
  /\ UNCHANGED <<spend, create, sign_map>>

(* get_auth_hash_for_spend: the conditions are those of the UTXO's spend.  *)
GetAuthHashForSpend(u, until) ==
  \E x \in ToSet(spend) :
    /\ x.utxo = u
    /\ HandOut([variant |-> "P256", pk |-> u, until |-> until,
                msg |-> HashPayload(x.conds, until, Channel)])

(* get_auth_entry_payload_hash_for_bundle: the root invocation has the     *)
(* requirements of all the spends, and none of the creates.                *)
GetAuthEntryPayloadHashForBundle(p, until) ==
  HandOut([variant |-> "Ed25519", pk |-> p, until |-> until,
           msg |-> Contexts(Channel, spend)])

AddSignature(key, sig) ==
  /\ sign_map' = [k \in DOMAIN sign_map \cup {key} |->
                    IF k = key THEN [sig |-> sig, until |-> sig.until] ELSE sign_map[k]]
  /\ UNCHANGED <<spend, create, handed>>

HasSignatureForProvider == \E k \in DOMAIN sign_map : k.kind = "Provider"

AddSpendSignature(u, sig) ==
  /\ sig.variant = "P256" /\ sig.pk = u
  /\ P256(u) \notin DOMAIN sign_map
  /\ AddSignature(P256(u), sig)

AddEd25519Signature(k, sig) ==
  /\ sig.variant = "Ed25519"
  /\ Ed25519(k) \notin DOMAIN sign_map
  /\ AddSignature(Ed25519(k), sig)

AddProviderSignature(p, sig) ==
  /\ sig.variant = "Ed25519" /\ sig.pk = p
  /\ ~ HasSignatureForProvider
  /\ AddSignature(Provider(p), sig)
-----------------------------------------------------------------------------
Next ==
  \/ \E u \in Utxos :
       \/ \E conds \in CondLists : AddSpend(u, conds)
       \/ \E amount \in Amount : AddCreate(u, amount)
       \/ \E until \in Untils : GetAuthHashForSpend(u, until)
  \/ \E p \in Providers, until \in Untils : GetAuthEntryPayloadHashForBundle(p, until)
  \/ \E sig \in handed :
       \/ \E u \in Utxos : AddSpendSignature(u, sig)
       \/ \E k \in Ed25519Keys : AddEd25519Signature(k, sig)
       \/ \E p \in Providers : AddProviderSignature(p, sig)

Spec == Init /\ [][Next]_vars
-----------------------------------------------------------------------------
HasAnySpendSignature ==
  spend # <<>> => \E x \in ToSet(spend) : P256(x.utxo) \in DOMAIN sign_map

HasAllRequiredSpendSignatures ==
  \A x \in ToSet(spend) : P256(x.utxo) \in DOMAIN sign_map

(* build_signatures does not panic, and the entry of get_auth_entry is     *)
(* sign_map with the root invocation of the spends as they are now.        *)
CanBuild == HasAllRequiredSpendSignatures /\ HasSignatureForProvider

(* The builder and the auth contract encode the same things in the same    *)
(* way.  An entry that is built from the builder's own hashes passes       *)
(* __check_auth exactly as long as the provider's hash was handed out      *)
(* after the last spend, no signature the check looks at has expired, and  *)
(* no spend is without conditions.  What was signed for a spend never goes *)
(* stale, whatever is added to the bundle later.  The check does not look  *)
(* at the signatures under plain Ed25519 keys, expired ones included: see  *)
(* ExpiredSignaturesRefused.                                               *)
BuiltEntryPasses ==
  \A now \in Untils :
    LET contexts == Contexts(Channel, spend)
    IN  CanBuild =>
          (  RequireProvider(sign_map, contexts, Providers, now)
               /\ HandleUtxoAuth(sign_map, contexts, now)
           <=>
             /\ \A k \in DOMAIN sign_map : k.kind # "Ed25519" => sign_map[k].until >= now
             /\ \A k \in DOMAIN sign_map : k.kind = "Provider" => sign_map[k].sig.msg = contexts
             /\ \A x \in ToSet(spend) : x.conds # <<>>)

(* contracts/arch.md, CA-3: "__check_auth rejects any signature whose      *)
(* valid_until_ledger < current_ledger_sequence".  require_provider looks  *)
(* at the providers' signatures and handle_utxo_auth at those it is asked  *)
(* for, so that an entry passes with an expired one that neither looks at. *)
ExpiredSignaturesRefused ==
  \A now \in Untils :
    LET contexts == Contexts(Channel, spend)
    IN  /\ CanBuild
        /\ RequireProvider(sign_map, contexts, Providers, now)
        /\ HandleUtxoAuth(sign_map, contexts, now)
        => \A k \in DOMAIN sign_map : sign_map[k].until >= now

(* The conditions of different spends never contradict each other, in      *)
(* whatever order they were added, though each new spend asks the earlier  *)
(* ones, in one direction only.                                            *)
SpendsAgree ==
  \A x, y \in ToSet(spend) : x # y =>
    \A c \in ToSet(x.conds), d \in ToSet(y.conds) : ~ ConflictsWith(c, d)
=============================================================================
