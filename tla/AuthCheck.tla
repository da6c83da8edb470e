----------------------------- MODULE AuthCheck -----------------------------
(***************************************************************************)
(* modules/auth: whether the signatures of an authorization entry cover    *)
(* its contexts, given the providers that are registered and the ledger.   *)
(* A definition that no other definition uses is a slip the code could     *)
(* have made, in the place of the definition that follows.                 *)
(***************************************************************************)
EXTENDS Payload

(* verify_signature: the variants match and the signature is of msg.  A    *)
(* P256 key signs a hash_payload, a provider the host's payload.           *)
VerifySignature(signer, sig, msg) ==
  /\ signer.kind = "P256" <=> sig.variant = "P256"
  /\ signer.pk = sig.pk
  /\ IF sig.variant = "P256" THEN SameBytes(sig.msg, msg) ELSE sig.msg = msg

(* sigs, the Signatures of the entry, maps some signer keys to a signature *)
(* and a valid_until_ledger.                                               *)
RequireProviderAny(sigs, payload, providers, seq) ==
  \E s \in DOMAIN sigs :
    s.kind = "Provider" /\ sigs[s].until >= seq /\ VerifySignature(s, sigs[s].sig, payload)

RequireProvider(sigs, payload, providers, seq) ==
  LET signers == {s \in DOMAIN sigs : s.kind = "Provider"}
  IN  /\ \A s \in signers :
           /\ s.pk \in providers
           /\ sigs[s].until >= seq
           /\ VerifySignature(s, sigs[s].sig, payload)
      /\ signers # {}

(* One signer of one context.                                              *)
RequirementMet(sigs, contract, signer, conds, seq) ==
  /\ conds # <<>>
  /\ signer.kind = "P256" =>
       /\ signer \in DOMAIN sigs
       /\ sigs[signer].until >= seq
       /\ VerifySignature(signer, sigs[signer].sig,
                          HashPayload(conds, sigs[signer].until, contract))

ContextMet(sigs, c, seq) ==
  /\ c.kind = "contract"
  /\ \/ c.arg = "none"
     \/ /\ c.arg = "reqs"
        /\ \A s \in DOMAIN c.reqs : RequirementMet(sigs, c.contract, s, c.reqs[s], seq)

HandleUtxoAuthReturns(sigs, contexts, seq) ==
  \A k \in DOMAIN contexts :
    \/ \E j \in 1 .. (k - 1) : contexts[j].kind = "contract" /\ contexts[j].arg = "none"
    \/ ContextMet(sigs, contexts[k], seq)

(* A context without an argument skips that context and no other.          *)
HandleUtxoAuth(sigs, contexts, seq) ==
  \A k \in DOMAIN contexts : ContextMet(sigs, contexts[k], seq)
=============================================================================
