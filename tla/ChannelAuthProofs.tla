------------------------- MODULE ChannelAuthProofs -------------------------
(* Theorems about ChannelAuth, for every value of its constants.           *)
EXTENDS ChannelAuth, OperatorTheorems

(* The signatures that exist are what the keys of the model can make.      *)
MadeBySigners ==
  \A sig \in made :
    \/ \E u \in Utxos, w \in Intent : sig = OwnerSignature(u, w)
    \/ \E p \in Providers, contexts \in Checks : sig = ProviderSignature(p, contexts)

AuthInv == TypeOK /\ InUseStaysLive /\ MadeBySigners

(* The TTL that extend_ttl leaves: no smaller than before, and beyond the  *)
(* threshold.                                                              *)
LEMMA ExtendTtlReaches ==
  ASSUME NEW until \in Int, NEW now \in Int, NEW t \in Nat, NEW b \in Nat, t < b
  PROVE  /\ ExtendTtl(until, now, t, b) \in Int
         /\ ExtendTtl(until, now, t, b) >= until
         /\ ExtendTtl(until, now, t, b) > now + t
  BY DEF ExtendTtl

LEMMA AuthInit == Init => AuthInv
<1> SUFFICES ASSUME Init PROVE AuthInv
  OBVIOUS
<1> USE AuthTtlAssumption, FirstAdminAssumption
<1>1. FreshTtl(0, MinTtl) \in Int /\ FreshTtl(0, MinTtl) >= 0
  BY DEF FreshTtl
<1>2. inst \in Int /\ inst > 0 + InstThreshold
  <2> DEFINE f == FreshTtl(0, MinTtl)
  <2>1. inst = ExtendTtl(f, 0, InstThreshold, InstBump)  BY DEF Init
  <2>2. f \in Int /\ 0 \in Int  BY <1>1
  <2>3. InstThreshold \in Nat /\ InstBump \in Nat /\ InstThreshold < InstBump  OBVIOUS
  <2> HIDE AuthTtlAssumption, FirstAdminAssumption DEF f
  <2>4. /\ ExtendTtl(f, 0, InstThreshold, InstBump) \in Int
        /\ ExtendTtl(f, 0, InstThreshold, InstBump) > 0 + InstThreshold
    BY <2>2, <2>3, ExtendTtlReaches, Zenon
  <2> QED  BY <2>1, <2>4, Zenon
<1>3. TypeOK
  BY <1>2 DEF Init, TypeOK, NoPending, Untils
<1> QED
  BY <1>2, <1>3 DEF Init, AuthInv, InUseStaysLive, MadeBySigners

LEMMA AuthStep == AuthInv /\ [Next]_vars => AuthInv'
<1> SUFFICES ASSUME AuthInv, [Next]_vars PROVE AuthInv'
  OBVIOUS
<1> USE AuthTtlAssumption, FirstAdminAssumption
<1>t. TypeOK /\ InUseStaysLive /\ MadeBySigners
  BY DEF AuthInv
<1>1. ASSUME NEW contexts \in Checks, NEW sigs \in Submissions, CheckAuth(sigs, contexts)
      PROVE  AuthInv'
  <2>1. inst' = ExtendTtl(inst, seq, InstThreshold, InstBump)
    BY <1>1 DEF CheckAuth, BumpInstanceTtl
  <2>2. inst' \in Int /\ inst' >= inst /\ inst' > seq + InstThreshold
    BY <1>t, <2>1, ExtendTtlReaches DEF TypeOK, Untils
  <2>3. TypeOK'
    BY <1>t, <1>1, <2>2 DEF CheckAuth, TypeOK, Untils
  <2>4. InUseStaysLive'
    BY <1>1, <2>2 DEF CheckAuth, InUseStaysLive
  <2>5. MadeBySigners'
    BY <1>t, <1>1 DEF CheckAuth, MadeBySigners
  <2> QED
    BY <2>3, <2>4, <2>5 DEF AuthInv
<1>2. ASSUME NEW by \in Admins, NEW p \in Providers, AddProvider(by, p)
      PROVE  AuthInv'
  BY <1>t, <1>2 DEF AddProvider, RegisterProvider, AuthInv, TypeOK, InUseStaysLive, MadeBySigners
<1>3. ASSUME NEW by \in Admins, NEW p \in Providers, RemoveProvider(by, p)
      PROVE  AuthInv'
  BY <1>t, <1>3 DEF RemoveProvider, DeregisterProvider, AuthInv, TypeOK, InUseStaysLive, MadeBySigners
<1>4. ASSUME NEW by \in Admins, NEW to \in Admins, SetAdmin(by, to)
      PROVE  AuthInv'
  <2>1. seq + MaxTtl - 1 \in -1 .. (MaxLedger + MaxTtl - 1)
    BY <1>t DEF TypeOK, Untils
  <2>2. TypeOK'
    BY <1>t, <1>4, <2>1 DEF SetAdmin, TypeOK
  <2> QED
    BY <1>t, <1>4, <2>2 DEF SetAdmin, AuthInv, InUseStaysLive, MadeBySigners
<1>5. ASSUME NEW by \in Admins, AcceptAdmin(by)
      PROVE  AuthInv'
  <2>1. TypeOK'
    BY <1>t, <1>5 DEF AcceptAdmin, TypeOK, NoPending
  <2> QED
    BY <1>t, <1>5, <2>1 DEF AcceptAdmin, AuthInv, InUseStaysLive, MadeBySigners
<1>6. ASSUME NEW u \in Utxos, NEW w \in Intent, Sign(OwnerSignature(u, w))
      PROVE  AuthInv'
  BY <1>t, <1>6 DEF Sign, AuthInv, TypeOK, InUseStaysLive, MadeBySigners
<1>7. ASSUME NEW p \in Providers, NEW contexts \in Checks, Sign(ProviderSignature(p, contexts))
      PROVE  AuthInv'
  BY <1>t, <1>7 DEF Sign, AuthInv, TypeOK, InUseStaysLive, MadeBySigners
<1>8. CASE CloseLedger
  BY <1>t, <1>8
     DEF CloseLedger, AuthInv, TypeOK, Untils, InUseStaysLive, MadeBySigners
<1>9. CASE RestoreInstance
  <2>1. inst' = seq + MinTtl - 1 /\ inst < seq
    BY <1>t, <1>9 DEF RestoreInstance, Live, FreshTtl, TypeOK, Untils
  <2>2. inst' \in Nat /\ inst' > inst
    BY <1>t, <2>1 DEF TypeOK, Untils
  <2>3. TypeOK' /\ InUseStaysLive'
    BY <1>t, <1>9, <2>2 DEF RestoreInstance, TypeOK, Untils, InUseStaysLive
  <2> QED
    BY <1>t, <1>9, <2>3 DEF RestoreInstance, AuthInv, MadeBySigners
<1>10. CASE UNCHANGED vars
  BY <1>t, <1>10
     DEF vars, AuthInv, TypeOK, InUseStaysLive, MadeBySigners
<1> QED
  BY <1>1, <1>2, <1>3, <1>4, <1>5, <1>6, <1>7, <1>8, <1>9, <1>10 DEF Next

THEOREM AuthInvariant == Spec => []AuthInv
  BY AuthInit, AuthStep, PTL DEF Spec

(* The types of the account contract's state, in every reachable state.    *)
THEOREM AuthTypeCorrect == Spec => []TypeOK
<1>1. AuthInv => TypeOK
  BY DEF AuthInv
<1> QED
  BY <1>1, AuthInvariant, PTL

(* bump_instance_ttl keeps the instance live beyond the threshold after    *)
(* the last check that passed.                                             *)
THEOREM AuthInUseStaysLive == Spec => []InUseStaysLive
<1>1. AuthInv => InUseStaysLive
  BY DEF AuthInv
<1> QED
  BY <1>1, AuthInvariant, PTL

(* What require_provider leaves known of the signatures that passed it.    *)
LEMMA RequireProviderFindsOne ==
  ASSUME AuthInv, NEW contexts \in Checks, NEW sigs \in Submissions,
         RequireProvider(sigs, contexts, providers, seq)
  PROVE  \E p \in providers : ProviderSignature(p, contexts) \in made
<1>1. PICK s \in DOMAIN sigs : s.kind = "Provider"
  BY DEF RequireProvider
<1>2. s.pk \in providers /\ VerifySignature(s, sigs[s].sig, contexts)
  BY <1>1 DEF RequireProvider
<1>3. sigs[s].sig \in made
  BY DEF Submissions
<1>4. /\ sigs[s].sig.variant # "P256"
      /\ sigs[s].sig.pk = s.pk /\ sigs[s].sig.msg = contexts
  BY <1>1, <1>2 DEF VerifySignature
<1>5. ASSUME NEW u \in Utxos, NEW w \in Intent, sigs[s].sig = OwnerSignature(u, w)
      PROVE  FALSE
  BY <1>4, <1>5 DEF OwnerSignature
<1>6. PICK p \in Providers, cs \in Checks : sigs[s].sig = ProviderSignature(p, cs)
  BY <1>3, <1>5 DEF AuthInv, MadeBySigners
<1>7. p = s.pk /\ cs = contexts
  BY <1>4, <1>6 DEF ProviderSignature
<1> QED
  BY <1>2, <1>3, <1>6, <1>7

(* A check that passes was signed, for its contexts, by an account that is *)
(* a provider in that very state: a provider that was removed, or whose    *)
(* signature is of other contexts, never lets one pass.                    *)
THEOREM AuthProviderConsented == Spec => ProviderConsented
<1> DEFINE Goal == Passed => \E p \in providers : ProviderSignature(p, last') \in made
<1>1. AuthInv /\ [Next]_vars => [Goal]_vars
  <2> SUFFICES ASSUME AuthInv, Next, Passed
               PROVE  \E p \in providers : ProviderSignature(p, last') \in made
    OBVIOUS
  <2>1. PICK contexts \in Checks, sigs \in Submissions : CheckAuth(sigs, contexts)
    BY DEF Next, Passed, AddProvider, RemoveProvider, SetAdmin, AcceptAdmin, Sign,
           CloseLedger, RestoreInstance
  <2>2. RequireProvider(sigs, contexts, providers, seq) /\ last' = contexts
    BY <2>1 DEF CheckAuth
  <2> QED
    BY <2>2, RequireProviderFindsOne
<1> QED
  BY <1>1, AuthInvariant, PTL DEF Spec, ProviderConsented
-----------------------------------------------------------------------------
(* What a signature that verifies as a spender's binds its maker to.       *)
Consent(sig, u, contract, conds) ==
  /\ sig.variant = "P256" /\ sig.pk = u
  /\ sig.intent.contract = contract
  /\ sig.intent.until >= seq
  /\ Fixed(conds) /\ Fixed(sig.intent.conds) =>
       TermsSigned(conds, sig.intent.conds) /\ TermsSigned(sig.intent.conds, conds)

(* Targets and amounts that are the same make creates the same.            *)
LEMMA TermsAreSigned ==
  ASSUME NEW conds \in CondLists, NEW signed \in CondLists,
         \A c \in ToSet(conds) : \E d \in ToSet(signed) :
           d.target = c.target /\ d.amount = c.amount
  PROVE  TermsSigned(conds, signed)
<1> DEFINE C == Condition(Outputs, Addresses, Int)
<1>1. conds \in Seq(C) /\ signed \in Seq(C) /\ Outputs \cap Addresses = {}
  BY CondListsAssumption
<1> HIDE DEF C
<1>2. ASSUME NEW c \in ToSet(conds)
      PROVE  \E d \in ToSet(signed) :
               d.target = c.target /\ d.amount = c.amount /\ (c.kind = "Create" => d = c)
  <2>1. PICK d \in ToSet(signed) : d.target = c.target /\ d.amount = c.amount  OBVIOUS
  <2>2. c \in C /\ d \in C  BY <1>1 DEF ToSet
  <2>3. c.kind = "Create" => d = c  BY <1>1, <2>1, <2>2, CreateDetermined DEF C
  <2> QED  BY <2>1, <2>3
<1> QED  BY <1>2 DEF TermsSigned

LEMMA SpenderConsents ==
  ASSUME AuthInv, NEW sig \in made, NEW s, s.kind = "P256", NEW conds \in CondLists,
         NEW until, until >= seq, NEW contract,
         VerifySignature(s, sig, HashPayload(conds, until, contract))
  PROVE  Consent(sig, s.pk, contract, conds)
<1> DEFINE C == Condition(Outputs, Addresses, Int)
<1>1. /\ sig.variant = "P256" /\ sig.pk = s.pk
      /\ SameBytes(sig.msg, HashPayload(conds, until, contract))
  BY DEF VerifySignature
<1>2. ASSUME NEW p \in Providers, NEW contexts \in Checks, sig = ProviderSignature(p, contexts)
      PROVE  FALSE
  BY <1>1, <1>2 DEF ProviderSignature
<1>3. PICK u \in Utxos, w \in Intent : sig = OwnerSignature(u, w)
  BY <1>2 DEF AuthInv, MadeBySigners
<1>4. sig.intent = w /\ sig.msg = HashPayload(w.conds, w.until, w.contract)
  BY <1>3 DEF OwnerSignature
<1> DEFINE signed == w.conds
           expiry == w.until
           signedFor == w.contract
<1>5. signed \in CondLists  BY DEF Intent
<1>6. sig.intent.conds = signed /\ sig.intent.until = expiry /\ sig.intent.contract = signedFor
  BY <1>4
<1>7. SameBytes(HashPayload(signed, expiry, signedFor), HashPayload(conds, until, contract))
  BY <1>1, <1>4, Zenon
<1> HIDE DEF C, signed, expiry, signedFor
<1>8. signedFor = contract /\ expiry = until  BY <1>7 DEF SameBytes, HashPayload
<1>9. ASSUME Fixed(conds), Fixed(signed)
      PROVE  TermsSigned(conds, signed) /\ TermsSigned(signed, conds)
  <2>1. /\ signed \in Seq(C) /\ conds \in Seq(C)
        /\ (Outputs \cup Addresses) \cap Int = {}
    BY <1>5, CondListsAssumption DEF C
  <2>2. SameTerms(conds, until, contract, signed, expiry, signedFor)
    BY <1>7, <1>9, <2>1, PayloadBinds, Zenon DEF C
  <2>3. /\ \A c \in ToSet(conds) : \E d \in ToSet(signed) :
             d.target = c.target /\ d.amount = c.amount
        /\ \A d \in ToSet(signed) : \E c \in ToSet(conds) :
             c.target = d.target /\ c.amount = d.amount
    BY <2>2 DEF SameTerms
  <2> QED  BY <1>5, <2>3, TermsAreSigned
<1> QED  BY <1>1, <1>6, <1>8, <1>9 DEF Consent

(* A check that passes has, for every UTXO of every context, a signature   *)
(* its owner made for that channel, in time, and, where size fixes shape,  *)
(* over conditions that name the same targets with the same amounts and    *)
(* create the same UTXOs, in whichever other kinds.                        *)
THEOREM AuthSpendersConsented == Spec => SpendersConsented
<1> DEFINE Goal == Passed => \A k \in DOMAIN last' : \A s \in DOMAIN last'[k].reqs :
             s.kind = "P256" => \E sig \in made : Consent(sig, s.pk, last'[k].contract, last'[k].reqs[s])
<1>1. ASSUME AuthInv, Next  PROVE Goal
  <2> SUFFICES ASSUME Passed, NEW k \in DOMAIN last', NEW s \in DOMAIN last'[k].reqs, s.kind = "P256"
               PROVE  \E sig \in made : Consent(sig, s.pk, last'[k].contract, last'[k].reqs[s])
    OBVIOUS
  <2>1. PICK contexts \in Checks, sigs \in Submissions : CheckAuth(sigs, contexts)
    BY <1>1 DEF Next, Passed, AddProvider, RemoveProvider, SetAdmin, AcceptAdmin, Sign,
                CloseLedger, RestoreInstance
  <2>2. HandleUtxoAuth(sigs, contexts, seq) /\ last' = contexts  BY <2>1 DEF CheckAuth
  <2> DEFINE x == contexts[k]
             conds == x.reqs[s]
  <2>3. k \in DOMAIN contexts /\ s \in DOMAIN x.reqs  BY <2>2
  <2>4. x \in Context /\ (x.arg # "reqs" => DOMAIN x.reqs = {})
    <3>1. contexts \in Seq(Context)  BY ChecksAssumption
    <3> QED  BY <2>3, <3>1, ChecksAssumption
  <2>5. conds \in CondLists
    <3>1. x.reqs \in AuthRequirements  BY <2>4 DEF Context
    <3>2. PICK K \in SUBSET SignerKey : x.reqs \in [K -> CondLists]  BY <3>1 DEF AuthRequirements
    <3> QED  BY <2>3, <3>2
  <2>6. x.arg = "reqs" /\ ContextMet(sigs, x, seq)  BY <2>2, <2>3, <2>4 DEF HandleUtxoAuth
  <2> HIDE DEF x, conds
  <2>7. RequirementMet(sigs, x.contract, s, conds, seq)  BY <2>3, <2>6 DEF ContextMet, conds
  <2>8. /\ s \in DOMAIN sigs /\ sigs[s].until >= seq
        /\ VerifySignature(s, sigs[s].sig, HashPayload(conds, sigs[s].until, x.contract))
    BY <2>7 DEF RequirementMet
  <2>9. sigs[s].sig \in made  BY <2>8 DEF Submissions
  <2>10. Consent(sigs[s].sig, s.pk, x.contract, conds)
    BY <1>1, <2>5, <2>8, <2>9, SpenderConsents
  <2> QED  BY <2>2, <2>9, <2>10 DEF x, conds
<1>2. AuthInv /\ [Next]_vars => [Goal]_vars  BY <1>1
<1>3. [Goal]_vars <=>
        [Passed => \A k \in DOMAIN last' : \A s \in DOMAIN last'[k].reqs :
           s.kind = "P256" =>
             \E sig \in made :
               /\ sig.variant = "P256" /\ sig.pk = s.pk
               /\ sig.intent.contract = last'[k].contract
               /\ sig.intent.until >= seq
               /\ Fixed(last'[k].reqs[s]) /\ Fixed(sig.intent.conds) =>
                    /\ TermsSigned(last'[k].reqs[s], sig.intent.conds)
                    /\ TermsSigned(sig.intent.conds, last'[k].reqs[s])]_vars
  BY DEF Consent
<1> QED  BY <1>2, <1>3, AuthInvariant, PTL DEF Spec, SpendersConsented
=============================================================================
