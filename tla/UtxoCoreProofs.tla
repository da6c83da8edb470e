--------------------------- MODULE UtxoCoreProofs ---------------------------
(***************************************************************************)
(* Theorems about modules/utxo-core: the builder a client uses             *)
(* (OperationBuilder), for any keys, conditions and providers, any number  *)
(* of spends and any order of hashes and signatures; and the trait on its  *)
(* own (UtxoModule), for vectors of any length.                            *)
(***************************************************************************)
EXTENDS OperationBuilder, UtxoModule, OperatorTheorems
-----------------------------------------------------------------------------
(* The spends: no key twice, and no contradiction between two of them.     *)
SpendOk ==
  /\ spend \in Seq([utxo : Utxos, conds : CondLists])
  /\ \A x, y \in ToSet(spend) : x.utxo = y.utxo => x = y

(* What a signer is handed for a UTXO is the payload of its one spend, so  *)
(* it never goes stale; what a provider is handed may.                     *)
OfSpend(h) ==
  h.variant = "P256" =>
    \E x \in ToSet(spend) : x.utxo = h.pk /\ h.msg = HashPayload(x.conds, h.until, Channel)

HandedOk == \A h \in handed : h.until \in Untils /\ OfSpend(h)

(* Every signature lies under the key of its maker.                        *)
UnderItsKey(k, e) ==
  /\ e.until = e.sig.until /\ e.until \in Untils
  /\ k.kind = "P256" => e.sig.variant = "P256" /\ e.sig.pk = k.pk /\ OfSpend(e.sig)
  /\ k.kind = "Provider" =>
       e.sig.variant = "Ed25519" /\ e.sig.pk = k.pk /\ k.pk \in Providers

SignerKeys ==
  {P256(u) : u \in Utxos} \cup {Provider(p) : p \in Providers} \cup {Ed25519(k) : k \in Ed25519Keys}

SignedOk == \A k \in DOMAIN sign_map : k \in SignerKeys /\ UnderItsKey(k, sign_map[k])

BuilderInv == SpendOk /\ SpendsAgree /\ HandedOk /\ SignedOk

(* What holds of the spends goes on to hold of them and one more.          *)
LEMMA AppendElements ==
  ASSUME NEW S, NEW s \in Seq(S), NEW x \in S
  PROVE  Append(s, x) \in Seq(S) /\ ToSet(Append(s, x)) = ToSet(s) \cup {x}
<1>1. /\ Append(s, x) \in Seq(S) /\ Len(Append(s, x)) = Len(s) + 1 /\ Len(s) \in Nat
      /\ \A k \in 1 .. Len(s) : Append(s, x)[k] = s[k]
      /\ Append(s, x)[Len(s) + 1] = x
  OBVIOUS
<1>2. /\ DOMAIN Append(s, x) = 1 .. (Len(s) + 1) /\ DOMAIN s = 1 .. Len(s)
      /\ 1 .. (Len(s) + 1) = (1 .. Len(s)) \cup {Len(s) + 1}
  BY <1>1
<1> QED  BY <1>1, <1>2 DEF ToSet

LEMMA AddSpendKeeps ==
  ASSUME BuilderInv, NEW u \in Utxos, NEW conds \in CondLists, AddSpend(u, conds)
  PROVE  BuilderInv'
<1> DEFINE new == [utxo |-> u, conds |-> conds]
<1>1. /\ spend' \in Seq([utxo : Utxos, conds : CondLists])
      /\ ToSet(spend') = ToSet(spend) \cup {new}
  <2> DEFINE S == [utxo : Utxos, conds : CondLists]
  <2>1. new \in S /\ spend \in Seq(S)  BY DEF BuilderInv, SpendOk
  <2>2. spend' = Append(spend, new)  BY DEF AddSpend
  <2> HIDE DEF new, S
  <2>3. Append(spend, new) \in Seq(S) /\ ToSet(Append(spend, new)) = ToSet(spend) \cup {new}
    BY <2>1, AppendElements
  <2>4. spend' \in Seq(S) /\ ToSet(spend') = ToSet(spend) \cup {new}  BY <2>2, <2>3, Zenon
  <2> QED  BY <2>4 DEF S
<1>2. /\ \A x \in ToSet(spend) : x.utxo # u
      /\ \A x \in ToSet(spend) : \A c \in ToSet(conds), d \in ToSet(x.conds) : ~ ConflictsWith(d, c)
  BY DEF AddSpend, HasNoConflictingConditionsInSets
<1>3. SpendOk'  BY <1>1, <1>2 DEF BuilderInv, SpendOk
<1>4. SpendsAgree'
  <2> SUFFICES ASSUME NEW x \in ToSet(spend'), NEW y \in ToSet(spend'), x # y,
                      NEW c \in ToSet(x.conds), NEW d \in ToSet(y.conds)
               PROVE  ~ ConflictsWith(c, d)
    BY DEF SpendsAgree
  <2>1. CASE x \in ToSet(spend) /\ y \in ToSet(spend)  BY <2>1 DEF BuilderInv, SpendsAgree
  <2>2. CASE x \in ToSet(spend) /\ y = new  BY <1>2, <2>2
  <2>3. CASE x = new /\ y \in ToSet(spend)
    <3>1. ~ ConflictsWith(d, c)  BY <1>2, <2>3
    <3> QED  BY <3>1, ConflictsSymmetric
  <2> QED  BY <1>1, <2>1, <2>2, <2>3
<1>5. ASSUME NEW h, OfSpend(h)  PROVE OfSpend(h)'  BY <1>1, <1>5 DEF OfSpend
<1>6. handed' = handed /\ sign_map' = sign_map  BY DEF AddSpend
<1>7. HandedOk'  BY <1>5, <1>6 DEF BuilderInv, HandedOk
<1>8. SignedOk'  BY <1>5, <1>6 DEF BuilderInv, SignedOk, UnderItsKey
<1> QED  BY <1>3, <1>4, <1>7, <1>8 DEF BuilderInv

LEMMA HandOutKeeps ==
  ASSUME BuilderInv, NEW h, HandOut(h), h.until \in Untils, OfSpend(h)
  PROVE  BuilderInv'
<1>1. handed' = handed \cup {h} /\ UNCHANGED <<spend, create, sign_map>>  BY DEF HandOut
<1>2. SpendOk' /\ SpendsAgree' /\ SignedOk'
  BY <1>1 DEF BuilderInv, SpendOk, SpendsAgree, SignedOk, UnderItsKey, OfSpend
<1>3. HandedOk'  BY <1>1 DEF BuilderInv, HandedOk, OfSpend
<1> QED  BY <1>2, <1>3 DEF BuilderInv

LEMMA AddSignatureKeeps ==
  ASSUME BuilderInv, NEW k \in SignerKeys, NEW sig, AddSignature(k, sig),
         UnderItsKey(k, [sig |-> sig, until |-> sig.until])
  PROVE  BuilderInv'
<1>1. /\ DOMAIN sign_map' = DOMAIN sign_map \cup {k}
      /\ \A j \in DOMAIN sign_map' :
           sign_map'[j] = IF j = k THEN [sig |-> sig, until |-> sig.until] ELSE sign_map[j]
      /\ UNCHANGED <<spend, create, handed>>
  BY DEF AddSignature
<1>2. SpendOk' /\ SpendsAgree' /\ HandedOk'
  BY <1>1 DEF BuilderInv, SpendOk, SpendsAgree, HandedOk, OfSpend
<1>3. ASSUME NEW j, NEW e, UnderItsKey(j, e)  PROVE UnderItsKey(j, e)'
  BY <1>1, <1>3 DEF UnderItsKey, OfSpend
<1>4. SignedOk'
  <2> SUFFICES ASSUME NEW j \in DOMAIN sign_map'
               PROVE  j \in SignerKeys /\ UnderItsKey(j, sign_map[j])'
    BY DEF SignedOk
  <2>1. CASE j = k  BY <1>1, <1>3, <2>1
  <2>2. CASE j # k
    <3>1. j \in DOMAIN sign_map /\ sign_map'[j] = sign_map[j]  BY <1>1, <2>2
    <3> QED  BY <1>3, <3>1 DEF BuilderInv, SignedOk
  <2> QED  BY <2>1, <2>2
<1> QED  BY <1>2, <1>4 DEF BuilderInv

LEMMA BuilderStep == BuilderInv /\ [Next]_vars => BuilderInv'
<1> SUFFICES ASSUME BuilderInv, [Next]_vars  PROVE BuilderInv'
  OBVIOUS
<1>1. ASSUME NEW u \in Utxos, NEW conds \in CondLists, AddSpend(u, conds)  PROVE BuilderInv'
  BY <1>1, AddSpendKeeps
<1>2. ASSUME UNCHANGED <<spend, sign_map, handed>>  PROVE BuilderInv'
  BY <1>2 DEF BuilderInv, SpendOk, SpendsAgree, HandedOk, SignedOk, UnderItsKey, OfSpend
<1>3. ASSUME NEW u \in Utxos, NEW until \in Untils, GetAuthHashForSpend(u, until)  PROVE BuilderInv'
  <2>1. PICK x \in ToSet(spend) :
          /\ x.utxo = u
          /\ HandOut([variant |-> "P256", pk |-> u, until |-> until,
                      msg |-> HashPayload(x.conds, until, Channel)])
    BY <1>3 DEF GetAuthHashForSpend
  <2> DEFINE h == [variant |-> "P256", pk |-> u, until |-> until,
                   msg |-> HashPayload(x.conds, until, Channel)]
  <2>2. h.until \in Untils /\ OfSpend(h)  BY <2>1 DEF OfSpend
  <2> HIDE DEF h
  <2>3. HandOut(h)  BY <2>1 DEF h
  <2> QED  BY <2>2, <2>3, HandOutKeeps
<1>4. ASSUME NEW p \in Providers, NEW until \in Untils, GetAuthEntryPayloadHashForBundle(p, until)
      PROVE  BuilderInv'
  <2> DEFINE h == [variant |-> "Ed25519", pk |-> p, until |-> until,
                   msg |-> Contexts(Channel, spend)]
  <2>1. h.until \in Untils /\ OfSpend(h)  BY DEF OfSpend
  <2>2. HandOut(h)  BY <1>4 DEF GetAuthEntryPayloadHashForBundle
  <2> HIDE DEF h
  <2> QED  BY <2>1, <2>2, HandOutKeeps
<1>5. ASSUME NEW sig \in handed,
             \/ \E u \in Utxos : AddSpendSignature(u, sig)
             \/ \E k \in Ed25519Keys : AddEd25519Signature(k, sig)
             \/ \E p \in Providers : AddProviderSignature(p, sig)
      PROVE  BuilderInv'
  <2>0. sig.until \in Untils /\ OfSpend(sig)  BY DEF BuilderInv, HandedOk
  <2> DEFINE e == [sig |-> sig, until |-> sig.until]
  <2>1. ASSUME NEW u \in Utxos, AddSpendSignature(u, sig)  PROVE BuilderInv'
    <3>1. P256(u) \in SignerKeys  BY DEF SignerKeys
    <3>2. UnderItsKey(P256(u), e)  BY <2>0, <2>1 DEF AddSpendSignature, UnderItsKey, P256
    <3> QED  BY <2>1, <3>1, <3>2, AddSignatureKeeps DEF AddSpendSignature
  <2>2. ASSUME NEW k \in Ed25519Keys, AddEd25519Signature(k, sig)  PROVE BuilderInv'
    <3>1. Ed25519(k) \in SignerKeys  BY DEF SignerKeys
    <3>2. UnderItsKey(Ed25519(k), e)  BY <2>0 DEF UnderItsKey, Ed25519
    <3> QED  BY <2>2, <3>1, <3>2, AddSignatureKeeps DEF AddEd25519Signature
  <2>3. ASSUME NEW p \in Providers, AddProviderSignature(p, sig)  PROVE BuilderInv'
    <3>1. Provider(p) \in SignerKeys  BY DEF SignerKeys
    <3>2. UnderItsKey(Provider(p), e)  BY <2>0, <2>3 DEF AddProviderSignature, UnderItsKey, Provider
    <3> QED  BY <2>3, <3>1, <3>2, AddSignatureKeeps DEF AddProviderSignature
  <2> QED  BY <1>5, <2>1, <2>2, <2>3
<1>6. ASSUME NEW u \in Utxos, NEW amount \in Amount, AddCreate(u, amount)  PROVE BuilderInv'
  BY <1>2, <1>6 DEF AddCreate
<1>7. CASE UNCHANGED vars  BY <1>2, <1>7 DEF vars
<1> QED  BY <1>1, <1>3, <1>4, <1>5, <1>6, <1>7 DEF Next

LEMMA BuilderInvariant == Spec => []BuilderInv
<1>1. Init => BuilderInv
  BY DEF Init, BuilderInv, SpendOk, SpendsAgree, HandedOk, SignedOk, ToSet
<1> QED  BY <1>1, BuilderStep, PTL DEF Spec

(* Asking the earlier spends, in one direction, is enough: the conflict    *)
(* test is symmetric, and a spend is never changed.                        *)
THEOREM BuilderSpendsAgree == Spec => []SpendsAgree
<1>1. BuilderInv => SpendsAgree  BY DEF BuilderInv
<1> QED  BY <1>1, BuilderInvariant, PTL

(* What the auth contract is asked for: under the key of each spend, its   *)
(* conditions.                                                             *)
LEMMA RequirementsAre ==
  ASSUME SpendOk
  PROVE  /\ DOMAIN CalculateAuthRequirements(spend) = {P256(x.utxo) : x \in ToSet(spend)}
         /\ \A x \in ToSet(spend) : CalculateAuthRequirements(spend)[P256(x.utxo)] = x.conds
<1>1. DOMAIN CalculateAuthRequirements(spend) = {P256(x.utxo) : x \in ToSet(spend)}
  BY DEF CalculateAuthRequirements
<1>2. ASSUME NEW x \in ToSet(spend)
      PROVE  CalculateAuthRequirements(spend)[P256(x.utxo)] = x.conds
  <2> DEFINE y == CHOOSE y \in ToSet(spend) : P256(y.utxo) = P256(x.utxo)
  <2>1. y \in ToSet(spend) /\ P256(y.utxo) = P256(x.utxo)  BY Zenon
  <2>2. CalculateAuthRequirements(spend)[P256(x.utxo)] = y.conds
    BY DEF CalculateAuthRequirements
  <2> HIDE DEF y
  <2>3. P256(y.utxo).pk = y.utxo /\ P256(x.utxo).pk = x.utxo  BY DEF P256
  <2>4. y.utxo = x.utxo  BY <2>1, <2>3
  <2>5. y = x  BY <2>1, <2>4 DEF SpendOk
  <2> QED  BY <2>2, <2>5
<1> QED  BY <1>1, <1>2

(* The spends are covered when they have conditions and their signatures   *)
(* have not expired: each of those is of what the contract asks for.       *)
LEMMA SpendsCovered ==
  ASSUME BuilderInv, HasAllRequiredSpendSignatures, NEW now \in Untils
  PROVE  HandleUtxoAuth(sign_map, Contexts(Channel, spend), now) <=>
           \A x \in ToSet(spend) : x.conds # <<>> /\ sign_map[P256(x.utxo)].until >= now
<1> DEFINE reqs == CalculateAuthRequirements(spend)
           ctx == [kind |-> "contract", contract |-> Channel,
                   arg |-> IF spend = <<>> THEN "none" ELSE "reqs", reqs |-> reqs]
<1>1. /\ DOMAIN reqs = {P256(x.utxo) : x \in ToSet(spend)}
      /\ \A x \in ToSet(spend) : reqs[P256(x.utxo)] = x.conds
  BY RequirementsAre DEF BuilderInv
<1>2. Contexts(Channel, spend) = <<ctx>>  BY DEF Contexts
<1> HIDE DEF reqs
<1>3. HandleUtxoAuth(sign_map, <<ctx>>, now) <=> ContextMet(sign_map, ctx, now)
  <2> HIDE DEF ctx
  <2> QED  BY DEF HandleUtxoAuth
<1>4. ASSUME NEW x \in ToSet(spend)
      PROVE  RequirementMet(sign_map, Channel, P256(x.utxo), x.conds, now) <=>
               x.conds # <<>> /\ sign_map[P256(x.utxo)].until >= now
  <2> DEFINE k == P256(x.utxo)
             e == sign_map[k]
  <2>1. k.kind = "P256" /\ k.pk = x.utxo /\ k \in DOMAIN sign_map
    BY DEF P256, HasAllRequiredSpendSignatures
  <2>2. UnderItsKey(k, e)  BY <2>1 DEF BuilderInv, SignedOk
  <2> HIDE DEF k, e
  <2>3. e.until = e.sig.until /\ e.sig.variant = "P256" /\ e.sig.pk = x.utxo /\ OfSpend(e.sig)
    BY <2>1, <2>2 DEF UnderItsKey
  <2>4. PICK y \in ToSet(spend) :
          y.utxo = e.sig.pk /\ e.sig.msg = HashPayload(y.conds, e.sig.until, Channel)
    BY <2>3 DEF OfSpend
  <2>5. y = x  BY <2>3, <2>4 DEF BuilderInv, SpendOk
  <2>6. e.sig.msg = HashPayload(x.conds, e.until, Channel)  BY <2>3, <2>4, <2>5
  <2>7. VerifySignature(k, e.sig, HashPayload(x.conds, e.until, Channel))
    BY <2>1, <2>3, <2>6 DEF VerifySignature, SameBytes
  <2>8. RequirementMet(sign_map, Channel, k, x.conds, now) <=> x.conds # <<>> /\ e.until >= now
    BY <2>1, <2>7 DEF RequirementMet, e
  <2> QED  BY <2>8 DEF k, e
<1>5. CASE spend = <<>>
  <2>1. ToSet(spend) = {}  BY <1>5 DEF ToSet
  <2>2. ContextMet(sign_map, ctx, now)  BY <1>5 DEF ContextMet
  <2> QED  BY <1>2, <1>3, <2>1, <2>2
<1>6. CASE spend # <<>>
  <2>1. ContextMet(sign_map, ctx, now) <=>
          \A s \in DOMAIN reqs : RequirementMet(sign_map, Channel, s, reqs[s], now)
    BY <1>6 DEF ContextMet
  <2>2. (\A s \in DOMAIN reqs : RequirementMet(sign_map, Channel, s, reqs[s], now)) <=>
          \A x \in ToSet(spend) : RequirementMet(sign_map, Channel, P256(x.utxo), x.conds, now)
    BY <1>1
  <2> QED  BY <1>2, <1>3, <1>4, <2>1, <2>2
<1> QED  BY <1>5, <1>6

(* The provider's part: a signature of the entry as it is now, in time.    *)
LEMMA ProviderCovered ==
  ASSUME BuilderInv, HasSignatureForProvider, NEW now \in Untils, NEW contexts
  PROVE  RequireProvider(sign_map, contexts, Providers, now) <=>
           \A k \in DOMAIN sign_map :
             k.kind = "Provider" => sign_map[k].until >= now /\ sign_map[k].sig.msg = contexts
<1>1. ASSUME NEW k \in DOMAIN sign_map, k.kind = "Provider"
      PROVE  /\ k.pk \in Providers
             /\ VerifySignature(k, sign_map[k].sig, contexts) <=> sign_map[k].sig.msg = contexts
  BY <1>1 DEF BuilderInv, SignedOk, UnderItsKey, VerifySignature
<1> QED  BY <1>1 DEF RequireProvider, HasSignatureForProvider

(* Whatever the order in which spends were added, hashes handed out and    *)
(* signatures collected: an entry that the builder agrees to build passes  *)
(* the auth contract exactly when the provider signed the spends as they   *)
(* are, nothing has expired, and every spend has conditions.               *)
THEOREM BuilderEntryPasses == Spec => []BuiltEntryPasses
<1>1. ASSUME BuilderInv  PROVE BuiltEntryPasses
  <2> DEFINE contexts == Contexts(Channel, spend)
  <2> SUFFICES ASSUME NEW now \in Untils, CanBuild
               PROVE  RequireProvider(sign_map, contexts, Providers, now)
                        /\ HandleUtxoAuth(sign_map, contexts, now)
                      <=>
                        /\ \A k \in DOMAIN sign_map : k.kind # "Ed25519" => sign_map[k].until >= now
                        /\ \A k \in DOMAIN sign_map :
                             k.kind = "Provider" => sign_map[k].sig.msg = contexts
                        /\ \A x \in ToSet(spend) : x.conds # <<>>
    BY DEF BuiltEntryPasses
  <2>1. HasAllRequiredSpendSignatures /\ HasSignatureForProvider  BY DEF CanBuild
  <2>2. HandleUtxoAuth(sign_map, contexts, now) <=>
          \A x \in ToSet(spend) : x.conds # <<>> /\ sign_map[P256(x.utxo)].until >= now
    BY <1>1, <2>1, SpendsCovered
  <2> HIDE DEF contexts
  <2>3. RequireProvider(sign_map, contexts, Providers, now) <=>
          \A k \in DOMAIN sign_map :
            k.kind = "Provider" => sign_map[k].until >= now /\ sign_map[k].sig.msg = contexts
    BY <1>1, <2>1, ProviderCovered
  <2>4. ASSUME NEW k \in DOMAIN sign_map, k.kind = "P256"
        PROVE  \E x \in ToSet(spend) : k = P256(x.utxo)
    <3>1. k \in SignerKeys  BY <1>1 DEF BuilderInv, SignedOk
    <3>2. PICK x \in ToSet(spend) : x.utxo = k.pk
      BY <1>1, <2>4 DEF BuilderInv, SignedOk, UnderItsKey, OfSpend
    <3> QED  BY <2>4, <3>1, <3>2 DEF SignerKeys, P256, Provider, Ed25519
  <2>5. \A k \in DOMAIN sign_map : k.kind \in {"P256", "Provider", "Ed25519"}
    BY <1>1 DEF BuilderInv, SignedOk, SignerKeys, P256, Provider, Ed25519
  <2>6. \A x \in ToSet(spend) : P256(x.utxo) \in DOMAIN sign_map /\ P256(x.utxo).kind = "P256"
    BY <2>1 DEF HasAllRequiredSpendSignatures, P256
  <2> QED  BY <2>2, <2>3, <2>4, <2>5, <2>6
<1> QED  BY <1>1, BuilderInvariant, PTL
-----------------------------------------------------------------------------
(* The loops of UtxoModule.  A loop whose rounds stay in P ends in P: the  *)
(* function that After is defined by exists, and each of its values is the *)
(* round of the one before.  The lemma with the rounds as a function t.    *)
HasRun(P, t, s, list) ==
  \E f \in [0 .. Len(list) -> P] :
    \A k \in 0 .. Len(list) : f[k] = IF k = 0 THEN s ELSE t[<<f[k - 1], list[k]>>]

LEMMA LoopExists ==
  ASSUME NEW P, NEW X, NEW t \in [P \X X -> P], NEW s \in P, NEW list \in Seq(X)
  PROVE  HasRun(P, t, s, list)
<1> DEFINE Upto(n) == {f \in [0 .. n -> P] :
                        \A k \in 0 .. n : f[k] = IF k = 0 THEN s ELSE t[<<f[k - 1], list[k]>>]}
           G == {n \in Nat : n <= Len(list) => Upto(n) # {}}
<1>0. Len(list) \in Nat /\ \A k \in 1 .. Len(list) : list[k] \in X  OBVIOUS
<1>1. 0 \in G
  <2>1. [k \in 0 .. 0 |-> s] \in Upto(0)  OBVIOUS
  <2> QED  BY <2>1
<1>2. ASSUME NEW n \in Nat, n \in G  PROVE n + 1 \in G
  <2>1. CASE n + 1 > Len(list)  BY <1>0, <2>1
  <2>2. CASE n + 1 <= Len(list)
    <3>1. PICK f \in [0 .. n -> P] :
            \A k \in 0 .. n : f[k] = IF k = 0 THEN s ELSE t[<<f[k - 1], list[k]>>]
      BY <1>0, <1>2, <2>2
    <3> DEFINE end == t[<<f[n], list[n + 1]>>]
               g == [k \in 0 .. (n + 1) |-> IF k = n + 1 THEN end ELSE f[k]]
    <3>2. end \in P
      <4>1. f[n] \in P /\ list[n + 1] \in X  BY <1>0, <2>2, <3>1
      <4> QED  BY <4>1
    <3>3. g \in [0 .. (n + 1) -> P]
      <4> HIDE DEF end
      <4> QED  BY <3>1, <3>2
    <3>4. ASSUME NEW k \in 0 .. (n + 1)
          PROVE  g[k] = IF k = 0 THEN s ELSE t[<<g[k - 1], list[k]>>]
      <4>1. CASE k = n + 1
        <5>1. g[k] = end /\ k # 0 /\ k - 1 = n /\ n \in 0 .. (n + 1) /\ n # n + 1  BY <4>1
        <5>2. g[n] = f[n]  BY <5>1
        <5> HIDE DEF g
        <5> QED  BY <5>1, <5>2, <4>1
      <4>2. CASE k # n + 1
        <5>1. k \in 0 .. n /\ g[k] = f[k]  BY <4>2
        <5>2. k # 0 => k - 1 \in 0 .. (n + 1) /\ k - 1 # n + 1  BY <5>1
        <5>3. k # 0 => g[k - 1] = f[k - 1]  BY <5>2
        <5> HIDE DEF g
        <5> QED  BY <5>1, <5>3, <3>1
      <4> QED  BY <4>1, <4>2
    <3>5. g \in Upto(n + 1)  BY <3>3, <3>4
    <3>6. Upto(n + 1) # {}  BY <3>5
    <3> HIDE DEF Upto
    <3> QED  BY <3>6
  <2>3. n + 1 > Len(list) \/ n + 1 <= Len(list)  BY <1>0
  <2> QED  BY <2>1, <2>2, <2>3
<1> HIDE DEF G
<1>3. Len(list) \in G  BY <1>0, <1>1, <1>2, Induction
<1> QED  BY <1>0, <1>3 DEF G, HasRun

LEMMA LoopStays ==
  ASSUME NEW P, NEW F, NEW n \in Nat, F[0] \in P,
         \A k \in 1 .. n : F[k - 1] \in P => F[k] \in P
  PROVE  F[n] \in P
<1> DEFINE G == {k \in Nat : k <= n => F[k] \in P}
<1>1. 0 \in G  OBVIOUS
<1>2. ASSUME NEW k \in Nat, k \in G  PROVE k + 1 \in G
  <2>1. k + 1 <= n => k + 1 \in 1 .. n /\ (k + 1) - 1 = k /\ k <= n  OBVIOUS
  <2> QED  BY <1>2, <2>1
<1> HIDE DEF G
<1>3. n \in G  BY <1>1, <1>2, Induction
<1> QED  BY <1>3 DEF G

LEMMA SpendOneLoop ==
  ASSUME NEW P, NEW X, NEW s \in P, NEW list \in Seq(X),
         \A r \in P, x \in X : SpendOne(r, x) \in P
  PROVE  After(SpendOne, s, list) \in P
<1> DEFINE t == [p \in P \X X |-> SpendOne(p[1], p[2])]
           Runs(f) == f = [k \in 0 .. Len(list) |->
                            IF k = 0 THEN s ELSE SpendOne(f[k - 1], list[k])]
           F == CHOOSE f : Runs(f)
<1>0. Len(list) \in Nat /\ \A k \in 1 .. Len(list) : list[k] \in X  OBVIOUS
<1>1. \A r \in P, x \in X : t[<<r, x>>] = SpendOne(r, x)  OBVIOUS
<1>t. t \in [P \X X -> P]  OBVIOUS
<1> HIDE DEF t, Runs, F
<1>2. PICK f \in [0 .. Len(list) -> P] :
        \A k \in 0 .. Len(list) : f[k] = IF k = 0 THEN s ELSE t[<<f[k - 1], list[k]>>]
  <2>1. HasRun(P, t, s, list)  BY <1>t, LoopExists, Zenon
  <2> QED  BY <2>1 DEF HasRun
<1>3. ASSUME NEW k \in 0 .. Len(list)
      PROVE  f[k] = IF k = 0 THEN s ELSE SpendOne(f[k - 1], list[k])
  <2>1. f[k] = IF k = 0 THEN s ELSE t[<<f[k - 1], list[k]>>]  BY <1>2
  <2>2. k # 0 => f[k - 1] \in P /\ list[k] \in X  BY <1>0, <1>2
  <2>3. k # 0 => t[<<f[k - 1], list[k]>>] = SpendOne(f[k - 1], list[k])  BY <1>1, <2>2, Zenon
  <2> QED  BY <2>1, <2>3, Zenon
<1>4. Runs(f)  BY <1>2, <1>3 DEF Runs
<1>5. Runs(F)  BY <1>4, Zenon DEF F
<1>6. \A k \in 0 .. Len(list) : F[k] = IF k = 0 THEN s ELSE SpendOne(F[k - 1], list[k])
  BY <1>5 DEF Runs
<1>7. After(SpendOne, s, list) = F[Len(list)]  BY Zenon DEF After, F, Runs
<1>8. F[0] \in P  BY <1>0, <1>6
<1>9. \A k \in 1 .. Len(list) : F[k - 1] \in P => F[k] \in P
  <2> SUFFICES ASSUME NEW k \in 1 .. Len(list), F[k - 1] \in P  PROVE F[k] \in P
    OBVIOUS
  <2>1. k \in 0 .. Len(list) /\ k # 0 /\ list[k] \in X  BY <1>0
  <2>2. F[k] = SpendOne(F[k - 1], list[k])  BY <1>6, <2>1
  <2> QED  BY <2>1, <2>2
<1>10. F[Len(list)] \in P  BY <1>0, <1>8, <1>9, LoopStays
<1> QED  BY <1>7, <1>10

LEMMA CreateOneLoop ==
  ASSUME NEW P, NEW X, NEW s \in P, NEW list \in Seq(X),
         \A r \in P, x \in X : CreateOne(r, x) \in P
  PROVE  After(CreateOne, s, list) \in P
<1> DEFINE t == [p \in P \X X |-> CreateOne(p[1], p[2])]
           Runs(f) == f = [k \in 0 .. Len(list) |->
                            IF k = 0 THEN s ELSE CreateOne(f[k - 1], list[k])]
           F == CHOOSE f : Runs(f)
<1>0. Len(list) \in Nat /\ \A k \in 1 .. Len(list) : list[k] \in X  OBVIOUS
<1>1. \A r \in P, x \in X : t[<<r, x>>] = CreateOne(r, x)  OBVIOUS
<1>t. t \in [P \X X -> P]  OBVIOUS
<1> HIDE DEF t, Runs, F
<1>2. PICK f \in [0 .. Len(list) -> P] :
        \A k \in 0 .. Len(list) : f[k] = IF k = 0 THEN s ELSE t[<<f[k - 1], list[k]>>]
  <2>1. HasRun(P, t, s, list)  BY <1>t, LoopExists, Zenon
  <2> QED  BY <2>1 DEF HasRun
<1>3. ASSUME NEW k \in 0 .. Len(list)
      PROVE  f[k] = IF k = 0 THEN s ELSE CreateOne(f[k - 1], list[k])
  <2>1. f[k] = IF k = 0 THEN s ELSE t[<<f[k - 1], list[k]>>]  BY <1>2
  <2>2. k # 0 => f[k - 1] \in P /\ list[k] \in X  BY <1>0, <1>2
  <2>3. k # 0 => t[<<f[k - 1], list[k]>>] = CreateOne(f[k - 1], list[k])  BY <1>1, <2>2, Zenon
  <2> QED  BY <2>1, <2>3, Zenon
<1>4. Runs(f)  BY <1>2, <1>3 DEF Runs
<1>5. Runs(F)  BY <1>4, Zenon DEF F
<1>6. \A k \in 0 .. Len(list) : F[k] = IF k = 0 THEN s ELSE CreateOne(F[k - 1], list[k])
  BY <1>5 DEF Runs
<1>7. After(CreateOne, s, list) = F[Len(list)]  BY Zenon DEF After, F, Runs
<1>8. F[0] \in P  BY <1>0, <1>6
<1>9. \A k \in 1 .. Len(list) : F[k - 1] \in P => F[k] \in P
  <2> SUFFICES ASSUME NEW k \in 1 .. Len(list), F[k - 1] \in P  PROVE F[k] \in P
    OBVIOUS
  <2>1. k \in 0 .. Len(list) /\ k # 0 /\ list[k] \in X  BY <1>0
  <2>2. F[k] = CreateOne(F[k - 1], list[k])  BY <1>6, <2>1
  <2> QED  BY <2>1, <2>2
<1>10. F[Len(list)] \in P  BY <1>0, <1>8, <1>9, LoopStays
<1> QED  BY <1>7, <1>10

LEMMA SpendUtxoLoop ==
  ASSUME NEW P, NEW X, NEW s \in P, NEW list \in Seq(X),
         \A r \in P, x \in X : SpendUtxo(r, x) \in P
  PROVE  After(SpendUtxo, s, list) \in P
<1> DEFINE t == [p \in P \X X |-> SpendUtxo(p[1], p[2])]
           Runs(f) == f = [k \in 0 .. Len(list) |->
                            IF k = 0 THEN s ELSE SpendUtxo(f[k - 1], list[k])]
           F == CHOOSE f : Runs(f)
<1>0. Len(list) \in Nat /\ \A k \in 1 .. Len(list) : list[k] \in X  OBVIOUS
<1>1. \A r \in P, x \in X : t[<<r, x>>] = SpendUtxo(r, x)  OBVIOUS
<1>t. t \in [P \X X -> P]  OBVIOUS
<1> HIDE DEF t, Runs, F
<1>2. PICK f \in [0 .. Len(list) -> P] :
        \A k \in 0 .. Len(list) : f[k] = IF k = 0 THEN s ELSE t[<<f[k - 1], list[k]>>]
  <2>1. HasRun(P, t, s, list)  BY <1>t, LoopExists, Zenon
  <2> QED  BY <2>1 DEF HasRun
<1>3. ASSUME NEW k \in 0 .. Len(list)
      PROVE  f[k] = IF k = 0 THEN s ELSE SpendUtxo(f[k - 1], list[k])
  <2>1. f[k] = IF k = 0 THEN s ELSE t[<<f[k - 1], list[k]>>]  BY <1>2
  <2>2. k # 0 => f[k - 1] \in P /\ list[k] \in X  BY <1>0, <1>2
  <2>3. k # 0 => t[<<f[k - 1], list[k]>>] = SpendUtxo(f[k - 1], list[k])  BY <1>1, <2>2, Zenon
  <2> QED  BY <2>1, <2>3, Zenon
<1>4. Runs(f)  BY <1>2, <1>3 DEF Runs
<1>5. Runs(F)  BY <1>4, Zenon DEF F
<1>6. \A k \in 0 .. Len(list) : F[k] = IF k = 0 THEN s ELSE SpendUtxo(F[k - 1], list[k])
  BY <1>5 DEF Runs
<1>7. After(SpendUtxo, s, list) = F[Len(list)]  BY Zenon DEF After, F, Runs
<1>8. F[0] \in P  BY <1>0, <1>6
<1>9. \A k \in 1 .. Len(list) : F[k - 1] \in P => F[k] \in P
  <2> SUFFICES ASSUME NEW k \in 1 .. Len(list), F[k - 1] \in P  PROVE F[k] \in P
    OBVIOUS
  <2>1. k \in 0 .. Len(list) /\ k # 0 /\ list[k] \in X  BY <1>0
  <2>2. F[k] = SpendUtxo(F[k - 1], list[k])  BY <1>6, <2>1
  <2> QED  BY <2>1, <2>2
<1>10. F[Len(list)] \in P  BY <1>0, <1>8, <1>9, LoopStays
<1> QED  BY <1>7, <1>10

LEMMA CreateUtxoLoop ==
  ASSUME NEW P, NEW X, NEW s \in P, NEW list \in Seq(X),
         \A r \in P, x \in X : CreateUtxo(r, x) \in P
  PROVE  After(CreateUtxo, s, list) \in P
<1> DEFINE t == [p \in P \X X |-> CreateUtxo(p[1], p[2])]
           Runs(f) == f = [k \in 0 .. Len(list) |->
                            IF k = 0 THEN s ELSE CreateUtxo(f[k - 1], list[k])]
           F == CHOOSE f : Runs(f)
<1>0. Len(list) \in Nat /\ \A k \in 1 .. Len(list) : list[k] \in X  OBVIOUS
<1>1. \A r \in P, x \in X : t[<<r, x>>] = CreateUtxo(r, x)  OBVIOUS
<1>t. t \in [P \X X -> P]  OBVIOUS
<1> HIDE DEF t, Runs, F
<1>2. PICK f \in [0 .. Len(list) -> P] :
        \A k \in 0 .. Len(list) : f[k] = IF k = 0 THEN s ELSE t[<<f[k - 1], list[k]>>]
  <2>1. HasRun(P, t, s, list)  BY <1>t, LoopExists, Zenon
  <2> QED  BY <2>1 DEF HasRun
<1>3. ASSUME NEW k \in 0 .. Len(list)
      PROVE  f[k] = IF k = 0 THEN s ELSE CreateUtxo(f[k - 1], list[k])
  <2>1. f[k] = IF k = 0 THEN s ELSE t[<<f[k - 1], list[k]>>]  BY <1>2
  <2>2. k # 0 => f[k - 1] \in P /\ list[k] \in X  BY <1>0, <1>2
  <2>3. k # 0 => t[<<f[k - 1], list[k]>>] = CreateUtxo(f[k - 1], list[k])  BY <1>1, <2>2, Zenon
  <2> QED  BY <2>1, <2>3, Zenon
<1>4. Runs(f)  BY <1>2, <1>3 DEF Runs
<1>5. Runs(F)  BY <1>4, Zenon DEF F
<1>6. \A k \in 0 .. Len(list) : F[k] = IF k = 0 THEN s ELSE CreateUtxo(F[k - 1], list[k])
  BY <1>5 DEF Runs
<1>7. After(CreateUtxo, s, list) = F[Len(list)]  BY Zenon DEF After, F, Runs
<1>8. F[0] \in P  BY <1>0, <1>6
<1>9. \A k \in 1 .. Len(list) : F[k - 1] \in P => F[k] \in P
  <2> SUFFICES ASSUME NEW k \in 1 .. Len(list), F[k - 1] \in P  PROVE F[k] \in P
    OBVIOUS
  <2>1. k \in 0 .. Len(list) /\ k # 0 /\ list[k] \in X  BY <1>0
  <2>2. F[k] = CreateUtxo(F[k - 1], list[k])  BY <1>6, <2>1
  <2> QED  BY <2>1, <2>2
<1>10. F[Len(list)] \in P  BY <1>0, <1>8, <1>9, LoopStays
<1> QED  BY <1>7, <1>10
-----------------------------------------------------------------------------
(* Inside a call that started on the UTXOs f.  Spending and burning take   *)
(* UTXOs, and no others; creating and minting leave what was moved alone.  *)
CoreLedger == [ok : BOOLEAN, utxo : [Keys -> -1 .. MaxAmount], avail : Int]

OnlySpent(f, g) == \A u \in Keys : g[u] = f[u] \/ (f[u] > 0 /\ g[u] = 0)

Moved(f, g) ==
  \A u \in Keys : g[u] = f[u] \/ (f[u] = -1 /\ g[u] > 0) \/ (f[u] > 0 /\ g[u] = 0)

(* In a bundle the UTXOs and the running total are worth the same          *)
(* throughout; mint and burn count in avail what they have added.          *)
Spending(f, worth) ==
  {r \in CoreLedger : r.ok => Total(r.utxo, Keys) + r.avail = worth /\ OnlySpent(f, r.utxo)}
Creating(f, worth) ==
  {r \in CoreLedger : r.ok => Total(r.utxo, Keys) + r.avail = worth /\ Moved(f, r.utxo)}
Burning(f, worth) ==
  {r \in CoreLedger : r.ok => Total(r.utxo, Keys) - r.avail = worth /\ OnlySpent(f, r.utxo)}
Minting(f, worth) ==
  {r \in CoreLedger : r.ok => Total(r.utxo, Keys) - r.avail = worth /\ Moved(f, r.utxo)}

LEMMA TakeUtxo ==
  ASSUME IsFiniteSet(Keys), NEW g \in [Keys -> -1 .. MaxAmount], NEW u \in Keys, g[u] > 0
  PROVE  LET h == [g EXCEPT ![u] = 0]
         IN  /\ h \in [Keys -> -1 .. MaxAmount]
             /\ Total(h, Keys) \in Int /\ Total(g, Keys) \in Int
             /\ Total(h, Keys) = Total(g, Keys) - g[u]
             /\ \A f : OnlySpent(f, g) => OnlySpent(f, h)
<1> DEFINE h == [g EXCEPT ![u] = 0]
<1>1. h \in [Keys -> -1 .. MaxAmount] /\ h[u] = 0 /\ \A v \in Keys \ {u} : g[v] = h[v]
  BY MaxAmountAssumption
<1>2. OnlySpent(g, h)  BY <1>1 DEF OnlySpent
<1> HIDE DEF h
<1>3. Total(h, Keys) = Total(g, Keys) - Pos(g[u]) + Pos(h[u])  BY <1>1, TotalUpdate
<1>4. Pos(g[u]) = g[u] /\ Pos(h[u]) = 0 /\ g[u] \in Int  BY <1>1, MaxAmountAssumption DEF Pos
<1>5. Total(h, Keys) \in Int /\ Total(g, Keys) \in Int  BY TotalType
<1>6. Total(h, Keys) = Total(g, Keys) - g[u]  BY <1>3, <1>4, <1>5
<1>7. ASSUME NEW f, OnlySpent(f, g)  PROVE OnlySpent(f, h)
  BY <1>1, <1>2, <1>7 DEF OnlySpent
<1> QED  BY <1>1, <1>5, <1>6, <1>7 DEF h

LEMMA PutUtxo ==
  ASSUME IsFiniteSet(Keys), NEW g \in [Keys -> -1 .. MaxAmount], NEW u \in Keys, g[u] = -1,
         NEW a \in 0 .. MaxAmount, a > 0
  PROVE  LET h == [g EXCEPT ![u] = a]
         IN  /\ h \in [Keys -> -1 .. MaxAmount]
             /\ Total(h, Keys) \in Int /\ Total(g, Keys) \in Int
             /\ Total(h, Keys) = Total(g, Keys) + a
             /\ \A f : Moved(f, g) => Moved(f, h)
<1> DEFINE h == [g EXCEPT ![u] = a]
<1>1. h \in [Keys -> -1 .. MaxAmount] /\ h[u] = a /\ \A v \in Keys \ {u} : g[v] = h[v]
  BY MaxAmountAssumption
<1> HIDE DEF h
<1>3. Total(h, Keys) = Total(g, Keys) - Pos(g[u]) + Pos(h[u])  BY <1>1, TotalUpdate
<1>4. Pos(g[u]) = 0 /\ Pos(h[u]) = a /\ a \in Int  BY <1>1, MaxAmountAssumption DEF Pos
<1>5. Total(h, Keys) \in Int /\ Total(g, Keys) \in Int  BY TotalType
<1>6. Total(h, Keys) = Total(g, Keys) + a  BY <1>3, <1>4, <1>5
<1>7. ASSUME NEW f, Moved(f, g)  PROVE Moved(f, h)
  BY <1>1, <1>7 DEF Moved
<1> QED  BY <1>1, <1>5, <1>6, <1>7 DEF h

(* A round that fails, and one that does not.                              *)
LEMMA FailedRound ==
  ASSUME NEW r \in CoreLedger
  PROVE  LET e == [r EXCEPT !.ok = FALSE] IN e \in CoreLedger /\ ~ e.ok
BY DEF CoreLedger

LEMMA RoundResult ==
  ASSUME NEW r \in CoreLedger, NEW u \in Keys, NEW a, NEW b
  PROVE  [r EXCEPT !.utxo[u] = a, !.avail = b] =
           [ok |-> r.ok, utxo |-> [r.utxo EXCEPT ![u] = a], avail |-> b]
<1> DEFINE q == [r EXCEPT !.utxo[u] = a, !.avail = b]
           h == [r.utxo EXCEPT ![u] = a]
<1>1. r \in [{"ok", "utxo", "avail"} -> BOOLEAN \cup [Keys -> -1 .. MaxAmount] \cup Int]
  BY DEF CoreLedger
<1>2. /\ q = [x \in DOMAIN q |-> q[x]] /\ DOMAIN q = {"ok", "utxo", "avail"}
      /\ q["ok"] = r["ok"] /\ q["utxo"] = h /\ q["avail"] = b
  BY <1>1
<1> HIDE DEF q, h
<1>3. q = [ok |-> r.ok, utxo |-> h, avail |-> b]  BY <1>2
<1> QED  BY <1>3 DEF q, h

LEMMA LedgerFields ==
  ASSUME NEW r \in CoreLedger
  PROVE  /\ r.ok \in BOOLEAN /\ r.utxo \in [Keys -> -1 .. MaxAmount] /\ r.avail \in Int
         /\ \A u \in Keys : r.utxo[u] \in Int
BY MaxAmountAssumption DEF CoreLedger

LEMMA SpendOneRound ==
  ASSUME IsFiniteSet(Keys), NEW f, NEW worth, NEW r \in Spending(f, worth), NEW u \in Keys
  PROVE  SpendOne(r, u) \in Spending(f, worth)
<1> DEFINE g == r.utxo
           h == [g EXCEPT ![u] = 0]
           q == [ok |-> r.ok, utxo |-> h, avail |-> r.avail + g[u]]
<1>1. r \in CoreLedger /\ (r.ok => Total(g, Keys) + r.avail = worth /\ OnlySpent(f, g))
  BY DEF Spending
<1>2. r.ok \in BOOLEAN /\ g \in [Keys -> -1 .. MaxAmount] /\ r.avail \in Int /\ g[u] \in Int
  BY <1>1, LedgerFields
<1>3. CASE r.ok /\ g[u] > 0 /\ r.avail + g[u] \in I128
  <2>1. SpendOne(r, u) = [r EXCEPT !.utxo[u] = 0, !.avail = r.avail + g[u]]
    BY <1>3 DEF SpendOne
  <2>2. SpendOne(r, u) = q  BY <1>1, <2>1, RoundResult
  <2>3. /\ h \in [Keys -> -1 .. MaxAmount] /\ Total(h, Keys) \in Int /\ Total(g, Keys) \in Int
        /\ Total(h, Keys) = Total(g, Keys) - g[u] /\ OnlySpent(f, h)
    BY <1>1, <1>2, <1>3, TakeUtxo
  <2> HIDE DEF g, h
  <2>4. q \in CoreLedger /\ q.utxo = h /\ q.avail = r.avail + g[u]
    BY <1>2, <2>3 DEF CoreLedger
  <2>5. Total(h, Keys) + (r.avail + g[u]) = worth  BY <1>1, <1>2, <1>3, <2>3
  <2> HIDE DEF q
  <2> QED  BY <2>2, <2>3, <2>4, <2>5 DEF Spending
<1>4. CASE ~ (r.ok /\ g[u] > 0 /\ r.avail + g[u] \in I128)
  <2>1. SpendOne(r, u) = [r EXCEPT !.ok = FALSE]  BY <1>4 DEF SpendOne
  <2> QED  BY <1>1, <2>1, FailedRound DEF Spending
<1> QED  BY <1>3, <1>4

LEMMA CreateOneRound ==
  ASSUME IsFiniteSet(Keys), NEW f, NEW worth, NEW r \in Creating(f, worth),
         NEW c \in [utxo : Keys, amount : 0 .. MaxAmount]
  PROVE  CreateOne(r, c) \in Creating(f, worth)
<1> DEFINE g == r.utxo
           u == c.utxo
           a == c.amount
           h == [g EXCEPT ![u] = a]
           q == [ok |-> r.ok, utxo |-> h, avail |-> r.avail - a]
<1>1. r \in CoreLedger /\ (r.ok => Total(g, Keys) + r.avail = worth /\ Moved(f, g))
  BY DEF Creating
<1>2. /\ r.ok \in BOOLEAN /\ g \in [Keys -> -1 .. MaxAmount] /\ r.avail \in Int
      /\ u \in Keys /\ g[u] \in Int /\ a \in 0 .. MaxAmount /\ a \in Int
  BY <1>1, LedgerFields, MaxAmountAssumption
<1>3. CASE r.ok /\ g[u] = -1 /\ a > 0 /\ r.avail - a \in I128
  <2>1. CreateOne(r, c) = [r EXCEPT !.utxo[u] = a, !.avail = r.avail - a]
    BY <1>3 DEF CreateOne
  <2> HIDE DEF u, a
  <2>2. CreateOne(r, c) = q  BY <1>1, <1>2, <2>1, RoundResult
  <2>3. /\ h \in [Keys -> -1 .. MaxAmount] /\ Total(h, Keys) \in Int /\ Total(g, Keys) \in Int
        /\ Total(h, Keys) = Total(g, Keys) + a /\ Moved(f, h)
    BY <1>1, <1>2, <1>3, PutUtxo
  <2> HIDE DEF g, h
  <2>4. q \in CoreLedger /\ q.utxo = h /\ q.avail = r.avail - a
    BY <1>2, <2>3 DEF CoreLedger
  <2>5. Total(h, Keys) + (r.avail - a) = worth  BY <1>1, <1>2, <1>3, <2>3
  <2> HIDE DEF q
  <2> QED  BY <2>2, <2>3, <2>4, <2>5 DEF Creating
<1>4. CASE ~ (r.ok /\ g[u] = -1 /\ a > 0 /\ r.avail - a \in I128)
  <2>1. CreateOne(r, c) = [r EXCEPT !.ok = FALSE]  BY <1>4 DEF CreateOne
  <2> QED  BY <1>1, <2>1, FailedRound DEF Creating
<1> QED  BY <1>3, <1>4

LEMMA SpendUtxoRound ==
  ASSUME IsFiniteSet(Keys), NEW f, NEW worth, NEW r \in Burning(f, worth), NEW u \in Keys
  PROVE  SpendUtxo(r, u) \in Burning(f, worth)
<1> DEFINE g == r.utxo
           h == [g EXCEPT ![u] = 0]
           q == [ok |-> r.ok, utxo |-> h, avail |-> r.avail - g[u]]
<1>1. r \in CoreLedger /\ (r.ok => Total(g, Keys) - r.avail = worth /\ OnlySpent(f, g))
  BY DEF Burning
<1>2. r.ok \in BOOLEAN /\ g \in [Keys -> -1 .. MaxAmount] /\ r.avail \in Int /\ g[u] \in Int
  BY <1>1, LedgerFields
<1>3. CASE r.ok /\ g[u] > 0
  <2>1. SpendUtxo(r, u) = [r EXCEPT !.utxo[u] = 0, !.avail = r.avail - g[u]]
    BY <1>3 DEF SpendUtxo
  <2>2. SpendUtxo(r, u) = q  BY <1>1, <2>1, RoundResult
  <2>3. /\ h \in [Keys -> -1 .. MaxAmount] /\ Total(h, Keys) \in Int /\ Total(g, Keys) \in Int
        /\ Total(h, Keys) = Total(g, Keys) - g[u] /\ OnlySpent(f, h)
    BY <1>1, <1>2, <1>3, TakeUtxo
  <2> HIDE DEF g, h
  <2>4. q \in CoreLedger /\ q.utxo = h /\ q.avail = r.avail - g[u]
    BY <1>2, <2>3 DEF CoreLedger
  <2>5. Total(h, Keys) - (r.avail - g[u]) = worth  BY <1>1, <1>2, <1>3, <2>3
  <2> HIDE DEF q
  <2> QED  BY <2>2, <2>3, <2>4, <2>5 DEF Burning
<1>4. CASE ~ (r.ok /\ g[u] > 0)
  <2>1. SpendUtxo(r, u) = [r EXCEPT !.ok = FALSE]  BY <1>4 DEF SpendUtxo
  <2> QED  BY <1>1, <2>1, FailedRound DEF Burning
<1> QED  BY <1>3, <1>4

LEMMA CreateUtxoRound ==
  ASSUME IsFiniteSet(Keys), NEW f, NEW worth, NEW r \in Minting(f, worth),
         NEW c \in [utxo : Keys, amount : 0 .. MaxAmount]
  PROVE  CreateUtxo(r, c) \in Minting(f, worth)
<1> DEFINE g == r.utxo
           u == c.utxo
           a == c.amount
           h == [g EXCEPT ![u] = a]
           q == [ok |-> r.ok, utxo |-> h, avail |-> r.avail + a]
<1>1. r \in CoreLedger /\ (r.ok => Total(g, Keys) - r.avail = worth /\ Moved(f, g))
  BY DEF Minting
<1>2. /\ r.ok \in BOOLEAN /\ g \in [Keys -> -1 .. MaxAmount] /\ r.avail \in Int
      /\ u \in Keys /\ g[u] \in Int /\ a \in 0 .. MaxAmount /\ a \in Int
  BY <1>1, LedgerFields, MaxAmountAssumption
<1>3. CASE r.ok /\ g[u] = -1 /\ a > 0
  <2>1. CreateUtxo(r, c) = [r EXCEPT !.utxo[u] = a, !.avail = r.avail + a]
    BY <1>3 DEF CreateUtxo
  <2> HIDE DEF u, a
  <2>2. CreateUtxo(r, c) = q  BY <1>1, <1>2, <2>1, RoundResult
  <2>3. /\ h \in [Keys -> -1 .. MaxAmount] /\ Total(h, Keys) \in Int /\ Total(g, Keys) \in Int
        /\ Total(h, Keys) = Total(g, Keys) + a /\ Moved(f, h)
    BY <1>1, <1>2, <1>3, PutUtxo
  <2> HIDE DEF g, h
  <2>4. q \in CoreLedger /\ q.utxo = h /\ q.avail = r.avail + a
    BY <1>2, <2>3 DEF CoreLedger
  <2>5. Total(h, Keys) - (r.avail + a) = worth  BY <1>1, <1>2, <1>3, <2>3
  <2> HIDE DEF q
  <2> QED  BY <2>2, <2>3, <2>4, <2>5 DEF Minting
<1>4. CASE ~ (r.ok /\ g[u] = -1 /\ a > 0)
  <2>1. CreateUtxo(r, c) = [r EXCEPT !.ok = FALSE]  BY <1>4 DEF CreateUtxo
  <2> QED  BY <1>1, <2>1, FailedRound DEF Minting
<1> QED  BY <1>3, <1>4

-----------------------------------------------------------------------------
(* The calls.                                                              *)
CoreInv ==
  /\ utxo \in [Keys -> -1 .. MaxAmount] /\ net \in Int
  /\ Total(utxo, Keys) = net

CoreItem == [utxo : Keys, amount : 0 .. MaxAmount]

LEMMA VectorsAreSequences ==
  ASSUME MaxLen \in Nat, NEW S, NEW list \in BoundedSeq(S, MaxLen)
  PROVE  list \in Seq(S)
BY DEF BoundedSeq, SeqOf

LEMMA BeginFacts ==
  ASSUME CoreInv, NEW n \in Int
  PROVE  /\ Begin(n) \in Spending(utxo, net + n)
         /\ Begin(0) \in Burning(utxo, net) /\ Begin(0) \in Minting(utxo, net)
<1>1. ASSUME NEW m \in Int  PROVE /\ Begin(m) \in CoreLedger
                                  /\ Begin(m).utxo = utxo /\ Begin(m).avail = m
  BY DEF Begin, CoreLedger, CoreInv
<1>2. OnlySpent(utxo, utxo) /\ Moved(utxo, utxo)  BY DEF OnlySpent, Moved
<1>3. net \in Int /\ Total(utxo, Keys) = net  BY DEF CoreInv
<1> QED  BY <1>1, <1>2, <1>3 DEF Spending, Burning, Minting

(* Where the loops of a call end.                                          *)
LEMMA BundleFacts ==
  ASSUME IsFiniteSet(Keys), MaxLen \in Nat, CoreInv,
         NEW spends \in BoundedSeq(Keys, MaxLen), NEW creates \in Creates,
         NEW incoming \in I128
  PROVE  BundleOf(spends, creates, incoming) \in Creating(utxo, net + incoming)
<1> DEFINE r == After(SpendOne, Begin(incoming), spends)
           worth == net + incoming
           f == utxo
<1>1. incoming \in Int  BY MaxAmountAssumption DEF I128
<1>2. Begin(incoming) \in Spending(f, worth)  BY <1>1, BeginFacts
<1>3. spends \in Seq(Keys) /\ creates \in Seq(CoreItem)
  BY VectorsAreSequences DEF Creates, CoreItem
<1> HIDE DEF worth, f
<1>4. \A q \in Spending(f, worth), x \in Keys : SpendOne(q, x) \in Spending(f, worth)
  BY SpendOneRound
<1>5. r \in Spending(f, worth)  BY <1>2, <1>3, <1>4, SpendOneLoop, Zenon
<1> HIDE DEF r
<1>6. r \in Creating(f, worth)
  <2>1. \A g : OnlySpent(f, g) => Moved(f, g)  BY DEF OnlySpent, Moved
  <2> QED  BY <1>5, <2>1 DEF Spending, Creating
<1>7. \A q \in Creating(f, worth), x \in CoreItem : CreateOne(q, x) \in Creating(f, worth)
  BY CreateOneRound DEF CoreItem
<1>8. After(CreateOne, r, creates) \in Creating(f, worth)
  BY <1>3, <1>6, <1>7, CreateOneLoop, Zenon
<1>9. BundleOf(spends, creates, incoming) = After(CreateOne, r, creates)
  BY Zenon DEF BundleOf, r
<1> QED  BY <1>8, <1>9, Zenon DEF worth, f

LEMMA MintFacts ==
  ASSUME IsFiniteSet(Keys), MaxLen \in Nat, CoreInv, NEW list \in Creates
  PROVE  After(CreateUtxo, Begin(0), list) \in Minting(utxo, net)
<1> DEFINE f == utxo
           P == Minting(f, net)
<1>1. Begin(0) \in P  BY BeginFacts
<1>2. list \in Seq(CoreItem)  BY VectorsAreSequences DEF Creates, CoreItem
<1>3. \A q \in P, x \in CoreItem : CreateUtxo(q, x) \in P  BY CreateUtxoRound DEF CoreItem
<1> HIDE DEF P
<1>4. After(CreateUtxo, Begin(0), list) \in P
  BY <1>1, <1>2, <1>3, CreateUtxoLoop, Zenon
<1> QED  BY <1>4 DEF P

LEMMA BurnFacts ==
  ASSUME IsFiniteSet(Keys), MaxLen \in Nat, CoreInv, NEW list \in BoundedSeq(Keys, MaxLen)
  PROVE  After(SpendUtxo, Begin(0), list) \in Burning(utxo, net)
<1> DEFINE f == utxo
           P == Burning(f, net)
<1>1. Begin(0) \in P  BY BeginFacts
<1>2. list \in Seq(Keys)  BY VectorsAreSequences
<1>3. \A q \in P, x \in Keys : SpendUtxo(q, x) \in P  BY SpendUtxoRound
<1> HIDE DEF P
<1>4. After(SpendUtxo, Begin(0), list) \in P
  BY <1>1, <1>2, <1>3, SpendUtxoLoop, Zenon
<1> QED  BY <1>4 DEF P

(* A call moves UTXOs as they may move, and history counts what they are   *)
(* worth.                                                                  *)
LEMMA CoreStep ==
  ASSUME IsFiniteSet(Keys), MaxLen \in Nat, CoreInv, CoreNext
  PROVE  CoreInv' /\ Moved(utxo, utxo')
<1>0. net \in Int  BY DEF CoreInv
<1>1. ASSUME NEW spends \in BoundedSeq(Keys, MaxLen), NEW creates \in Creates,
             NEW incoming \in I128, NEW outgoing \in I128, NEW by \in Addresses,
             TransactWithExternal(spends, creates, incoming, outgoing, by)
      PROVE  CoreInv' /\ Moved(utxo, utxo')
  <2> DEFINE r == BundleOf(spends, creates, incoming)
  <2>1. r \in Creating(utxo, net + incoming)  BY BundleFacts
  <2>2. r.ok /\ r.avail = outgoing /\ utxo' = r.utxo /\ net' = net + incoming - outgoing
    BY <1>1 DEF TransactWithExternal, Comes
  <2>3. incoming \in Int /\ outgoing \in Int  BY MaxAmountAssumption DEF I128
  <2> HIDE DEF r
  <2>4. /\ r \in CoreLedger /\ Total(r.utxo, Keys) + r.avail = net + incoming
        /\ Moved(utxo, r.utxo)
    BY <2>1, <2>2 DEF Creating
  <2>5. r.utxo \in [Keys -> -1 .. MaxAmount]  BY <2>4, LedgerFields
  <2>6. Total(r.utxo, Keys) \in Int  BY TotalType
  <2>7. Total(r.utxo, Keys) = net + incoming - outgoing  BY <1>0, <2>2, <2>3, <2>4, <2>6
  <2> QED  BY <1>0, <2>2, <2>3, <2>4, <2>5, <2>7 DEF CoreInv
<1>2. ASSUME NEW r \in Burning(utxo, net) \cup Minting(utxo, net), Return(r)
      PROVE  CoreInv' /\ Moved(utxo, utxo')
  <2>1. r.ok /\ utxo' = r.utxo /\ net' = net + r.avail  BY <1>2 DEF Return
  <2>2. \A g : OnlySpent(utxo, g) => Moved(utxo, g)  BY DEF OnlySpent, Moved
  <2>3. /\ r \in CoreLedger /\ Total(r.utxo, Keys) - r.avail = net /\ Moved(utxo, r.utxo)
    BY <2>1, <2>2 DEF Burning, Minting
  <2>4. r.utxo \in [Keys -> -1 .. MaxAmount] /\ r.avail \in Int  BY <2>3, LedgerFields
  <2>5. Total(r.utxo, Keys) \in Int  BY TotalType
  <2>6. Total(r.utxo, Keys) = net + r.avail  BY <1>0, <2>3, <2>4, <2>5
  <2> QED  BY <1>0, <2>1, <2>3, <2>4, <2>6 DEF CoreInv
<1>3. ASSUME NEW list \in Creates, Mint(list)  PROVE CoreInv' /\ Moved(utxo, utxo')
  BY <1>2, <1>3, MintFacts DEF Mint
<1>4. ASSUME NEW list \in BoundedSeq(Keys, MaxLen), Burn(list)
      PROVE  CoreInv' /\ Moved(utxo, utxo')
  BY <1>2, <1>4, BurnFacts DEF Burn
<1>5. ASSUME NEW a \in Addresses, SetAuth(a)  PROVE CoreInv' /\ Moved(utxo, utxo')
  BY <1>5 DEF SetAuth, CoreInv, Moved
<1> QED  BY <1>1, <1>3, <1>4, <1>5 DEF CoreNext

LEMMA CoreInvariant == CoreSpec => []CoreInv
<1>1. CoreInit => CoreInv
  <2> SUFFICES ASSUME CoreInit  PROVE CoreInv
    OBVIOUS
  <2>1. utxo = [u \in Keys |-> -1] /\ net = 0  BY DEF CoreInit
  <2>2. Total(utxo, Keys) = 0  BY <2>1, TotalNone
  <2> QED  BY <2>1, <2>2, MaxAmountAssumption DEF CoreInv
<1>2. CoreInv /\ [CoreNext]_coreVars => CoreInv'
  <2>1. CoreInv /\ UNCHANGED coreVars => CoreInv'  BY DEF CoreInv, coreVars
  <2> QED  BY <2>1, CoreStep, UtxoModuleAssumption
<1> QED  BY <1>1, <1>2, PTL DEF CoreSpec

(* What the unspent UTXOs are worth is what all the calls brought in less  *)
(* what they took out, for vectors of any length, with elements that       *)
(* repeat, and for incoming and outgoing amounts of either sign.           *)
THEOREM CoreValueAccountedFor == CoreSpec => []ValueAccountedFor
<1>1. CoreInv => ValueAccountedFor  BY DEF CoreInv, ValueAccountedFor
<1> QED  BY <1>1, CoreInvariant, PTL

(* No call moves a UTXO twice, and none comes back.                        *)
THEOREM CoreMovesOnce == CoreSpec => MovesOnce
<1>1. CoreInv /\ [CoreNext]_coreVars =>
        [\A u \in Keys : \/ utxo'[u] = utxo[u]
                         \/ utxo[u] = -1 /\ utxo'[u] > 0
                         \/ utxo[u] > 0 /\ utxo'[u] = 0]_coreVars
  BY CoreStep, UtxoModuleAssumption DEF Moved
<1> QED  BY <1>1, CoreInvariant, PTL DEF CoreSpec, MovesOnce
=============================================================================
