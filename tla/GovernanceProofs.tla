-------------------------- MODULE GovernanceProofs --------------------------
(***************************************************************************)
(* A contract changes hands only as its owner last said, and no contract   *)
(* that bundles run through is archived while they do, for any number of   *)
(* channels, admins and ledgers.                                           *)
(*                                                                         *)
(* HandoverByConsent relates a step to history.  What makes it hold is     *)
(* Nominated: a nomination that can still be accepted is the last one, and *)
(* the owner who made it is the owner still.                               *)
(***************************************************************************)
EXTENDS Governance, TLAPS

Nominated ==
  \A c \in Contracts : Live(pending[c].until, seq) =>
    /\ named[c].by = owner[c]
    /\ named[c].to = pending[c].to
    /\ pending[c].until = named[c].at + MaxTtl - 1

GovernanceInv == TypeOK /\ UsedStaysLive /\ Nominated

(* extend_ttl leaves more than the threshold, and takes nothing away.      *)
LEMMA ExtendReaches ==
  ASSUME NEW until \in Nat, NEW now \in Nat
  PROVE  LET e == ExtendTtl(until, now, InstThreshold, InstBump)
         IN  e \in Nat /\ e >= until /\ e > now + InstThreshold
BY GovernanceAssumption DEF ExtendTtl

LEMMA FreshReaches ==
  ASSUME NEW now \in Nat
  PROVE  FreshTtl(now, MinTtl) \in Nat /\ FreshTtl(now, MinTtl) >= now
BY GovernanceAssumption DEF FreshTtl

LEMMA GovernanceInit == Init => GovernanceInv
<1> SUFFICES ASSUME Init  PROVE GovernanceInv  OBVIOUS
<1> USE GovernanceAssumption
<1>1. \A c \in Contracts : inst[c] \in Nat /\ inst[c] > 0 + InstThreshold
  <2>1. FreshTtl(0, MinTtl) \in Nat  BY FreshReaches
  <2> QED  BY <2>1, ExtendReaches DEF Init
<1>2. TypeOK  BY <1>1 DEF Init, TypeOK, NoPending, Ledgers
<1>3. UsedStaysLive  BY <1>1 DEF Init, UsedStaysLive
<1>4. Nominated  BY DEF Init, Nominated, NoPending, Live
<1> QED  BY <1>2, <1>3, <1>4 DEF GovernanceInv
-----------------------------------------------------------------------------
LEMMA SetAdminInv ==
  ASSUME GovernanceInv, NEW c \in Contracts, NEW by \in Admins, NEW to \in Admins,
         SetAdmin(c, by, to)
  PROVE  GovernanceInv'
<1> USE GovernanceAssumption
<1>1. seq \in Nat /\ seq + MaxTtl - 1 \in -1 .. (seq + MaxTtl - 1)
  BY DEF GovernanceInv, TypeOK, Ledgers
<1>2. TypeOK'  BY <1>1 DEF GovernanceInv, TypeOK, SetAdmin, Nomination
<1>3. UsedStaysLive'  BY DEF GovernanceInv, UsedStaysLive, SetAdmin
<1>4. Nominated'
  <2> SUFFICES ASSUME NEW d \in Contracts, Live(pending[d].until, seq)'
               PROVE  /\ named'[d].by = owner'[d]
                      /\ named'[d].to = pending'[d].to
                      /\ pending'[d].until = named'[d].at + MaxTtl - 1
    BY DEF Nominated
  <2>1. CASE d = c
    BY <2>1 DEF GovernanceInv, TypeOK, SetAdmin, Nomination, EnforceOwnerAuth
  <2>2. CASE d # c
    <3>1. /\ named'[d] = named[d] /\ pending'[d] = pending[d]
          /\ owner' = owner /\ seq' = seq
      BY <2>2 DEF GovernanceInv, TypeOK, SetAdmin, Nomination
    <3> QED  BY <3>1 DEF GovernanceInv, Nominated, Live
  <2> QED  BY <2>1, <2>2
<1> QED  BY <1>2, <1>3, <1>4 DEF GovernanceInv

(* The accepted nomination is gone, so that none is left that a former     *)
(* owner made.                                                             *)
LEMMA AcceptAdminInv ==
  ASSUME GovernanceInv, NEW c \in Contracts, NEW by \in Admins, AcceptAdmin(c, by)
  PROVE  GovernanceInv'
<1> USE GovernanceAssumption
<1>1. seq \in Nat /\ seq' = seq  BY DEF GovernanceInv, TypeOK, Ledgers, AcceptAdmin
<1>2. TypeOK'
  BY <1>1 DEF GovernanceInv, TypeOK, AcceptAdmin, NoPending
<1>3. UsedStaysLive'  BY DEF GovernanceInv, UsedStaysLive, AcceptAdmin
<1>4. Nominated'
  <2> SUFFICES ASSUME NEW d \in Contracts, Live(pending[d].until, seq)'
               PROVE  /\ named'[d].by = owner'[d]
                      /\ named'[d].to = pending'[d].to
                      /\ pending'[d].until = named'[d].at + MaxTtl - 1
    BY DEF Nominated
  <2>1. d # c
    BY <1>1 DEF GovernanceInv, TypeOK, AcceptAdmin, NoPending, Live
  <2>2. /\ named' = named /\ pending'[d] = pending[d] /\ owner'[d] = owner[d]
    BY <2>1 DEF GovernanceInv, TypeOK, AcceptAdmin
  <2> QED  BY <1>1, <2>2 DEF GovernanceInv, Nominated, Live
<1> QED  BY <1>2, <1>3, <1>4 DEF GovernanceInv

LEMMA UpgradeInv ==
  ASSUME GovernanceInv, NEW c \in Contracts, NEW by \in Admins, NEW wasm \in Wasms,
         Upgrade(c, by, wasm)
  PROVE  GovernanceInv'
<1>1. TypeOK'  BY DEF GovernanceInv, TypeOK, Upgrade
<1>2. UsedStaysLive' /\ Nominated'
  BY DEF GovernanceInv, UsedStaysLive, Nominated, Upgrade, Live
<1> QED  BY <1>1, <1>2 DEF GovernanceInv

(* A bundle extends the instance of its channel and that of the auth       *)
(* contract, the two it uses.                                              *)
LEMMA TransactInv ==
  ASSUME GovernanceInv, NEW ch \in Channels, Transact(ch)
  PROVE  GovernanceInv'
<1> USE GovernanceAssumption
<1>1. /\ seq \in Nat /\ seq \in Ledgers /\ ch \in Contracts /\ AuthContract \in Contracts
      /\ inst \in [Contracts -> Nat] /\ used \in [Contracts -> Ledgers]
  BY DEF GovernanceInv, TypeOK, Ledgers, Contracts
<1>2. \A c \in Contracts :
        /\ inst'[c] \in Nat
        /\ c \in {ch, AuthContract} => inst'[c] > seq + InstThreshold
        /\ c \notin {ch, AuthContract} => inst'[c] = inst[c]
  BY <1>1, ExtendReaches DEF Transact, Bumped
<1>3. inst' \in [Contracts -> Nat]
  BY <1>2 DEF Transact, Bumped
<1>4. TypeOK'  BY <1>1, <1>3 DEF GovernanceInv, TypeOK, Transact
<1>5. UsedStaysLive'
  <2> SUFFICES ASSUME NEW c \in Contracts  PROVE inst'[c] > used'[c] + InstThreshold
    BY DEF UsedStaysLive
  <2>1. CASE c \in {ch, AuthContract}  BY <1>1, <1>2, <2>1 DEF Transact
  <2>2. CASE c \notin {ch, AuthContract}
    BY <1>1, <1>2, <2>2 DEF Transact, GovernanceInv, UsedStaysLive
  <2> QED  BY <2>1, <2>2
<1>6. Nominated'  BY DEF GovernanceInv, Nominated, Transact, Live
<1> QED  BY <1>4, <1>5, <1>6 DEF GovernanceInv

LEMMA RestoreInstanceInv ==
  ASSUME GovernanceInv, NEW c \in Contracts, RestoreInstance(c)
  PROVE  GovernanceInv'
<1> USE GovernanceAssumption
<1>1. seq \in Nat /\ inst \in [Contracts -> Nat] /\ used \in [Contracts -> Ledgers]
  BY DEF GovernanceInv, TypeOK, Ledgers
<1>2. FreshTtl(seq, MinTtl) \in Nat /\ FreshTtl(seq, MinTtl) > inst[c]
  BY <1>1, FreshReaches DEF RestoreInstance, Live
<1>3. TypeOK'  BY <1>2 DEF GovernanceInv, TypeOK, RestoreInstance
<1>4. UsedStaysLive'
  <2> SUFFICES ASSUME NEW d \in Contracts  PROVE inst'[d] > used'[d] + InstThreshold
    BY DEF UsedStaysLive
  <2>1. inst'[d] \in Nat /\ inst'[d] >= inst[d] /\ used'[d] = used[d] /\ used[d] \in Nat
    BY <1>1, <1>2 DEF RestoreInstance, Ledgers
  <2>2. inst[d] > used[d] + InstThreshold  BY DEF GovernanceInv, UsedStaysLive
  <2> QED  BY <1>1, <2>1, <2>2
<1>5. Nominated'  BY DEF GovernanceInv, Nominated, RestoreInstance, Live
<1> QED  BY <1>3, <1>4, <1>5 DEF GovernanceInv

(* A nomination that is live after a ledger closed was live before.        *)
LEMMA CloseLedgerInv ==
  ASSUME GovernanceInv, CloseLedger
  PROVE  GovernanceInv'
<1> USE GovernanceAssumption
<1>1. seq \in Nat /\ seq' = seq + 1 /\ seq' \in Ledgers
  BY DEF GovernanceInv, TypeOK, Ledgers, CloseLedger
<1>2. TypeOK'
  <2>1. -1 .. (seq + MaxTtl - 1) \subseteq -1 .. (seq' + MaxTtl - 1)  BY <1>1
  <2>2. pending' \in [Contracts -> [to : Admins, until : -1 .. (seq' + MaxTtl - 1)]]
    BY <2>1 DEF GovernanceInv, TypeOK, CloseLedger
  <2> QED  BY <1>1, <2>2 DEF GovernanceInv, TypeOK, CloseLedger
<1>3. UsedStaysLive'  BY DEF GovernanceInv, UsedStaysLive, CloseLedger
<1>4. Nominated'
  <2>1. \A c \in Contracts : Live(pending[c].until, seq') => Live(pending[c].until, seq)
    BY <1>1 DEF GovernanceInv, TypeOK, Live
  <2> QED  BY <2>1 DEF GovernanceInv, Nominated, CloseLedger
<1> QED  BY <1>2, <1>3, <1>4 DEF GovernanceInv

LEMMA GovernanceStep == GovernanceInv /\ [Next]_vars => GovernanceInv'
<1> SUFFICES ASSUME GovernanceInv, [Next]_vars  PROVE GovernanceInv'  OBVIOUS
<1>1. CASE UNCHANGED vars
  BY <1>1 DEF vars, GovernanceInv, TypeOK, UsedStaysLive, Nominated
<1>2. CASE Next
  BY <1>2, SetAdminInv, AcceptAdminInv, UpgradeInv, TransactInv, RestoreInstanceInv,
     CloseLedgerInv DEF Next
<1> QED  BY <1>1, <1>2
-----------------------------------------------------------------------------
LEMMA GovernanceInvariant == Spec => []GovernanceInv
BY GovernanceInit, GovernanceStep, PTL DEF Spec

(* Type correctness: no nomination outlives what the host allows.          *)
THEOREM GovernanceTypeCorrect == Spec => []TypeOK
<1>1. GovernanceInv => TypeOK  BY DEF GovernanceInv
<1> QED  BY <1>1, GovernanceInvariant, PTL

(* The extension of the instance TTL in transact and in __check_auth keeps *)
(* the channel of a bundle, and the auth contract of all channels, alive   *)
(* for more than the threshold after it, through archival and restoration. *)
THEOREM GovernanceUsedStaysLive == Spec => []UsedStaysLive
<1>1. GovernanceInv => UsedStaysLive  BY DEF GovernanceInv
<1> QED  BY <1>1, GovernanceInvariant, PTL

(* set_admin and accept_admin: a contract passes only to the one that its  *)
(* present owner named last, and in time.                                  *)
THEOREM GovernanceHandover == Spec => HandoverByConsent
<1>1. GovernanceInv /\ [Next]_vars =>
        [\A c \in Contracts : owner'[c] # owner[c] =>
           /\ named[c].by = owner[c]
           /\ named[c].to = owner'[c]
           /\ seq - named[c].at < MaxTtl]_vars
  <2> SUFFICES ASSUME GovernanceInv, Next, NEW c \in Contracts, owner'[c] # owner[c]
               PROVE  /\ named[c].by = owner[c]
                      /\ named[c].to = owner'[c]
                      /\ seq - named[c].at < MaxTtl
    OBVIOUS
  <2>1. PICK d \in Contracts, by \in Admins : AcceptAdmin(d, by)
    BY DEF Next, SetAdmin, Upgrade, Transact, RestoreInstance, CloseLedger
  <2>2. d = c /\ owner'[c] = pending[c].to /\ Live(pending[c].until, seq)
    BY <2>1 DEF AcceptAdmin, GovernanceInv, TypeOK
  <2>3. /\ named[c].by = owner[c] /\ named[c].to = pending[c].to
        /\ pending[c].until = named[c].at + MaxTtl - 1
    BY <2>2 DEF GovernanceInv, Nominated
  <2>4. seq - named[c].at < MaxTtl
    <3>1. seq \in Nat /\ named[c].at \in Nat  BY DEF GovernanceInv, TypeOK, Ledgers
    <3> QED  BY <2>2, <2>3, <3>1, GovernanceAssumption DEF Live
  <2> QED  BY <2>2, <2>3, <2>4
<1> QED  BY <1>1, GovernanceInvariant, PTL DEF Spec, HandoverByConsent
=============================================================================
