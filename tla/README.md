# Moonlight Soroban contracts: a TLA+ verification project

The repository holds the Soroban (Stellar) contracts of the Moonlight protocol. A *privacy
channel* keeps deposits of one asset as UTXOs: public keys with an amount. Its entry point
`transact` takes a bundle that spends UTXOs, creates others, pulls deposits in from accounts and
pushes withdrawals out to accounts, all or nothing. A *channel auth* contract decides whether a
bundle is authorized: by the owners of the spent UTXOs and by a registered provider.

This directory models the contracts in TLA+, checks the models with TLC on small instances and
proves the properties that matter most with TLAPS for all instances.

## 1. Inventory

| component | state | operations | hard behaviour |
|---|---|---|---|
| `modules/storage` | one persistent entry per UTXO (amount; 0 = spent, absent = none), its TTL | `balance`, `create`, `spend`, each with a TTL extension | archival and restoration; the record of a spent UTXO must block it for ever; `extend_ttl` is a no-op above its threshold |
| `modules/utxo-core` | the auth contract's address | `process_bundle`, `utxo_balance(s)`, standalone `create`/`spend` (exported by the test contract only), `set_auth` | writes entries one by one before it knows that the bundle balances; integer limits |
| `contracts/privacy-channel` | supply, asset and auth addresses, owner (instance); the reentrancy flag (temporary) | `transact`; views; `set_admin`, `accept_admin`, `upgrade` | calls out to the asset half-way; nested calls; rollback; signed conditions against executed effects |
| `modules/primitives` | none | `conflicts_with`, the conflict scan, duplicate checks, `hash_payload` | order-dependence, symmetry, the encoding of what is signed |
| `modules/auth` | the registered providers | `handle_utxo_auth`, `require_provider`, register, deregister | expiry at a ledger boundary, provider removed between signing and submission, several contexts in one check |
| `contracts/channel-auth` | owner, providers, channel events, instance TTL | `__check_auth`, add/remove provider, enable/disable channel, ownership, upgrade | two-step ownership, who may extend the TTL |
| `contracts/token` | balances (persistent), allowances (temporary), administrator (instance) | the token interface, `mint`, `set_admin` | transfers to oneself; two clocks on an allowance; negative amounts; archived balances |
| operation builder (`utxo-core/src/testutils`) | the bundle and the signatures collected so far | `add_spend`, `add_create`, hashes for the signers, three kinds of signatures, `build_signatures` | items added after signatures; the client's encoding against the contract's |
| `modules/errors`, `modules/helpers`, key and snapshot utilities | none | | nothing to model |

How they interact. `transact` extends the instance TTL, sets the guard, checks the operation
(`pre_process_channel_operation`), runs `process_bundle` (which asks the auth contract and then
writes the UTXO store), then calls the asset's `transfer` for each deposit and each withdrawal
with an update of the supply after each, and clears the guard. Two contracts run in the middle of
it: the auth contract and the asset. Every panic, of any of them, makes the host roll the
invocation back.

What makes each component correct: a UTXO is created once and spent once, through archival too
(store); value is conserved and the supply is the value of the unspent UTXOs (core, treasury); the
channel holds the asset for its supply (transact); the conditions attached to a bundle are what
happens, what nobody signed is worth exactly what they left, and what an owner signed is what is
attached (binding; the last holds of creates, and fails of withdrawals, whose kind is not signed:
section 3, `system_kinds`); transact is atomic and never runs
inside itself (guard). The list of hazards in `PROJECT.json` names the lines where each could go
wrong.

## 2. The modules

| module | models | notes |
|---|---|---|
| `Ttl` | the host's TTL rules | external; `Live`, `ExtendTtl`, `FreshTtl` |
| `Totals` | sums of amounts | counts units instead of folding an addition, so that conservation is first-order |
| `UtxoStore` | `modules/storage/src/lib.rs` | `utxo[u]` is what `Store::balance` returns (-1, 0 or the amount) |
| `Conditions` | `modules/primitives/src/lib.rs` | conditions as records; `ConflictsWith`, the scan, the duplicate checks |
| `ChannelOps` | `transact.rs` | the checks that read nothing but the bundle; a whole call as one step (`Accepts`, `Settlement`) |
| `PrivacyChannel` | `transact` with `process_bundle`, the treasury, the guard | uses `UtxoStore` by `INSTANCE` on the same variables |
| `ChannelPromise` | what a channel promises | the abstract specification: notes, pot, vault, one step per bundle |
| `Payload` | `hash_payload` of `modules/primitives` | the bytes that are signed, as a sequence of tokens with their size |
| `AuthCheck` | `modules/auth` | `handle_utxo_auth` and `require_provider`, as predicates of the entry, the registered providers and the ledger |
| `ChannelAuth` | `contracts/channel-auth` with the registry of `modules/auth` | `__check_auth` against the signatures that exist |
| `AuthRequest` | `calculate_auth_requirements`, the arguments of `require_auth_for_args` | what a bundle asks of the auth contract |
| `MoonlightSystem` | the contracts together | two channels, one asset, one auth contract (`ChannelAuth` by `INSTANCE`), signers, ledgers |
| `Governance` | ownership, `upgrade` and instance TTLs of both kinds of contract | one deployment: channels and the auth contract they share |
| `Token` | `contracts/token` | balances, allowances and their TTLs |
| `UtxoModule` | `modules/utxo-core` as its test contract exports it | mint, burn and bundles side by side |
| `OperationBuilder` | `utxo-core/src/testutils/operation_bundle.rs` | the client's side of an authorization |
| `MC...` | | one instance for TLC per checked module |
| `OperatorTheorems` | | facts about the operators: totals, the conflict scan, flattening, what a payload binds |
| `UtxoStoreProofs`, `PrivacyChannelProofs`, `ChannelAuthProofs`, `GovernanceProofs`, `TokenProofs`, `MoonlightSystemProofs` | | proofs about the module of that name |
| `UtxoCoreProofs` | | proofs about `OperationBuilder` and `UtxoModule`, the two models of `modules/utxo-core` |

### The store
`until[u]` is the last ledger the entry is live in. `balance` and then `spend` (or `create`) in one
ledger extend the TTL to the same ledger, so `process_bundle`'s pair of calls is one action. An
archived entry cannot be accessed (`Readable`) until the host restores it, unchanged, with a
minimal TTL. The key hash is taken to be injective: UTXOs are compared by identity.

### The channel
One action per stretch of `transact` between points where something can interfere or fail: entry
(`Transact`), `PreProcess`, `RequireAuth`, one step per spend, per create, per transfer and per
supply update, and `Exit`. What the code checks at each point has a name of its own (`PreProcessed`,
`NoUtxoTwice`, `CanSpend`, `CanCreate`, `ComesOut`, `CanPull`, `CanTransfer`), so that a property can
say that a check passes. The variables `pc, op, i, avail, snap` are the running call; `snap` is
the ledger a panic restores. While the asset has control (`AssetPhases`: from just before a
transfer to just after it), it may call `transact` or `utxo_balance`; a nested call suspends the
running one on `outer`. `Panic` is enabled at every point of a call, which covers the failing
checks of the code, refusals by the auth contract, a depositor or the asset, the resource limits
and archived entries; a nested call that panics returns control to the asset, as `try_transfer`-like
callers may, and the outer call can then go on or panic as well. The Soroban host refuses a call
into a contract that is already on the stack, so nested calls and views during a transfer do not
happen on it today. The model allows them, to show what the code's own guard is worth, and is a
superset of what the host does.

Assumptions about what is outside `src/`:
- the asset moves exactly the amount asked for, or panics (the SAC, and `contracts/token`); it has
  no clawback, and nobody but the channel moves the channel's balance. Gifts to the channel happen;
- the channel never authorizes itself as a *depositor*: `require_auth_for_args` on the current
  contract, which is no account contract, is refused by the host;
- ledgers close only between top-level invocations;
- the auth contract's verdict is a choice of the environment here; its own logic is `ChannelAuth`,
  and `MoonlightSystem` puts the two together.

The widths: `I128` is `-MaxAmount-1 .. MaxAmount`. The code's `checked_add`, `checked_sub`, and the
plain `+=`, `-=` under `overflow-checks = true` all panic outside, which is what the guards
`... \in I128` say.

### The auth contract
`CheckAuth(sigs, contexts)` is `__check_auth` for one authorization entry: `sigs` is the map the
submitter attached, `contexts` the calls it authorizes. A submitter is free to put any existing
signature under any key with any `valid_until_ledger` (`Submissions`), and makes none itself; keys
sign at any time (`Sign`), so a signature can be made long before it is used and its maker removed
in between. `HashPayload` keeps what the code writes and the order it writes it in: contract, then
creates, deposits, withdrawals and integrations, without their kinds, then the expiry. Keys (65
bytes), address strings (56) and amounts (16) follow each other untagged, so the payload also keeps
the bytes they take. A signature verifies for every payload that can be the same bytes
(`SameBytes`): the contract and the ledger have fixed places; for two lists of the same size whose
size fixes their shape (`Fixed`: fewer than nine conditions that are no creates, no keys in
integrations) equal bytes are equal tokens; two other lists of the same size are taken to have the
same bytes whatever they say, which allows more than the code does. Nine is where it ends: nine
withdrawals take the 648 bytes of eight creates.

Assumptions about what is outside `src/`:
- signature verification accepts exactly the signatures made over that message, and panics
  otherwise; SHA-256 and the host's payload of an entry are injective;
- `ownable`: the owner authorizes; a nomination is a temporary entry that lives until the last
  ledger the host allows, and is removed by its acceptance;
- the host's nonce, which makes an entry usable once, is left out: the model allows more.

### The system
`MoonlightSystem` has several channels on one asset and one auth contract. A bundle is one step,
`Accepts` and `Settlement` of `ChannelOps`; that a call of `transact`, step by step, is that
settlement or nothing is what `SettlesExactly`, `AcceptedGoesThrough` and `KeepsPromise` say of
`PrivacyChannel`. Here nothing is left to a choice of the environment: the auth contract's verdict
is `CheckAuth` on signatures that exist, and a deposit uses up an authorization that its account
gave for this channel, this amount and these conditions. Around the contracts, owners and providers
sign, signatures get lost and are made again, providers come and go, accounts move the asset, and
ledgers close. UTXO keys may be used in both channels, and a channel may pay the other.

### Governance
Both kinds of contract share the same ownership and upgrade code, so `Governance` has one set of
actions for all contracts of a deployment. A bundle extends the instance of its channel and, by way
of `__check_auth`, that of the auth contract; administration extends neither. A nomination is a
temporary entry of the library `ownable` (external), replaced by the next one.

### The token
Each operation is one step, with its reads, writes and TTL extensions in the order of the code: a
transfer is a debit and then a credit of what the debit left. An allowance is worth its amount only
up to its expiration ledger and only while its entry lives. Negative amounts are among the inputs.

### utxo-core on its own
`UtxoModule` is the trait as the test contract exports it. The loops of a call (`After`) take a
ledger that remembers whether something panicked from one element to the next, and a call that
panics has no step: its rollback is the host's and is taken for granted here, where `PrivacyChannel`
has it as a step. Incoming and outgoing amounts of a bundle are any integers of the type. `net` is history. The comment on the
trait's `spend` (`core.rs:172-177`) describes a signature over a burn payload; the function takes
none, and the model follows the function.

### The builder
Every method of `UTXOOperationBuilder` that changes it is an action, and the two hashes it hands
out are remembered, so that signatures arrive late and out of order. A hash is the message it is
made from, encoded by the same `HashPayload` and `Contexts` as the contracts use. `BuiltEntryPasses`
gives the entry that would be built to the checks of `AuthCheck`, in each ledger.

## 3. What TLC checks

| run | instance | properties |
|---|---|---|
| `store` | 2 UTXOs, amounts to 2, threshold 1, bump 3, minimal TTL 2, ledgers 0..8 | `TypeOK`, `TouchedStaysLive`, `Lifecycle` |
| `channel` | 3 UTXOs, 2 accounts, amounts to 3, about 650 operations, one ledger | `TypeOK`, `SupplyBacked`, `Solvent`, `SignedEffectsRealised`, `FeeIsResidual`, `ConditionsAgree`, `SettlesExactly`, `AcceptedGoesThrough`, `SupplyOffByPending` |
| `channel_time` | 2 UTXOs, 1 account, few operations, thresholds 0, bumps 2, ledgers 0..4 | `KeepsPromise`, `CallsStartSettled`, `TransactIsAtomic`, `GuardReleased` |
| `channel_signed` | 2 UTXOs, 2 accounts | `ExecutedEffectsAreSigned`, which fails |
| `auth` | 1 UTXO, 1 provider, 2 channels, 6 condition lists, 14 lists of contexts, 2 signatures, threshold 0, bump 2, ledgers 0..3 | `TypeOK`, `InUseStaysLive`, `SpendersConsented`, `ProviderConsented` |
| `system` | 2 channels, 1 account, 2 UTXO keys, 1 provider, 5 operations, 2 signatures at a time, ledgers 0..1 | `TypeOK`, `OwnersGetTheirOutputs`, `DepositorsGetTheirOutputs`, `EveryChannelKeepsPromise` |
| `system_kinds` | the same | `SignedWithdrawalsArePaid`, which fails |
| `governance` | 2 channels and the auth contract, 2 admins, threshold 0, bump 2, ledgers 0..3 | `TypeOK`, `UsedStaysLive`, `HandoverByConsent` |
| `token` | 2 accounts, 1 spender, amounts -1..2, ledgers 0..2 | `TypeOK`, `Conserved`, `AllowanceHonoured` |
| `utxo_module` | 3 UTXOs, vectors of up to 2 elements, amounts to 2, 2 auth contracts | `ValueAccountedFor`, `MovesOnce` |
| `builder` | 3 UTXOs, 5 condition lists, 2 spends, 1 create, 3 hashes, ledgers 0..1 | `BuiltEntryPasses`, `SpendsAgree` |
| `builder_expired` | the same | `ExpiredSignaturesRefused`, which fails |

- `SpendersConsented`: what a passing check says about the owner of every UTXO in every context,
  also one that follows a context without arguments. The owner signed for that channel, and in time.
  Where the lists are `Fixed`, the owner signed the same creates and the same targets with the same
  amounts, no more and no less. The kinds are not part of the payload: whether the owner signed a
  deposit or a withdrawal is not claimed, and what comes of that is `system_kinds`. For lists that
  are not `Fixed` nothing is claimed of their contents; two of the lists are such a pair.
- `ProviderConsented`: a provider *of this moment* signed these very contexts.
- `InUseStaysLive`: "so it cannot archive while in use" (`channel-auth/src/contract.rs:60`), made
  exact: the instance outlives a check that passed by more than the threshold.
- `TouchedStaysLive`: what a holder gains by observing a UTXO. The host extends a TTL only when no
  more than the threshold is left, so the guarantee is the threshold (29 days), not the bump amount
  (30 days).
- `Lifecycle`: absent, then unspent with a fixed amount, then spent, and never back.
- `SupplyBacked`, `Solvent`: the two books of a channel, whenever the guard is not set.
- `SignedEffectsRealised`: the conditions attached to a bundle's spends and deposits are checked
  against the *operation*, before anything is read; the property holds them against the *ledger* the
  call leaves. That these are what the owner signed is the auth contract's side.
- `FeeIsResidual`: the comment in `transact.rs:106-109` about the extras, as an equation on the
  ledger.
- `ConditionsAgree`: no two conditions of an executed bundle contradict each other, in either
  direction, although the scan looks in one.
- `CallsStartSettled`: no call starts on a half-settled ledger. Without the check in the guard this
  fails by a nested call between a transfer and the supply update.
- `GuardReleased`: `guard ~> ~guard`.
- `KeepsPromise`: `PrivacyChannel` implements `ChannelPromise` under the mapping that shows
  outsiders the ledger the outermost call started on until that call returns.
- `TransactIsAtomic`: under the same mapping, what outsiders see changes with a call by exactly the
  `Settlement` of one submitted bundle that the ledger they saw `Accepts`, or not at all, and UTXOs
  and supply never change between calls. This is the one-step bundle of `MoonlightSystem`.
- `SettlesExactly`, `AcceptedGoesThrough`: a call that returns left exactly `Settlement` of the
  ledger it started on, and a call whose bundle `Accepts` passes every check it meets on the way,
  unless an entry it spends is archived. Together they say that the loops of `transact` do what the
  one-step description of `ChannelOps` says, and refuse nothing else.
- `SupplyOffByPending`: during a transfer the UTXOs are already those the call will leave, and the
  supply differs from their value by exactly the deposits and withdrawals not counted yet, the one
  under way included.
- `OwnersGetTheirOutputs`: a UTXO leaves a channel only by an unexpired signature its owner made
  for that channel. The UTXOs that signature asks for are created in the same step, and each
  withdrawal it asks for is paid in that step, unless the bundle lists the same address and amount
  under another kind. As for `SpendersConsented`, the contents are claimed of `Fixed` lists.
  `SignedWithdrawalsArePaid` is the same without the exception, and fails.
- `DepositorsGetTheirOutputs`: the same for accounts, with authorizations that are used up.
- `EveryChannelKeepsPromise`: each of two channels implements `ChannelPromise`, whatever the other
  one does with the asset they share.
- `HandoverByConsent`: an owner is replaced only by the last nominee of the owner of that moment,
  in time. `UsedStaysLive`: bundles keep both the channel and the shared auth contract alive.
- `Conserved`: balances against what was minted and burned. `AllowanceHonoured`: an allowance is
  worth what was approved less what was used, up to its expiration and not beyond, whatever the TTL
  of its entry.
- `ValueAccountedFor`, `MovesOnce`: the store against the history of all calls, and no UTXO moved
  twice by one call.
- `BuiltEntryPasses`: an equivalence. An entry the builder agrees to build passes the auth contract
  exactly when the provider's hash was made after the last `add_spend`, nothing has expired, and
  every spend has conditions. So signatures for spends survive later additions, and a provider's
  signature does not, though the builder does not notice. "Nothing" is: nothing the checks look at,
  the providers' signatures and those of the spends; see `builder_expired`. `SpendsAgree`: no two spends contradict
  each other, in either direction.

Bounds. Three UTXOs are enough for a bundle that spends one, creates one and collides with a
third; `MaxAmount = 3` is small enough for sums to leave the integer type, which is where the
overflow paths are. The operations of `MCPrivacyChannel` include, beside valid bundles, ones that
each check of the code exists to refuse (repeated accounts, contradictory conditions, amounts of
zero, the channel as depositor or as recipient). Five ledgers with bumps of 2 let both entries and
the instance archive and be restored between calls. In `store`, `channel_time`,
`auth` and `governance` the threshold is two below the bump, so that a use can fall into the gap in which
`extend_ttl` does nothing; in the other runs it is one below, and the theorems cover every threshold
below the bump. No symmetry is used: the operations tell the accounts apart, and `channel_time` checks
a liveness property.

For the auth contract, two signatures are what one spend takes, one of the owner and one of a
provider; every pair of the signatures that can be made is tried under every key, so that signatures
for the other channel, another expiry, other conditions or other contexts all meet each check.
Requirements of several signers are checked one by one in the code, so a second UTXO adds no case.
Two condition lists, a create with eight withdrawals and an integration of nine keys, take 657 bytes
each and are taken for each other. In four ledgers signatures expire, and the instance is used in its last ledger, runs out and is restored. One
provider that is removed and registered again is a registered one and an unregistered one; a second
adds keys under which a signature does not verify. There is one admin: changes of owner, which are
the same code in both kinds of contract, are the subject of `governance`.

For the system, the five operations are a deposit, a deposit that does not do what its account asked
for, a transfer, a payment to the second channel (which, submitted there, is one to itself), and a
bundle that lists that payment as a deposit and creates a UTXO instead; signatures of the owner exist
for either channel and either operation, for the transfer with either ledger. Two signatures
at a time, lost and made again, give every pair. In `token` thresholds are 0 and bumps 1: the
smallest values with a boundary, so that three ledgers have entries live, archived, restored and run
out. `governance` has four ledgers and nominations that live for two; it has one build, since no
property depends on which build runs. `utxo_module` has amounts of which two overflow. The builder's
condition lists contain pairs that contradict each other by a create and by an integration.

Fairness. `FairSpec` adds weak fairness of `Step`, the steps of a running call: the host never
leaves an invocation half-way. There is none on starting calls, on ledgers or on the asset's
transfers. Deadlock is checked in all runs but those of the builder, whose bounds on spends, creates, hashes and
keys let a client finish.

The violations. `UnauthorizedOperation` is documented (`modules/errors/src/lib.rs:84-85`) as raised
when an executed create or withdrawal is not covered by a signed condition. `transact` checks the
converse only, and says so in a comment: extras are the provider's fee. `channel_signed` exhibits a
bundle with an unsigned create that is executed; `FeeIsResidual` says how much such extras can be
worth.

`system_kinds`: `transact.rs:66-67` says that every create or withdrawal signed by an owner "is
executed exactly", and `transact.rs:103-104` that a signer's outputs "cannot be dropped, reduced,
amount-changed, or redirected". The check behind it (`assert_signed_effects_are_executed`) takes the
conditions of the bundle as submitted, and the signature does not say of which kind they are. A
bundle that lists a signed withdrawal as a deposit of the same address and amount passes the auth
contract; no deposit is bound to be executed, so the withdrawal is not made and its value is free for
other outputs. `stride.md:94` (PC-T-4) rests on the same step. For depositors there is no such case:
their authorization is of the condition list itself (`DepositorsGetTheirOutputs`). A tag of the kind
(and a count) in `hash_payload` would make the payload bind the kinds.

`builder_expired`: CA-3 (`arch.md:281`) says that any expired signature is rejected. The code looks at
the signatures under provider keys and at those of the spends asked for; an entry with an expired one
under a plain Ed25519 key passes. Nothing is authorized by that signature.

Two more places where a text and the code differ have no run that fails:
- `arch.md:119` and `static-analysis.md:237` have a context without arguments end the check with
  `Ok(())`. The code passes over that context alone (`modules/auth/src/core.rs:84-90`, MOON-03), and
  refuses an entry that the documents accept. They describe the code before that change. What they
  describe is the mutant `HandleUtxoAuthReturns`, under which `SpendersConsented` fails in `auth`.
- "bump its TTL on every mutating entrypoint" (`privacy-channel/src/contract.rs:27`), while
  `set_admin`, `accept_admin` and `upgrade` do not, as `Governance` has it: a channel whose owner is
  changed in the last ledger of its instance archives in the next. `UsedStaysLive` is what holds.

## 4. What is proved

Every safety property of section 3 that a run shows to hold is also a theorem. The theorems hold for
every finite set of UTXOs, every set of accounts, keys, contexts and condition lists, every set of
well-typed operations, vectors of any length, every integer width and every TTL parameters with
threshold < bump: the named assumptions in the modules, which TLC evaluates on each run.

| module | theorems |
|---|---|
| `OperatorTheorems` | `ConflictsSymmetric`, `ScanFindsEveryConflict`, `ScanIgnoresOrder`, `SizeFixesShape`, `PayloadBinds`, `KindsAreNotSigned` |
| `UtxoStoreProofs` | `StoreTypeCorrect`, `StoreTouchedStaysLive`, `StoreLifecycle` |
| `PrivacyChannelProofs` | `ChannelTypeCorrect`, `ChannelSupplyBacked`, `ChannelSolvent`, `ChannelCallsStartSettled`, `ChannelKeepsPromise`, `ChannelSettlesExactly`, `ChannelConditionsAgree`, `ChannelSignedEffectsRealised`, `ChannelFeeIsResidual`, `ChannelAcceptedGoesThrough`, `ChannelSupplyOffByPending`, `ChannelCallsEnd`, `ChannelIsAtomic` |
| `ChannelAuthProofs` | `AuthTypeCorrect`, `AuthInUseStaysLive`, `AuthProviderConsented`, `AuthSpendersConsented` |
| `GovernanceProofs` | `GovernanceTypeCorrect`, `GovernanceUsedStaysLive`, `GovernanceHandover` |
| `TokenProofs` | `TokenTypeCorrect`, `TokenConserved`, `TokenAllowanceHonoured` |
| `MoonlightSystemProofs` | `SystemTypeCorrect`, `SystemKeepsPromises`, `SystemServesDepositors`, `SystemServesOwners` |
| `UtxoCoreProofs` | `BuilderSpendsAgree`, `BuilderEntryPasses`, `CoreValueAccountedFor`, `CoreMovesOnce` |

**The channel's books.** `SupplyBacked` and `Solvent` say nothing during a call, so they are not
inductive. `Inv` adds:
- `Accounting`: by how much the UTXOs and the supply differ, phase by phase. In `process_bundle`,
  UTXOs + `avail` = supply + all deposits; in the deposit loop, UTXOs + all withdrawals = supply +
  deposits still to come; in the withdraw loop, UTXOs + withdrawals still to come = supply. The
  balance check is the step from the first equation to the second;
- `Holdings`: the same for the channel's balance and the supply, around each transfer;
- `Shape`: the guard is set exactly during a call, hence calls do not nest; the snapshot is a
  ledger on which both books agreed, so a panic restores one; amounts are positive after
  `PreProcess`.

For the refinement, `Since` adds what the running call has done relative to its snapshot: each UTXO
has moved forward at most once (spends come before creates, and a create needs an absent record),
and balance minus supply has not shrunk. Then `Exit` is a settlement, a foreign transfer a gift, and
every other step a stutter.

**A call does what its bundle says.** `SettlesExactly` compares the ledger at the end with a
one-step description, so its invariant says how far the call has come, by the position `i` in the
current vector: `Checked`, the checks the operation has passed; `Booked`, the UTXOs of the items
before `i` are as they should be and all the others as in `snap`; `PaidUp`, the balance of each
address is that of `snap` less and plus what the items before `i` took and gave. Accounts do not
repeat, which `VerifyExternalOperations` checked, so an address is in at most one item of each
vector. `SignedEffectsRealised`, `FeeIsResidual` and `ConditionsAgree` follow from the same
invariant: for the first two, from `Booked` and `PaidUp` at `Exit` and the covering check of
`PreProcess`; for the third, from `ScanFindsEveryConflict` and the elements of the flattened list.

**And refuses nothing it could settle.** `ChannelAcceptedGoesThrough` is the converse. `Accepts` speaks
of whole sums on the ledger the call started on, the checks of running totals on the ledger as it is
now. `SpendPasses`, `CreatePasses`, `PullPasses` and `PushPasses` connect them, one per loop: a UTXO
that the bundle names once is still as in `snap` when its turn comes (`Booked`); a running total is
the final one less what is still to come, hence no larger; an account is named once, so nothing has
been moved for it before its turn (`PaidFirstNone`); and what is still to be paid out is part of the
supply (`Accounting`), which the channel holds (`Holdings`). `ChannelSupplyOffByPending` reads the
UTXOs off `Booked` and the supply off `Accounting`.

**A call ends.** `StepsLeft` counts what a call has still to do. By `ChannelCallsEnd` every step of a
running call ends it or makes that number smaller, and what the asset does meanwhile does not move
the call: the guard refuses a nested one. The positions are bounded by `Booked`, `PaidUp` and `Shape`. With
weak fairness of `Step` this is why `GuardReleased` holds; the step from the one to the other is
TLC's, on its instance.

**A call is one step for everybody else.** `ChannelIsAtomic` puts these together. The ledger that
outsiders see is `snap` during a call (`CommittedIs`); a call that returns leaves the settlement of
`snap` (`ChannelSettlesExactly`) for an operation that was submitted (`Submitted`), and `Settlement`
and `Accepts` read nothing of a ledger but UTXOs, supply and balances (`SameLedger`); a panic leaves
`snap`; no other step ends a call or touches `snap`.

**What a signature binds.** `hash_payload` regroups the conditions by kind and writes neither kinds
nor numbers, so a payload does not determine the conditions. Two steps lead from equal bytes to what
they do determine. First, where tokens end: lists without keys in integrations take 81 bytes for
every create and 72 for every other condition, and with fewer than nine of the latter the size has
one such decomposition (`SizeFixesShape`), so two `Fixed` lists with the same bytes are cut at the
same places and have the same tokens. That equal bytes cut at equal places are equal tokens is how
`SameBytes` is defined; the theorem is why it may be. Second, `PayloadBinds`: equal tokens name the
same targets with the same amounts, in both directions. In the sequence of tokens an amount ends each
condition, and nothing but an amount is an integer; a target is *named* with an amount when a piece
that begins with the one ends with the other (`Named`). Pieces do not straddle the end of a closed
sequence, so concatenation and flattening name exactly what their parts name (`NamedConcat`,
`FlattenNamed`), and a condition names its target and its amount (`TokensNamed`). Keys of UTXOs,
addresses and integers being different things (`CondListsAssumption`, `IntentsAssumption`), what is
named like a create is that create. Addresses are the targets of three kinds, and there the argument
ends: by `KindsAreNotSigned` a withdrawal and a deposit have one payload.

`AuthSpendersConsented` and `AuthProviderConsented` add to it that every signature in existence was
made by the key it names over what it says (`MadeBySigners`). `SystemServesOwners` runs the whole
chain: a UTXO that leaves is in the spend vector; `transact` asked the auth contract for its owner
with its conditions; the auth contract verified a signature under that key (`Signed` says whose
intent it is); the payload binds the owner's creates, targets and amounts to the bundle's conditions;
and `transact`'s checks put every create of those conditions in the ledger, and pay every condition
that is still a withdrawal there (`WithdrawsPaid`).

**The system.** `Books` is `SupplyBacked` and `Solvent` for each channel at once; that a supply is an
amount, part of `TypeOK`, rests on it. A bundle of one channel leaves the UTXOs of the others alone
and their balances no smaller, so each channel sees a settlement, a gift or nothing.

**Governance and token.** `GovernanceHandover` needs that a live nomination was made by the owner of
this moment, names the pending successor and counts its lifetime from when it was made
(`Nominated`): a new nomination replaces the old, and accepting one removes it.
`TokenAllowanceHonoured` needs that every allowance has the amount and the expiration that the
history of approvals and uses gives it, and that one with a positive amount lives at least until
it expires (`Granted`).

**The builder.** `BuilderInv`: no key is spent twice, every hash handed out for a UTXO is the payload
of its one spend, and every signature lies under its maker's key. A spend is never changed, so such
a signature is never stale; a provider's may be, which is why the theorem is an equivalence.

**Loops and flattening.** `FlattenSeq` and the loops of `UtxoModule` are recursive functions, whose
existence is a proof of its own (`FlattenExists`, `LoopExists`). TLAPS cannot instantiate an
induction principle with a predicate; `Induction` takes a *set* of numbers instead and goes by its
least element (`LeastElement`), and every induction over a vector here is one over the set of
positions up to which a fact holds.

## 5. What is only model-checked

- `GuardReleased`: liveness under fairness is outside TLAPS 1.4.5. Its safety part,
  `ChannelCallsEnd`, is proved.
- that `Total`, the number of units, is the sum of the amounts, against a fold, in `MCUtxoStore`;
  `OperatorTheorems` proves the equations of a sum (`TotalEmpty`, `TotalAdd`, `TotalUnion`).
- that the code disagrees with its comments and documents: the three runs that expect a violation.
  Of `system_kinds`, the step that makes it possible is a theorem, `KindsAreNotSigned`.

## 6. What is not modelled, and the plan

What is left to prove: `ChannelIsAtomic` and `ChannelAcceptedGoesThrough` say that the step-by-step
call of `PrivacyChannel` and the one-step bundle of `MoonlightSystem` do the same to one channel's
ledger; that `MoonlightSystem` with every bundle replaced by such a call refines it, for several
channels and the auth contract together, is not stated.
`PayloadBinds` says nothing of lists that are not `Fixed`: nine or more deposits, withdrawals and
integrations, or an integration with keys. For those, what a signature binds depends on the values of
the bytes (65 arbitrary bytes of a key against the characters of an address), which are not modelled.

Not modelled:
- events and error codes: every panic is one outcome, and no property is about an event;
- key hashing (`Store::utxo_key`) and the values of the bytes of a payload: keys and tokens are
  compared by identity, and of the bytes only the number is kept;
- the token's metadata, written once by its constructor, and views that read a constant;
- `enable_channel` and `disable_channel`: they check the owner, publish an event and keep no state,
  and nothing reads it;
- `modules/helpers`: parsing of addresses, generation of keys and snapshots of test environments;
- what a new build does after `upgrade`: builds are of this source;
- several calls in one transaction are separate calls here.
