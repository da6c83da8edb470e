------------------------------ MODULE Payload ------------------------------
(***************************************************************************)
(* hash_payload of modules/primitives/src/lib.rs: what the owner of a UTXO *)
(* signs.  The conditions are regrouped by kind, and neither their kinds   *)
(* nor their number is written: keys, addresses and amounts follow each    *)
(* other untagged.  A payload is its contract, its last ledger, the tokens *)
(* written between them, and the bytes that these take.  SHA-256           *)
(* (external) is taken to be injective.  HashPayloadAnywhere is a slip the *)
(* code could have made.                                                   *)
(***************************************************************************)
EXTENDS Conditions, FiniteSets

(* The keys of the signatures of a bundle.                                 *)
P256(u) == [kind |-> "P256", pk |-> u]
Provider(p) == [kind |-> "Provider", pk |-> p]

Tokens(c) ==
  IF c.kind = "ExtIntegration"
  THEN <<c.target>> \o c.utxos \o <<c.amount>>
  ELSE <<c.target, c.amount>>

(* The buffer of one kind, to which the loop over the conditions appends.  *)
Group(conds, kind) ==
  FlattenSeq([k \in DOMAIN conds |-> IF conds[k].kind = kind THEN Tokens(conds[k]) ELSE <<>>])

Buffers(conds) ==
     Group(conds, "Create") \o Group(conds, "ExtDeposit")
  \o Group(conds, "ExtWithdraw") \o Group(conds, "ExtIntegration")

(* Where in the list the creates, the other conditions, and the UTXO keys  *)
(* of integrations are.                                                    *)
CreatesAt(conds) == {k \in DOMAIN conds : conds[k].kind = "Create"}
OthersAt(conds) == DOMAIN conds \ CreatesAt(conds)
KeysAt(conds) ==
  UNION {{k} \X DOMAIN conds[k].utxos : k \in {j \in DOMAIN conds : conds[j].kind = "ExtIntegration"}}

(* A key has 65 bytes, an address 56 (its string), an amount 16.           *)
Size(conds) ==
    (65 + 16) * Cardinality(CreatesAt(conds)) + (56 + 16) * Cardinality(OthersAt(conds))
  + 65 * Cardinality(KeysAt(conds))

(* Lists of which the size alone says where one token ends and the next    *)
(* begins (SizeFixesShape in OperatorTheorems).                            *)
Fixed(conds) == Cardinality(OthersAt(conds)) < 9 /\ KeysAt(conds) = {}

HashPayloadAnywhere(conds, until, contract) ==
  [contract |-> "any", until |-> until,
   tokens |-> Buffers(conds), size |-> Size(conds), fixed |-> Fixed(conds)]

HashPayload(conds, until, contract) ==
  [contract |-> contract, until |-> until,
   tokens |-> Buffers(conds), size |-> Size(conds), fixed |-> Fixed(conds)]

(* Whether two payloads can be the same bytes.  The contract (56 bytes)    *)
(* and the ledger (4) have their places.  Where the tokens have theirs     *)
(* too, equal bytes are equal tokens; the bytes of other lists of the same *)
(* size may be equal whatever they list.                                   *)
SameBytes(m, n) ==
  /\ m.contract = n.contract /\ m.until = n.until /\ m.size = n.size
  /\ m.fixed /\ n.fixed => m.tokens = n.tokens
=============================================================================
