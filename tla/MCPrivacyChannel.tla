-------------------------- MODULE MCPrivacyChannel --------------------------
(***************************************************************************)
(* PrivacyChannel with two accounts. AllOps is for three UTXOs and amounts *)
(* up to 3 (the i128::MAX of that instance, so that totals overflow), in   *)
(* a single ledger: beside the bundles a client would build, it has        *)
(* operations that each check of transact exists to refuse.  FewOps is for *)
(* two UTXOs over several ledgers, in which entries and the instance       *)
(* archive and are restored.                                               *)
(***************************************************************************)
EXTENDS PrivacyChannel

CONSTANTS alice, bob

MCBal == [a \in Addresses |-> IF a = Channel THEN 0 ELSE IF a = alice THEN 2 ELSE 1]

Op(s, c, d, w) == [spend |-> s, create |-> c, deposit |-> d, withdraw |-> w]
In(u, conds) == [utxo |-> u, conds |-> conds]
Out(u, a) == [utxo |-> u, amount |-> a]
Ext(addr, a, conds) == [addr |-> addr, amount |-> a, conds |-> conds]

One == {<<Out(u, a)>> : u \in Utxos, a \in 1 .. 2}
Two == {<<Out(u, 1), Out(v, a)>> : u, v \in Utxos, a \in 1 .. 2}

(* The conditions that sign for all of the outputs.                        *)
Signed(outs) == [k \in DOMAIN outs |-> Create(outs[k].utxo, outs[k].amount)]

Deposits ==
  UNION {{Op(<<>>, outs, <<Ext(alice, a, conds)>>, <<>>) :
            a \in 1 .. 3, conds \in {<<>>, Signed(outs)}} : outs \in One \cup Two}

Transfers ==
  UNION {{Op(<<In(u, conds)>>, outs, <<>>, <<>>) :
            u \in Utxos, conds \in {<<>>, Signed(outs)}} : outs \in One \cup Two}
  \cup
  UNION {{Op(<<In(u, Signed(outs)), In(v, Signed(outs))>>, outs, <<>>, <<>>) :
            u, v \in Utxos} : outs \in One}

(* Withdrawals to the account and to the channel itself, with change.      *)
Withdrawals ==
  {Op(<<In(u, conds)>>, outs, <<>>, <<Ext(to, a, <<>>)>>) :
     u \in Utxos, outs \in {<<>>} \cup One, to \in Addresses, a \in 1 .. 2,
     conds \in {<<ExtWithdraw(alice, 1)>>, <<>>}}

(* A deposit on top of a spend, and a deposit and a withdrawal of the same *)
(* account in one bundle, with the same conditions and with others; two    *)
(* depositors; two withdrawals.                                            *)
Mixed ==
  {Op(<<In(u, <<>>)>>, <<Out(v, 1)>>, <<Ext(alice, 2, <<>>)>>, <<>>) : u, v \in Utxos}
  \cup
  UNION {{Op(<<>>, outs, <<Ext(alice, 2, Signed(outs))>>, <<Ext(alice, 1, conds)>>) :
            conds \in {<<>>, Signed(outs)}} : outs \in One}
  \cup
  {Op(<<>>, <<Out(u, 2)>>, <<Ext(alice, 1, <<>>), Ext(bob, a, <<Create(u, 2)>>)>>, <<>>) :
     u \in Utxos, a \in 1 .. 2}
  \cup
  {Op(<<In(u, <<ExtWithdraw(bob, 1)>>)>>, <<>>, <<>>, <<Ext(to, 1, <<>>), Ext(bob, 1, <<>>)>>) :
     u \in Utxos, to \in Addresses}

(* What the checks refuse: amounts that are not positive, repeated         *)
(* accounts, conditions that contradict each other or that nothing         *)
(* executes, and the channel as a depositor.                               *)
Refused ==
  UNION {{Op(<<>>, <<Out(u, 1)>>, <<Ext(alice, 0, <<>>), Ext(Channel, 1, <<>>)>>, <<>>),
          Op(<<>>, <<Out(u, 1)>>, <<Ext(Channel, 1, <<>>)>>, <<>>),
          Op(<<>>, <<Out(u, 2)>>, <<Ext(alice, 1, <<>>), Ext(alice, 1, <<>>)>>, <<>>),
          Op(<<In(u, <<Create(u, 1)>>)>>, <<>>, <<>>, <<Ext(alice, 1, <<>>)>>),
          Op(<<In(u, <<ExtDeposit(alice, 1)>>)>>, <<>>, <<>>,
             <<Ext(alice, 1, <<ExtDeposit(alice, 2)>>)>>),
          Op(<<In(u, <<ExtIntegration(alice, <<u>>, 1)>>)>>, <<>>, <<>>,
             <<Ext(Channel, 1, <<ExtIntegration(Channel, <<u>>, 1)>>)>>),
          Op(<<>>, <<Out(u, 1)>>, <<Ext(alice, 1, <<ExtWithdraw(alice, 1)>>)>>, <<>>)} :
         u \in Utxos}

AllOps == Deposits \cup Transfers \cup Withdrawals \cup Mixed \cup Refused

(* Enough operations for UTXOs to come and go while ledgers pass.          *)
FewOps ==
  UNION {{Op(<<>>, <<Out(u, 1)>>, <<Ext(alice, 1, Signed(<<Out(u, 1)>>))>>, <<>>),
          Op(<<>>, <<Out(u, 1)>>, <<Ext(alice, 2, Signed(<<Out(u, 1)>>))>>,
             <<Ext(Channel, 1, <<>>)>>),
          Op(<<In(u, <<ExtWithdraw(alice, 1)>>)>>, <<>>, <<>>, <<Ext(alice, 1, <<>>)>>)} :
         u \in Utxos}
  \cup {Op(<<In(u, <<>>)>>, <<Out(v, 1)>>, <<>>, <<>>) : u, v \in Utxos}
=============================================================================
