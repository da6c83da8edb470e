------------------------- MODULE MCMoonlightSystem -------------------------
(* MoonlightSystem with two channels, the second of which is paid by the   *)
(* first, one account and one provider, for TLC.                           *)
EXTENDS MoonlightSystem

CONSTANTS alice, u1, u2, c1, c2

MCBal == [a \in Addresses |-> IF a = alice THEN 2 ELSE 0]

Op(s, c, d, w) == [spend |-> s, create |-> c, deposit |-> d, withdraw |-> w]

(* A deposit for u1, and the same deposit spent on u2 instead, which the   *)
(* account did not ask for; a transfer; a withdrawal to the second         *)
(* channel, which in the second channel is one to itself; and a bundle     *)
(* that lists a deposit it does not make, and creates u2.                  *)
MCOps ==
  LET deposit(u) ==
        Op(<<>>, <<[utxo |-> u, amount |-> 1]>>,
           <<[addr |-> alice, amount |-> 1, conds |-> <<Create(u1, 1)>>]>>, <<>>)
  IN  {deposit(u1), deposit(u2),
       Op(<<[utxo |-> u1, conds |-> <<Create(u2, 1)>>]>>, <<[utxo |-> u2, amount |-> 1]>>,
          <<>>, <<>>),
       Op(<<[utxo |-> u1, conds |-> <<ExtDeposit(c2, 1)>>]>>, <<[utxo |-> u2, amount |-> 1]>>,
          <<>>, <<>>),
       Op(<<[utxo |-> u1, conds |-> <<ExtWithdraw(c2, 1)>>]>>, <<>>, <<>>,
          <<[addr |-> c2, amount |-> 1, conds |-> <<>>]>>)}

(* The owner of u1 signs the transfer for both channels and either ledger, *)
(* and the withdrawal for both channels; the owner of u2 also signs.       *)
MCIntents ==
  [utxo : {u1},
   w : [contract : Channels, conds : {<<Create(u2, 1)>>}, until : 0 .. MaxLedger]
       \cup [contract : Channels, conds : {<<ExtWithdraw(c2, 1)>>}, until : {MaxLedger}]]
  \cup {[utxo |-> u2, w |-> [contract |-> c1, conds |-> <<Create(u2, 1)>>, until |-> MaxLedger]]}
=============================================================================
