--------------------------- MODULE MCChannelAuth ---------------------------
(* An instance of ChannelAuth for TLC.                                     *)
EXTENDS ChannelAuth, TLC

CONSTANTS u1, u2, alice, p1, chan, other

(* The last two are of the same size, 657 bytes, and of different shapes.  *)
MCCondLists ==
  {<<>>, <<Create(u2, 1)>>, <<ExtDeposit(alice, 1)>>, <<ExtWithdraw(alice, 1)>>,
   [k \in 1 .. 8 |-> ExtWithdraw(alice, 1)] \o <<Create(u2, 1)>>,
   <<ExtIntegration(alice, [k \in 1 .. 9 |-> u2], 1)>>}

Asks(c, reqs) == [kind |-> "contract", contract |-> c, arg |-> "reqs", reqs |-> reqs]
Bare == [kind |-> "contract", contract |-> chan, arg |-> "none", reqs |-> <<>>]
Spend(u, conds) == P256(u) :> conds

(* A spend, of any conditions and in either channel; a bare context before *)
(* and after one; spends in two channels; a provider among the signers;    *)
(* and the contexts that are refused.                                      *)
MCChecks ==
       {<<Asks(chan, Spend(u1, conds))>> : conds \in MCCondLists}
  \cup {<<Bare>>,
        <<Bare, Asks(chan, Spend(u1, <<Create(u2, 1)>>))>>,
        <<Asks(chan, Spend(u1, <<Create(u2, 1)>>)), Bare>>,
        <<Asks(chan, Spend(u1, <<Create(u2, 1)>>)),
          Asks(other, Spend(u1, <<Create(u2, 1)>>))>>,
        <<Asks(other, Spend(u1, <<Create(u2, 1)>>))>>,
        <<Asks(chan, Spend(u1, <<Create(u2, 1)>>) @@ Provider(p1) :> <<Create(u2, 1)>>)>>,
        <<[Bare EXCEPT !.arg = "bad"]>>,
        <<[Bare EXCEPT !.kind = "other"]>>}
=============================================================================
