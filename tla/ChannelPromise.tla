--------------------------- MODULE ChannelPromise ---------------------------
(***************************************************************************)
(* What a privacy channel promises its users, with no trace of how         *)
(* transact does it: notes that are created once and spent once, a pot     *)
(* that is exactly the value of the unspent notes, and a vault of the      *)
(* asset that pays for the pot.  Everything changes in one step or not at  *)
(* all.                                                                    *)
(***************************************************************************)
EXTENDS Totals

CONSTANTS Notes,          \* the notes, a finite set
          InitialVault    \* what the vault holds on the first day

VARIABLES note, pot, vault

vars == <<note, pot, vault>>

Init ==
  /\ note = [n \in Notes |-> -1]
  /\ pot = 0
  /\ vault = InitialVault

(* A note is absent, then holds its amount, then is spent for good.        *)
Forward(before, after) ==
  \/ after = before
  \/ before = -1 /\ after > 0
  \/ before > 0 /\ after = 0

(* A bundle: notes move forward, the pot follows them, and the vault       *)
(* receives at least what the pot gains and pays at most what it loses.    *)
Settle ==
  /\ note' \in [Notes -> -1 .. MaxAmount]
  /\ \A n \in Notes : Forward(note[n], note'[n])
  /\ pot' = Total(note', Notes)
  /\ vault' \in 0 .. MaxAmount
  /\ vault' - vault >= pot' - pot

(* Anybody may give to the vault.                                          *)
Gift ==
  /\ vault' \in vault .. MaxAmount
  /\ UNCHANGED <<note, pot>>

Next == Settle \/ Gift

Spec == Init /\ [][Next]_vars
=============================================================================
