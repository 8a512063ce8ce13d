---------------------------- MODULE MCEvmIntake ----------------------------
EXTENDS EvmIntakeInvariants, MCShared

CONSTANTS b1, e0, e1, hb, h0, h1, o1

(* Every deposit in a transaction of its own. *)
MCSourceTx ==
  [d \in Deposits |-> CASE d = b1 -> hb [] d = e0 -> h0 [] d = e1 -> h1]

(* A forward payment of a BGL deposit and a returned WBGL deposit. *)
Forward == [id |-> o1, status |-> "executing", deposit |-> b1, destTx |-> 1]
Refund  == [id |-> o1, status |-> "returning", deposit |-> e0, destTx |-> 1]

One    == {Forward}
Either == {Forward, Refund}

MCSymmetry == Permutations(OpIds \ {o1})

=============================================================================
