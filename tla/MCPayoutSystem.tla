--------------------------- MODULE MCPayoutSystem ---------------------------
EXTENDS PayoutInvariants, MCShared, TLC

CONSTANTS b1, e1, h1, h2

(* One deposit in each direction, each in a transaction of its own. *)
MCSourceTx == (b1 :> h1) @@ (e1 :> h2)

MCSymmetry == Permutations(OpIds)

=============================================================================
