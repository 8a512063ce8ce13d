---------------------------- MODULE MCBglIntake ----------------------------
EXTENDS BglIntakeInvariants, MCShared, TLC

CONSTANTS b1, b2, b3, h1, h2

(* The first two deposits are outputs of one transaction. *)
MCSourceTx == [d \in Deposits |-> IF d = b3 THEN h2 ELSE h1]

MCSymmetry == Permutations(OpIds) \union Permutations({b1, b2})

=============================================================================
