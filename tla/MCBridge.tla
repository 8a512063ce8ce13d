------------------------------ MODULE MCBridge ------------------------------
EXTENDS BridgeInvariants, MCShared

CONSTANTS b1, e1, h1, h2

(* Every deposit in a transaction of its own. *)
MCSourceTx == [d \in Deposits |-> IF d = b1 THEN h1 ELSE h2]

MCSymmetry == Permutations(OpIds)

=============================================================================
