----------------------------- MODULE MCRouting ------------------------------
EXTENDS RoutingInvariants, TLC

CONSTANTS w1, w2

(* "sol" is a chain that the handlers refuse. *)
MCWallets    == {w1, w2}
MCChainNames == {"eth", "bnb", "sol"}

(* Up to what Bits leaves two bits to spare for, as the code has it: every *)
(* eighth, among them 57, some more that binary fractions miss on either   *)
(* side, and the largest.                                                  *)
MCDepositSats == {n \in 1 .. 238 : n % 8 = 1} \union {29, 115, 150, 238}

Symmetry == Permutations(MCWallets)
=============================================================================
