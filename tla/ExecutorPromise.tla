-------------------------- MODULE ExecutorPromise ---------------------------
(***************************************************************************)
(* What the payments of the sending worker amount to, whoever feeds it:    *)
(* the mapping by which PayoutSystem and Bridge implement PayoutPromise.   *)
(***************************************************************************)
EXTENDS Executor, FiniteSets

(* A payment is a further one if an earlier one belongs to the same        *)
(* operation.                                                              *)
Further ==
  {i \in DOMAIN payouts : \E j \in 1 .. i - 1 : payouts[j].op = payouts[i].op}

Promise == INSTANCE PayoutPromise WITH
  Operation <- OpIds,
  taken     <- {p[1] : p \in issued},
  ledger    <- [i \in DOMAIN payouts |-> payouts[i].op],
  excuses   <- restarts + lostAnswers - Cardinality(Further)

(* processExecution.go:139,171: no payment is repeated without a restart   *)
(* or a lost answer of its own, whatever Redis commands fail.              *)
KeepsPromise == Promise!Spec

=============================================================================
