------------------------------ MODULE MCShared ------------------------------
(* Values of the bound SearchFirst for the model-checking modules. *)
EXTENDS Integers, Sequences

(* Every search order a Go map may produce. *)
AnyOrder == {}

(* A single one: the order of config.RedisStatusSets. *)
StatusList == <<"pending", "failed", "executing", "success",
                "returning", "returnfail", "returnsuccess">>

OneOrder ==
  {<<StatusList[i], StatusList[j]>> :
     <<i, j>> \in {p \in (1 .. 7) \X (1 .. 7) : p[1] < p[2]}}

=============================================================================
