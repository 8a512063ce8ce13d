------------------------- MODULE ExecutorInvariants -------------------------
(***************************************************************************)
(* The parts of an inductive invariant that are about the sending worker   *)
(* and the store alone, whoever else uses the store: PayoutInvariants and  *)
(* BridgeInvariants build on them.                                         *)
(***************************************************************************)
EXTENDS ExecutorPromise

Writing(c) == c.cmd \in {"srem", "del", "set", "sadd"}

PendingKey(id) == <<"pending", id>>

IssuedIds == {p[1] : p \in issued}

(* A record is stored under its own status and id. *)
Filed ==
  \A k \in Keys :
    records[k] # NoOp => records[k].status = k[1] /\ records[k].id = k[2]

(* An operation that a scanner created.                                    *)
IsIssued(o) == o # NoOp => <<o.id, o.deposit>> \in issued

(* What the worker is waiting for when it is inside the store. *)
ExecutorAgrees ==
  LET c == client[Exec]
  IN  /\ pc \in {"poll", "address", "forward", "return", "sender", "exited"}
           => c = Idle
      /\ pc \in {"poll", "fetch", "exited"} => op = NoOp
      /\ pc = "fetch" =>
           /\ c.cmd \in {"sscan", "get", "ok", "err"}
           /\ c.todo \subseteq {"pending"}
           /\ \A k \in c.keys : k[1] = "pending"
           /\ ~ workerShutdown
      /\ pc \in {"mark", "saved"} =>
           /\ Writing(c) \/ c.cmd \in {"ok", "err"}
           /\ Writing(c) => c.op = op /\ c.prev = "pending"
           /\ c.keys = {}
           /\ op.status # "pending"

(* From SREM on, the operation being saved is no longer pending. *)
Moved ==
  /\ pc \in {"mark", "saved"}
  /\ client[Exec].cmd \in {"del", "set", "sadd", "ok"}
  => PendingKey(op.id) \notin indexed

(* The worker cannot come by operation id any more. *)
Closed(id) ==
  /\ PendingKey(id) \notin indexed \union client[Exec].keys
  /\ pc = "fetch" /\ client[Exec].op # NoOp => client[Exec].op.id # id

Handling == pc \in {"address", "mark", "forward", "return", "sender"}

(***************************************************************************)
(* What is owed to faults.  A paid operation that the worker can still     *)
(* come by may be paid again.  At most one such operation is not the       *)
(* result of a fault already met: the one last paid, while it is being     *)
(* saved or once its saving failed and the worker stops.  Only a restart   *)
(* can bring the worker back to it.                                        *)
(***************************************************************************)
PaidIds == {payouts[i].op : i \in DOMAIN payouts}

Payable(id) == ~ Closed(id) \/ (Handling /\ op.id = id)

BeingSettled(id) ==
  /\ payouts # <<>> /\ payouts[Len(payouts)].op = id
  /\ \/ pc = "saved" /\ op.id = id
     \/ pc \in {"poll", "exited"} /\ workerShutdown

Debts == {id \in PaidIds : Payable(id) /\ ~ BeingSettled(id)}

(* "emergency exit to avoid looping" (processExecution.go:139,176,255):    *)
(* every further payment made, and every one that may still come without   *)
(* another restart, has a restart or a lost answer of its own.             *)
WithinExcuses ==
  Cardinality(Further) + Cardinality(Debts) <= restarts + lostAnswers

=============================================================================
