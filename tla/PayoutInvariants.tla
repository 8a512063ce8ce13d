-------------------------- MODULE PayoutInvariants --------------------------
(***************************************************************************)
(* The inductive invariant behind the safety properties of PayoutSystem,   *)
(* in named parts.  TLC checks it on small instances (MCPayoutSystem),     *)
(* PayoutSystemProofs proves it.                                           *)
(***************************************************************************)
EXTENDS PayoutSystem, ExecutorInvariants

(* Every copy of an operation, in Redis, in a goroutine or in a payment,   *)
(* goes back to one that a scanner created, and an id to one deposit.      *)
Traced ==
  /\ \A p, q \in issued : p[1] = q[1] => p = q
  /\ \A k \in Keys : IsIssued(records[k])
  /\ IsIssued(op)
  /\ \A w \in Workers : IsIssued(client[w].op)
  /\ \A k \in indexed \union client[Exec].keys : k[2] \in IssuedIds
  /\ \A i \in DOMAIN payouts : <<payouts[i].op, payouts[i].deposit>> \in issued

(* An operation the scanner has not finished storing is known to nobody. *)
Untouched(id) ==
  /\ \A k \in indexed \union client[Exec].keys : k[2] # id
  /\ op # NoOp => op.id # id
  /\ client[Exec].op # NoOp => client[Exec].op.id # id
  /\ PayoutsOf(id) = {}

ScannerAgrees ==
  LET c == client[Scanner]
  IN  /\ c.cmd \in {"set", "sadd", "ok", "err"}
      /\ c.cmd \in {"set", "sadd"} =>
           c.op.status = "pending" /\ Untouched(c.op.id)

(* SADD comes after SET, and nobody deletes the record in between. *)
SetBeforeAdd ==
  \A w \in {Exec, Scanner} :
    client[w].cmd = "sadd" =>
      records[<<client[w].op.status, client[w].op.id>>] # NoOp

StoreInv ==
  /\ Filed /\ Traced
  /\ ExecutorAgrees /\ ScannerAgrees
  /\ IndexedHaveRecords /\ SetBeforeAdd /\ Moved

(* One process lifetime: the operation at hand is unpaid, and one that was *)
(* paid is closed unless it is being saved or the worker is about to stop. *)
PaidInRun(i) == payouts[i].run = restarts

RunInv ==
  /\ \A i \in DOMAIN payouts : payouts[i].run <= restarts
  /\ lostAnswers = 0 =>
       /\ \A i, j \in DOMAIN payouts :
            payouts[i].op = payouts[j].op /\ payouts[i].run = payouts[j].run
              => i = j
       /\ \A i \in DOMAIN payouts :
            PaidInRun(i) =>
              /\ Handling => payouts[i].op # op.id
              /\ \/ workerShutdown
                 \/ pc = "saved" /\ payouts[i].op = op.id
                 \/ Closed(payouts[i].op)

(* All lifetimes: a BGL deposit is closed before it is paid. *)
CrashInv ==
  redisErrors = 0 /\ lostAnswers = 0 =>
    /\ client[Exec].cmd = "err" => pc = "fetch"
    /\ pc \in {"forward", "return", "sender"} /\ op.deposit \in BGLDeposits
         => PendingKey(op.id) \notin indexed
    /\ \A i \in DOMAIN payouts :
         payouts[i].deposit \in BGLDeposits =>
           /\ Closed(payouts[i].op)
           /\ Handling => payouts[i].op # op.id
           /\ \A j \in DOMAIN payouts : payouts[j].op = payouts[i].op => j = i

(* Inductive: it holds initially and every step preserves it, so the store *)
(* never dangles and no operation is paid twice (PayoutSystemProofs).      *)
IInv == TypeOK /\ StoreInv /\ RunInv /\ CrashInv

(***************************************************************************)
(* What the records tell.  Each copy of an operation is true of the        *)
(* payments made for it, a copy that was moved on is not queued any more,  *)
(* and the operation at hand has no record by which it is settled.         *)
(***************************************************************************)

(* The faults under which a deposit that is not settled is still held. *)
StillHeld(d) ==
  /\ lostAnswers = 0
  /\ restarts = 0 \/ (redisErrors = 0 /\ d \in BGLDeposits)

NamesPayout(o, kind) ==
  o.destTx \in PayoutsOf(o.id) /\ payouts[o.destTx].kind = kind

Truthful(o) ==
  /\ o.status = "pending" => o.destTx = 0
  /\ o.status = "returning" => NamesPayout(o, "return")
  /\ o.status = "executing" =>
       NamesPayout(o, "forward") \/ (o.destTx = 0 /\ o.deposit \in BGLDeposits)
  /\ o.status \in {"failed", "returnfail"} /\ StillHeld(o.deposit) =>
       PayoutsOf(o.id) = {}

Copies ==
  {records[k] : k \in Keys} \union {client[w].op : w \in {Exec, Scanner}}
    \union {op}

RecordsTruthful == \A o \in Copies \ {NoOp} : Truthful(o)

(* Keys under which an operation is no longer queued / is settled. *)
Left(k)    == k[1] # "pending"
Settled(k) == k[1] \notin {"pending", "executing"}

LeftAreClosed ==
  \A k \in Keys : Left(k) /\ records[k] # NoOp => Closed(k[2])

StatusOfCopies ==
  /\ pc = "fetch" /\ client[Exec].op # NoOp =>
       client[Exec].op.status = "pending"
  /\ pc = "address" => op.status = "pending"
  /\ Handling => op.status \in {"pending", "executing"}
  /\ client[Scanner].op # NoOp => client[Scanner].op.status = "pending"

Unsettled ==
  \A k \in Keys :
    records[k] # NoOp =>
      /\ Handling /\ Settled(k) => k[2] # op.id
      /\ client[Scanner].cmd \in {"set", "sadd"} /\ Left(k) =>
           k[2] # client[Scanner].op.id

(* What makes the claims of a record about payments hold in every state.   *)
RecordsInv ==
  RecordsTruthful /\ LeftAreClosed /\ StatusOfCopies /\ Unsettled

=============================================================================
