------------------------ MODULE EvmIntakeInvariants ------------------------
(***************************************************************************)
(* The inductive invariant behind the safety properties of EvmIntake, in   *)
(* named parts: where operations and transfers come from, what a search    *)
(* has yet to read, how far a store or a settlement has come, and which    *)
(* logs the scan under way still answers for.  TLC checks it on a small    *)
(* instance (MCEvmIntake), EvmIntakeProofs proves it.                      *)
(***************************************************************************)
EXTENDS EvmIntake

Caller == client[EvmScan]

SettledKey(o) == <<Settled(o.status), o.id>>

(***************************************************************************)
(* The store: a key has its record, which was issued; the operations with  *)
(* a payment are the one under way, before or after it is settled.         *)
(***************************************************************************)
KeysAreIssued ==
  /\ \A p, q \in issued : p[1] = q[1] => p = q
  /\ \A k \in indexed :
       /\ records[k] # NoOp
       /\ records[k].status = k[1] /\ records[k].id = k[2]
       /\ <<k[2], records[k].deposit>> \in issued

Pays(k, o) ==
  k[2] = o.id /\ records[k].destTx = o.destTx /\ k[1] \in {o.status, Settled(o.status)}

PaymentsUnderWay ==
  /\ \A o, p \in UnderWay : o = p
  /\ \A k \in indexed : records[k].destTx # 0 => \E o \in UnderWay : Pays(k, o)
  /\ \A o \in UnderWay : \A k \in indexed : k[2] = o.id => Pays(k, o)

(***************************************************************************)
(* The chain: logs in order of their blocks, of deposits that are no       *)
(* operation yet at the start, and of the payment under way.               *)
(***************************************************************************)
ChainInOrder ==
  /\ FirstHeight <= evmHeight
  /\ \A i, j \in DOMAIN evmLogs : i < j => evmLogs[i].block <= evmLogs[j].block
  /\ \A i \in DOMAIN evmLogs :
       LET t == evmLogs[i].transfer
       IN  /\ evmLogs[i].block <= evmHeight
           /\ t \in EVMDeposits =>
                \A o \in InFlight : SourceTx[o.deposit] # SourceTx[t]
           /\ t \notin EVMDeposits => \E o \in UnderWay : o.destTx = t
  /\ evmCursor = NoCursor => evmLogs = <<>>
  /\ evmCursor # NoCursor => evmCursor \in SafetyWindow .. evmHeight

(***************************************************************************)
(* The search and the writes of the scanner.                               *)
(***************************************************************************)

(* What the search is for: the operation of a deposit, or of a payment. *)
Sought(k) ==
  IF evm.pc = "dedupe" THEN SourceTx[records[k].deposit] = SourceTx[Transfer]
                       ELSE records[k].destTx = Transfer

SearchAsked ==
  \/ /\ evm.pc = "dedupe"
     /\ Caller.field = "SourceTxHash" /\ Caller.value = SourceTx[Transfer]
  \/ /\ evm.pc = "settle"
     /\ Caller.field = "DestTxHash" /\ Caller.value = Transfer

(* Every operation sought is still to be read, or has been found. *)
Searching ==
  /\ Caller.cmd \in {"sscan", "get", "ok", "err"}
  /\ Caller.cmd \in {"sscan", "get"} => Caller.op = NoOp /\ SearchAsked
  /\ Caller.keys \subseteq indexed
  /\ Caller.cmd = "sscan" => Caller.keys = {}
  /\ Caller.cmd = "ok" => Caller.keys = {} /\ Caller.todo = {}
  /\ Caller.cmd # "err" /\ Caller.op = NoOp =>
       \A k \in indexed : Sought(k) => k \in Caller.keys \/ k[1] \in Caller.todo
  /\ Caller.op # NoOp =>
       \E k \in indexed : records[k] = Caller.op /\ Sought(k)

(* A new operation, under an id of its own; nothing on record has its hash. *)
StoringDeposit ==
  /\ Caller.cmd \in {"set", "sadd", "ok", "err"}
  /\ Caller.cmd \in {"set", "sadd"} =>
       /\ Caller.op.status = "pending" /\ Caller.op.deposit = Transfer
       /\ Caller.op.destTx = 0
       /\ <<Caller.op.id, Caller.op.deposit>> \in issued
       /\ \A k \in indexed :
            k[2] # Caller.op.id /\ SourceTx[records[k].deposit] # SourceTx[Transfer]
       /\ \A o \in UnderWay : Caller.op.id # o.id
  /\ Caller.cmd = "sadd" =>
       records[<<Caller.op.status, Caller.op.id>>] = Caller.op
  /\ Caller.cmd = "ok" => Recorded(Transfer)

(* The operation of a payment, on its way to another status. *)
Moving == Caller.cmd \in {"srem", "del", "set", "sadd"}

Settling ==
  /\ Caller.cmd \in {"srem", "del", "set", "sadd", "ok", "err"}
  /\ \A o \in UnderWay :
       /\ Moving =>
            /\ Caller.op.id = o.id /\ Caller.op.deposit = o.deposit
            /\ Caller.op.destTx = o.destTx
            /\ Caller.op.status = Settled(o.status) /\ Caller.prev = o.status
       /\ Caller.cmd \in {"del", "set", "sadd"} => InFlightKey(o) \notin indexed
       /\ Caller.cmd = "sadd" => records[SettledKey(o)] = Caller.op
       /\ Caller.cmd = "ok" => SettledKey(o) \in indexed

(* What the scanner waits for is what it has asked for. *)
ScannerInv ==
  /\ ~ AtLog => Caller = Idle
  /\ AtLog => evm.logs # <<>>
  /\ evm.pc = "dedupe" => Transfer \in EVMDeposits
  /\ evm.pc = "settle" => Transfer \notin EVMDeposits
  /\ evm.pc \in {"dedupe", "settle"} => Searching
  /\ evm.pc = "store" =>
       IF Transfer \in EVMDeposits THEN StoringDeposit ELSE Settling
  /\ Caller.cmd = "err" => redisErrors > 0

(* Without a fault the operation under way is not lost.                    *)
PaymentIsKept ==
  redisErrors = 0 /\ restarts = 0 =>
    \A o \in UnderWay :
      \/ InFlightKey(o) \in indexed \/ SettledKey(o) \in indexed
      \/ /\ evm.pc = "store" /\ Transfer \notin EVMDeposits
         /\ Caller.cmd \in {"del", "set", "sadd"}

(***************************************************************************)
(* The scan.                                                               *)
(***************************************************************************)

(* Log i needs no more handling, or may be passed by.                      *)
DepositDone(i) ==
  evmLogs[i].transfer \in EVMDeposits /\ ~ OnRecord(evmLogs[i].transfer) =>
    Overshadowed(i)

PaymentDone(i) ==
  restarts = 0 /\ ~ Overshadowed(i) =>
    \A o \in UnderWay :
      o.destTx = evmLogs[i].transfer => SettledKey(o) \in indexed

Done(i) == redisErrors = 0 => DepositDone(i) /\ PaymentDone(i)

(* The logs in hand are those after the m-th, in a row.                    *)
LogsFrom(m) ==
  /\ m + Len(evm.logs) <= Len(evmLogs)
  /\ \A j \in DOMAIN evm.logs :
       /\ evm.logs[j] = evmLogs[m + j]
       /\ evmLogs[m + j].block \in evm.from .. evm.to

(* Every log up to the batch in hand is done or among them.  One of the    *)
(* last SafetyWindow blocks may be unknown to the node that was asked.     *)
Reach == IF evm.pc = "filter" THEN evm.from - 1 ELSE evm.to

Covered(m) ==
  \A i \in DOMAIN evmLogs :
    evmLogs[i].block <= Reach /\ evmLogs[i].block <= evm.latest - SafetyWindow =>
      Done(i) \/ i \in m + 1 .. m + Len(evm.logs)

ScanCovers ==
  /\ evm.pc = "latest" => evm.from = evmCursor
  /\ evm.pc = "filter" => evm.logs = <<>>
  /\ Scanning => BatchBounds /\ \E m \in 0 .. Len(evmLogs) : LogsFrom(m) /\ Covered(m)

BehindIsDone == \A i \in DOMAIN evmLogs : Behind(i) => Done(i)

(* Inductive, together with TypeOK (EvmIntakeProofs). *)
EvmInv ==
  /\ KeysAreIssued /\ PaymentsUnderWay /\ QueuedOnce
  /\ ChainInOrder
  /\ ScannerInv /\ PaymentIsKept
  /\ ScanCovers /\ BehindIsDone

=============================================================================
