-------------------------- MODULE BridgeInvariants --------------------------
(***************************************************************************)
(* The inductive invariant behind the safety properties of Bridge, in      *)
(* named parts: what each goroutine is waiting for, what every copy of an  *)
(* operation says of its payment, and, as long as nothing fails, what a    *)
(* goroutine may rely on while others are inside the store.  TLC checks it *)
(* on a small instance (MCBridge), BridgeProofs proves it.                 *)
(***************************************************************************)
EXTENDS Bridge, ExecutorInvariants

Scanners == {BglScan, EvmScan}

(* Every copy of an operation and every key goes back to an operation that *)
(* a scanner created, and an id to one deposit.                            *)
Traced ==
  /\ \A p, q \in issued : p[1] = q[1] => p = q
  /\ \A k \in Keys : IsIssued(records[k])
  /\ \A k \in indexed : k[2] \in IssuedIds
  /\ IsIssued(op)
  /\ \A w \in Workers :
       /\ IsIssued(client[w].op)
       /\ \A k \in client[w].keys : k[2] \in IssuedIds
  /\ \A i \in DOMAIN payouts : <<payouts[i].op, payouts[i].deposit>> \in issued

(***************************************************************************)
(* The scanners in the store.                                              *)
(***************************************************************************)
SearchReturns == {"sscan", "get", "ok", "err"}

BglAgrees ==
  LET c == client[BglScan]
  IN  /\ bgl.pc \notin {"dedupe", "store"} => c = Idle
      /\ bgl.pc = "dedupe" => bgl.tx \in BGLDeposits /\ c.cmd \in SearchReturns
      /\ bgl.pc = "store" =>
           /\ c.cmd \in {"set", "sadd", "ok", "err"}
           /\ Writing(c) => c.op.status \in {"pending", "failed"} /\ c.op.destTx = 0

(* The operation that the scanner settles was executing, or returning.     *)
Settlement(c) ==
  /\ Writing(c)
  /\ \/ c.prev = "executing" /\ c.op.status = "success"
     \/ c.prev = "returning" /\ c.op.status = "returnsuccess"

EvmAgrees ==
  LET c == client[EvmScan]
  IN  /\ ~ AtLog => c = Idle
      /\ evm.pc = "dedupe" => Transfer \in EVMDeposits /\ c.cmd \in SearchReturns
      /\ evm.pc = "settle" =>
           /\ Transfer \notin EVMDeposits /\ c.cmd \in SearchReturns
           /\ c.op # NoOp => c.op.destTx = Transfer
           /\ c.cmd \in {"sscan", "get"} => c.field = "DestTxHash" /\ c.value = Transfer
      /\ evm.pc = "store" =>
           /\ c.cmd \notin {"sscan", "get"}
           /\ Writing(c) =>
                \/ Settlement(c)
                \/ /\ c.cmd \in {"set", "sadd"} /\ c.prev = "pending"
                   /\ c.op.status = "pending" /\ c.op.destTx = 0

(* An operation whose SADD is outstanding is known to its scanner only.    *)
Creating(w) ==
  client[w].cmd \in {"set", "sadd"} /\ client[w].op.status \in {"pending", "failed"}

Untouched(w, id) ==
  /\ \A k \in indexed : k[2] # id
  /\ op # NoOp => op.id # id
  /\ \A v \in Workers :
       /\ \A k \in client[v].keys : k[2] # id
       /\ v # w /\ client[v].op # NoOp => client[v].op.id # id
  /\ \A i \in DOMAIN payouts : payouts[i].op # id

NewAreUntouched ==
  \A w \in Scanners : Creating(w) => Untouched(w, client[w].op.id)

(***************************************************************************)
(* What copies say.  DestTxHash is of a payment of the operation, of the   *)
(* kind the status tells; by the time it is settled a block contains it.   *)
(***************************************************************************)
NamesPayout(o, kind) ==
  /\ o.destTx \in DOMAIN payouts
  /\ payouts[o.destTx].op = o.id /\ payouts[o.destTx].kind = kind

Truthful(o) ==
  /\ o.status = "pending" => o.destTx = 0
  /\ o.status = "executing" => o.destTx = 0 \/ NamesPayout(o, "forward")
  /\ o.status = "returning" => NamesPayout(o, "return")
  /\ o.status = "success" => NamesPayout(o, "forward") /\ Mined(o.destTx)
  /\ o.status = "returnsuccess" => NamesPayout(o, "return") /\ Mined(o.destTx)

CopiesTruthful ==
  /\ \A k \in Keys : records[k] # NoOp => Truthful(records[k])
  /\ op # NoOp => Truthful(op)
  /\ \A w \in Workers : client[w].op # NoOp => Truthful(client[w].op)

(* The worker takes pending operations; the scanner has logs of the chain. *)
FetchedArePending ==
  /\ pc = "fetch" /\ client[Exec].op # NoOp => client[Exec].op.status = "pending"
  /\ pc = "address" => op.status = "pending"

LogsAreMined == \A j \in DOMAIN evm.logs : Mined(evm.logs[j].transfer)

(***************************************************************************)
(* As long as no command fails and the process lives.                      *)
(***************************************************************************)
Calm == redisErrors = 0 /\ restarts = 0

(* The worker is done with operation id and never comes by it again.       *)
Gone(id) ==
  /\ Closed(id)
  /\ Handling => op.id # id
  /\ pc = "saved" /\ client[Exec].cmd # "ok" => op.id # id

(* What the EVM scanner may settle as returned is out of the worker's      *)
(* hands; after SREM nobody adds its key again.                            *)
ReturnedAreGone ==
  LET c == client[EvmScan]
  IN  /\ \A id \in OpIds :
           <<"returning", id>> \in indexed \union c.keys => Gone(id)
      /\ c.op # NoOp /\ (c.op.status = "returning" \/ (Writing(c) /\ c.prev = "returning"))
           => Gone(c.op.id)
      /\ c.cmd = "del" /\ c.prev = "returning" =>
           <<"returning", c.op.id>> \notin indexed

(* The EVM scanner has settled an executing operation before the worker    *)
(* was done saving it, or is about to write the record.                    *)
Overtaken(id) ==
  \/ records[<<"success", id>>] # NoOp
  \/ /\ evm.pc = "store" /\ client[EvmScan].cmd = "set"
     /\ client[EvmScan].op.status = "success" /\ client[EvmScan].op.id = id

HasRecord(k) == records[k] # NoOp \/ (k[1] = "executing" /\ Overtaken(k[2]))

KeysHaveRecords ==
  /\ \A k \in indexed : HasRecord(k)
  /\ \A w \in Scanners \union {Exec} :
       client[w].cmd = "sadd" => HasRecord(<<client[w].op.status, client[w].op.id>>)

(* Without a lost answer, an operation is paid once; when it has been paid *)
(* it is being saved, or done with.                                        *)
MovedBeforePaying ==
  /\ pc = "mark" => op.status = "executing"
  /\ pc \in {"mark", "saved"} => client[Exec].cmd # "err"
  /\ pc \in {"forward", "return", "sender"} /\ op.deposit \in BGLDeposits =>
       PendingKey(op.id) \notin indexed

PaidAreGone ==
  lostAnswers = 0 =>
    /\ \A i \in DOMAIN payouts :
         Gone(payouts[i].op) \/ (pc = "saved" /\ op.id = payouts[i].op)
    /\ \A i, j \in DOMAIN payouts : payouts[i].op = payouts[j].op => i = j

(* A BGL deposit is listed in one scan: when it has its operation, the     *)
(* block that is saved, or will be, has passed it.                         *)
BglScanning == bgl.pc \in {"next", "dedupe", "store"}
BglReach    == IF BglScanning THEN bgl.last ELSE bglCursor

BglInOrder ==
  /\ \A d, e \in BGLDeposits : SourceTx[d] = SourceTx[e] => bglBlock[d] = bglBlock[e]
  /\ bglCursor <= LastBlock
  /\ bgl.pc = "list" => bgl.since = bglCursor
  /\ BglScanning => bglCursor <= bgl.last /\ bgl.last <= LastBlock

ListedOnce ==
  /\ \A p, q \in issued : p[2] = q[2] /\ p[2] \in BGLDeposits => p = q
  /\ \A p \in issued : p[2] \in BGLDeposits => bglBlock[p[2]] \in 1 .. BglReach
  /\ BglScanning => \A d \in bgl.txs : bglBlock[d] \in 1 .. bgl.last
  /\ BglScanning => \A p \in issued : p[2] \notin bgl.txs
  /\ bgl.pc = "dedupe" =>
       /\ bglBlock[bgl.tx] \in 1 .. bgl.last /\ bgl.tx \notin bgl.txs
       /\ \A p \in issued : p[2] # bgl.tx

(* Inductive, together with TypeOK (BridgeProofs). *)
CopiesInv ==
  /\ Filed /\ Traced /\ FetchedArePending
  /\ ExecutorAgrees /\ BglAgrees /\ EvmAgrees
  /\ CopiesTruthful /\ LogsAreMined

CalmInv ==
  /\ ReturnedAreGone /\ KeysHaveRecords
  /\ MovedBeforePaying /\ PaidAreGone
  /\ BglInOrder /\ ListedOnce

BridgeInv ==
  /\ ScanBounds /\ Confirmations <= bglHeight
  /\ CopiesInv
  /\ NewAreUntouched /\ Moved
  /\ Calm => CalmInv

=============================================================================
