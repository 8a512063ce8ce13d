------------------------------- MODULE Bridge -------------------------------
(***************************************************************************)
(* The whole process (cmd/server/main.go): the sending worker, the BGL     *)
(* scanner and the scanner of one EVM chain, one goroutine each, on one    *)
(* store.  Their Redis commands interleave freely.                         *)
(***************************************************************************)
EXTENDS ExecutorPromise, ScanBGL, ScanEVM

CONSTANT MaxDeposits    \* bound: deposits that reach a chain

(* Every worker runs in a goroutine of its own (cmd/server/main.go). *)
ASSUME BridgeAssumption ==
  /\ MaxDeposits \in Nat
  /\ Exec # BglScan /\ Exec # EvmScan /\ BglScan # EvmScan

vars == <<sharedVars, executorVars, bglVars, evmVars>>

(* Nothing has been deposited yet; the EVM scanner has a saved block, and  *)
(* the depositors have registered.                                         *)
Init ==
  /\ SharedInit
  /\ ExecutorInit
  /\ BglInit
  /\ bound = Deposits
  /\ evmHeight = FirstHeight
  /\ evmLogs = <<>>
  /\ evmCursor = FirstHeight
  /\ evm = EvmAsleep

Mined(t) == \E i \in DOMAIN evmLogs : evmLogs[i].transfer = t

(* WBGL payments: a BGL deposit paid forward, a WBGL deposit returned. *)
EvmPayouts ==
  {i \in DOMAIN payouts :
     (payouts[i].kind = "forward") = (payouts[i].deposit \in BGLDeposits)}

Made == {d \in BGLDeposits : bglBlock[d] > 0} \union {d \in EVMDeposits : Mined(d)}

Next ==
  \/ ExecutorStep /\ UNCHANGED <<bglVars, evmVars>>
  \/ BglStep /\ UNCHANGED <<executorVars, evmVars>>
  \/ EvmStep /\ UNCHANGED <<executorVars, bglVars>>
  \/ /\ BglMine /\ UNCHANGED <<executorVars, evmVars>>
     /\ Cardinality(Made') <= MaxDeposits
  \/ /\ EvmMine({t \in EVMDeposits \union EvmPayouts : ~ Mined(t)})
     /\ UNCHANGED <<executorVars, bglVars>>
     /\ Cardinality(Made') <= MaxDeposits
  \/ SharedReset /\ ExecutorReset /\ BglReset /\ EvmReset

Spec == Init /\ [][Next]_vars

(***************************************************************************)
(* Every goroutine keeps running, and a node that is asked again and again *)
(* answers.                                                                *)
(***************************************************************************)
Fairness ==
  /\ WF_vars(ExecutorStep /\ UNCHANGED <<bglVars, evmVars>>)
  /\ WF_vars(BglStep /\ UNCHANGED <<executorVars, evmVars>>)
  /\ WF_vars(EvmStep /\ UNCHANGED <<executorVars, bglVars>>)
  /\ SF_vars(BglList /\ UNCHANGED <<executorVars, evmVars>>)
  /\ SF_vars(EvmLatest /\ UNCHANGED <<executorVars, bglVars>>)
  /\ SF_vars(EvmFilter /\ UNCHANGED <<executorVars, bglVars>>)

FairSpec == Spec /\ Fairness

(* The store, the chains and the locals of all workers have their types. *)
TypeOK == SharedTypeOK /\ ExecutorTypeOK /\ BglTypeOK /\ EvmTypeOK

(* An operation is settled only by a payment of its own that a block       *)
(* contains: "success" by a forward payment, "returnsuccess" by a return   *)
(* (config.go:91,94).                                                      *)
SettledByItsPayment ==
  \A k \in indexed :
    k[1] \in {"success", "returnsuccess"} /\ records[k] # NoOp =>
      LET t == records[k].destTx
      IN  /\ Mined(t)
          /\ payouts[t].op = k[2]
          /\ payouts[t].kind = IF k[1] = "success" THEN "forward" ELSE "return"

(* The key of an operation without its record makes every later search     *)
(* fail that comes upon it.  Without a fault it has one cause: the EVM     *)
(* scanner settles a BGL deposit between the SET and the SADD of the       *)
(* second save (processExecution.go:253, scanEVM.go:188), so that the key  *)
(* is of an operation settled, or being settled.                           *)
DanglingIsSettled ==
  redisErrors = 0 /\ restarts = 0 =>
    \A k \in indexed :
      records[k] = NoOp =>
        /\ k[1] = "executing"
        /\ \/ records[<<"success", k[2]>>] # NoOp
           \/ evm.pc = "store" /\ client[EvmScan].op # NoOp /\ client[EvmScan].op.id = k[2]

(* A BGL deposit is paid once, forward and return together: the scanner    *)
(* lists it until its block is saved and the worker closes it before it    *)
(* sends (scanBGL.go:44, processExecution.go:171).                         *)
BglDepositPaidOnce ==
  redisErrors = 0 /\ lostAnswers = 0 /\ restarts = 0 =>
    \A i, j \in DOMAIN payouts :
      /\ payouts[i].deposit = payouts[j].deposit
      /\ payouts[i].deposit \in BGLDeposits
      => i = j

(***************************************************************************)
(* Liveness: a deposit that its scanner can see ends in a payment or in a  *)
(* status that asks for the operator.                                      *)
(***************************************************************************)
Served(d) ==
  \/ \E i \in DOMAIN payouts : payouts[i].deposit = d
  \/ \E k \in indexed : /\ k[1] \in {"failed", "returnfail"}
                        /\ records[k] # NoOp /\ records[k].deposit = d

(* README.md:6-9: the scanners put incoming transfers to the worker queue, *)
(* the sending worker sends.  A WBGL deposit is in a block that every node *)
(* has.  A process that dies once the operation was created may lose it.   *)
DepositsServed ==
  \A d \in Deposits :
    (\/ d \in BGLDeposits /\ BglConfirmed(d)
     \/ \E i \in DOMAIN evmLogs :
          evmLogs[i].transfer = d /\ evmLogs[i].block + Lag <= evmHeight)
      ~> (Served(d) \/ (restarts > 0 /\ \E p \in issued : p[2] = d))

(***************************************************************************)
(* What the comments of the code say and the code does not do.             *)
(***************************************************************************)

(* scanEVM.go:105: "never add record if a record present with same source  *)
(* tx hash, otherwise could be double send".                               *)
NoDoubleSend ==
  redisErrors = 0 /\ lostAnswers = 0 /\ restarts = 0 =>
    \A i, j \in DOMAIN payouts : payouts[i].deposit = payouts[j].deposit => i = j

(* README.md:8: "check incoming transfers and put sending WBGL to worker   *)
(* queue", and redis.go:245: "a record can be missing, don't crash".  The  *)
(* node does not list a deposit again that the saved block has passed: the *)
(* scanner has created an operation for it by then.                        *)
NoDepositPassedOver ==
  redisErrors = 0 /\ restarts = 0 =>
    \A d \in BGLDeposits :
      bglBlock[d] \in 1 .. bglCursor => \E p \in issued : p[2] = d

=============================================================================
