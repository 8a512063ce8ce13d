---------------------------- MODULE PayoutSystem ----------------------------
(***************************************************************************)
(* The sending worker of Executor.tla in the smallest environment that     *)
(* feeds it: a scanner goroutine that stores each deposit as a pending     *)
(* operation (redis.UpsertBridgeOperation, at most one operation per       *)
(* deposit here) and users who register addresses.  Redis commands fail,   *)
(* payments are refused or their answers lost, and the process dies and is *)
(* started again, each as often as its bound allows.                       *)
(***************************************************************************)
EXTENDS ExecutorPromise

CONSTANT Scanner    \* the goroutine that stores incoming deposits

ASSUME ScannerAssumption == Scanner \in Workers \ {Exec}

vars == <<sharedVars, executorVars>>

(* A BGL deposit arrives on an address that SubmitBGL created and stored   *)
(* in the address book beforehand.                                         *)
Init ==
  /\ SharedInit
  /\ ExecutorInit
  /\ bound = BGLDeposits

(* SubmitWBGL stores the address book record of an EVM address. *)
Register(d) ==
  /\ d \notin bound
  /\ bound' = bound \union {d}
  /\ UNCHANGED <<storeVars, issued, client, redisErrors, flags, executorVars>>

(* A scanner that has begun a scan goes on after WorkerShutdown is raised.  *)
Queue(d) ==
  /\ Returned(Scanner)
  /\ \A p \in issued : p[2] # d
  /\ Create(Scanner, d, "pending")
  /\ UNCHANGED <<storeVars, bound, redisErrors, flags, executorVars>>

ScannerStep == StoreStep(Scanner) /\ UNCHANGED executorVars

Next ==
  \/ ExecutorStep
  \/ ScannerStep
  \/ \E d \in Deposits : Register(d) \/ Queue(d)
  \/ SharedReset /\ ExecutorReset

Spec == Init /\ [][Next]_vars

(***************************************************************************)
(* A goroutine that is not blocked goes on, and Redis answers.  Nobody is  *)
(* assumed to restart the process: run.sh starts it once, unsupervised.    *)
(***************************************************************************)
Fairness ==
  /\ WF_vars(ExecutorStep)
  /\ WF_vars(ScannerStep)

FairSpec == Spec /\ Fairness

(* The store, the worker's locals and the payments have their types. *)
TypeOK == SharedTypeOK /\ ExecutorTypeOK

(***************************************************************************)
(* Safety.                                                                 *)
(***************************************************************************)
PayoutsOf(id) == {i \in DOMAIN payouts : payouts[i].op = id}

AtMostOne(S) == \A i, j \in S : i = j

(* "emergency exit to avoid looping" (processExecution.go:139,176,255):    *)
(* whatever Redis commands fail, one process lifetime pays an operation    *)
(* out at most once, forward and return together, as long as every         *)
(* payment that was accepted was also answered.                            *)
OnePayoutPerRun ==
  lostAnswers = 0 =>
    \A id \in OpIds, r \in 0 .. restarts :
      AtMostOne({i \in PayoutsOf(id) : payouts[i].run = r})

(* "update record immediately to prevent looped sending"                   *)
(* (processExecution.go:171): a BGL deposit is saved as executing before   *)
(* WBGL is sent, so wherever the process dies, and however often it is     *)
(* restarted, the operation is paid out at most once as long as Redis and  *)
(* the payment calls answer.                                               *)
OnePayoutAcrossCrashes ==
  redisErrors = 0 /\ lostAnswers = 0 =>
    \A i, j \in DOMAIN payouts :
      /\ payouts[i].op = payouts[j].op
      /\ payouts[i].deposit \in BGLDeposits
      => i = j

(* "failed" and "returnfail" are the statuses an operator reads from       *)
(* /stats/failed and /stats/returnfail to settle by hand: the bridge must  *)
(* still hold the deposit.  It does for a BGL deposit unless Redis failed  *)
(* or an answer was lost, and for a WBGL deposit until a restart.          *)
UnsettledMeansKept ==
  \A k \in Keys :
    /\ k[1] \in {"failed", "returnfail"}
    /\ records[k] # NoOp
    /\ lostAnswers = 0
    /\ \/ restarts = 0
       \/ redisErrors = 0 /\ records[k].deposit \in BGLDeposits
    => PayoutsOf(k[2]) = {}

(* DestTxHash is what the EVM scanner finalises an operation by.  A        *)
(* returning record names a return payment of that operation; an executing *)
(* one names a forward payment, or nothing yet if it is a BGL deposit      *)
(* saved before sending.                                                   *)
RecordNamesItsPayout ==
  \A k \in Keys :
    records[k] # NoOp =>
      LET t == records[k].destTx
      IN  /\ k[1] = "returning" =>
               t \in PayoutsOf(k[2]) /\ payouts[t].kind = "return"
          /\ k[1] = "executing" =>
               \/ t \in PayoutsOf(k[2]) /\ payouts[t].kind = "forward"
               \/ t = 0 /\ records[k].deposit \in BGLDeposits

(***************************************************************************)
(* Liveness: an operation does not stay in the queue of pending operations *)
(* unless the worker has stopped itself after a failed update.             *)
(***************************************************************************)
QueueDrains ==
  \A id \in OpIds :
    <<"pending", id>> \in indexed
      ~> (<<"pending", id>> \notin indexed \/ workerShutdown)

(***************************************************************************)
(* What the comments of the code say and the code does not do.             *)
(***************************************************************************)

(* redis.go:97: "note that multiple sets should not contain one            *)
(* operation".                                                             *)
OneStatusPerOperation ==
  \A k, l \in indexed : k[2] = l[2] => k = l

=============================================================================
