------------------------------ MODULE Executor ------------------------------
(***************************************************************************)
(* The sending worker (workers/processExecution.go), together with the     *)
(* process it lives in: crash, signal and restart (cmd/server/main.go,     *)
(* workers/http.go).                                                       *)
(*                                                                         *)
(* One goroutine takes a pending operation from Redis, pays it out on the  *)
(* other chain and, when that fails, returns the deposit on its own chain. *)
(* Payments are irrevocable; the record of what was paid is in Redis.  The *)
(* two directions write the record at different moments:                   *)
(*                                                                         *)
(*   BGL to WBGL   pending -> executing is saved, then WBGL is sent;       *)
(*   WBGL to BGL   BGL is sent, then pending -> executing is saved.        *)
(***************************************************************************)
EXTENDS SharedState, Sequences

CONSTANTS
  Exec,              \* the goroutine running Worker_processExecution
  EvmRetries,        \* config.EVM_RETRIES
  MaxLostAnswers     \* bound: payments accepted whose answer was an error

ASSUME ExecutorAssumption ==
  /\ Exec \in Workers
  /\ EvmRetries \in Nat \ {0}
  /\ MaxLostAnswers \in Nat

VARIABLES
  pc,            \* where the worker is in its loop
  op,            \* its local variable pending
  tries,         \* sendWBGL: iterations of the retry loop already failed
  payouts,       \* payments accepted by a chain; the index is the tx hash
  lostAnswers    \* payments accepted whose answer was an error

executorVars == <<pc, op, tries, payouts, lostAnswers>>

PayoutKinds == {"forward", "return"}

(* run is the process lifetime in which the payment was made. *)
Payout == [op : OpIds, deposit : Deposits, kind : PayoutKinds, run : Nat]

ExecutorInit ==
  /\ pc = "poll"
  /\ op = NoOp
  /\ tries = 0
  /\ payouts = <<>>
  /\ lostAnswers = 0

(***************************************************************************)
(* for !WorkerShutdown { ... FindBridgeOperationStatus("pending") ... }    *)
(***************************************************************************)
Poll ==
  /\ pc = "poll"
  /\ ~ workerShutdown
  /\ pc' = "fetch"
  /\ Call(Exec, FindPending)
  /\ UNCHANGED <<keptVars, flags,
                 op, tries, payouts, lostAnswers>>

Stop ==
  /\ pc = "poll"
  /\ workerShutdown
  /\ pc' = "exited"
  /\ UNCHANGED <<sharedVars, op, tries, payouts, lostAnswers>>

Fetch ==
  /\ pc = "fetch"
  /\ Returned(Exec)
  /\ op' = client[Exec].op
  /\ pc' = IF client[Exec].op = NoOp THEN "poll" ELSE "address"
  /\ Consume(Exec)
  /\ UNCHANGED <<keptVars, flags,
                 tries, payouts, lostAnswers>>

(***************************************************************************)
(* GetAddressBookBySourceAddress.  Without a record, or when the read      *)
(* fails, the operation becomes "failed".  With one, a BGL deposit is      *)
(* first saved as executing; a WBGL deposit is paid out at once.           *)
(***************************************************************************)
(* Mutant: the status to move away from is read after it was changed. *)
SaveFromNewStatus(newOp, next) ==
  /\ op' = newOp
  /\ pc' = next
  /\ Call(Exec, ChangeCall(newOp, newOp.status))

Save(newOp, next) ==
  /\ op' = newOp
  /\ pc' = next
  /\ Call(Exec, ChangeCall(newOp, "pending"))

(* Mutant: the operation is skipped and stays pending. *)
UnroutableSkipped ==
  /\ pc = "address"
  /\ op.deposit \notin bound
  /\ op' = NoOp
  /\ pc' = "poll"
  /\ UNCHANGED <<sharedVars, tries, payouts, lostAnswers>>

Unroutable ==
  /\ pc = "address"
  /\ \/ op.deposit \notin bound /\ UNCHANGED redisErrors
     \/ CommandFails
  /\ Save([op EXCEPT !.status = "failed"], "saved")
  /\ UNCHANGED <<storeVars, issued, bound, flags,
                 tries, payouts, lostAnswers>>

(* Mutant: WBGL is sent first, as BGL is. *)
MarkAfterSending ==
  /\ pc = "address"
  /\ op.deposit \in bound \intersect BGLDeposits
  /\ pc' = "forward"
  /\ UNCHANGED <<sharedVars, op, tries, payouts, lostAnswers>>

MarkExecuting ==
  /\ pc = "address"
  /\ op.deposit \in bound \intersect BGLDeposits
  /\ Save([op EXCEPT !.status = "executing"], "mark")
  /\ UNCHANGED <<keptVars, flags,
                 tries, payouts, lostAnswers>>

StartPayingBGL ==
  /\ pc = "address"
  /\ op.deposit \in bound \ BGLDeposits
  /\ pc' = "forward"
  /\ UNCHANGED <<sharedVars, op, tries, payouts, lostAnswers>>

(* A failed update raises WorkerShutdown and the worker carries on: the    *)
(* flag is only looked at when the loop comes round.                       *)
Marked ==
  /\ pc = "mark"
  /\ Returned(Exec)
  /\ workerShutdown' = (workerShutdown \/ Failed(Exec))
  /\ pc' = "forward"
  /\ Consume(Exec)
  /\ UNCHANGED <<keptVars, restarts,
                 op, tries, payouts, lostAnswers>>

(***************************************************************************)
(* Payments.  A BGL payment is one SendToAddress call; a WBGL payment is   *)
(* sendWBGL, which repeats nonce, gas price and transfer up to EvmRetries  *)
(* times until one iteration succeeds.  An error says nothing about the    *)
(* payment itself: the chain may have accepted it and the answer be lost.  *)
(***************************************************************************)
Paying == pc \in PayoutKinds

(* The payment under way is made with sendWBGL. *)
OnEVM == (pc = "forward") = (op.deposit \in BGLDeposits)

Accept ==
  payouts' = Append(payouts, [op |-> op.id, deposit |-> op.deposit,
                              kind |-> pc, run |-> restarts])

(* Where the worker goes when the payment is given up. *)
GiveUp ==
  /\ tries' = 0
  /\ \/ /\ pc = "forward"
        /\ op.deposit \in BGLDeposits
        /\ pc' = "sender"
        /\ UNCHANGED <<op, client>>
     \/ /\ pc = "forward"
        /\ op.deposit \notin BGLDeposits
        /\ pc' = "return"
        /\ UNCHANGED <<op, client>>
     \/ /\ pc = "return"
        /\ Save([op EXCEPT !.status = "returnfail"], "saved")

(* Mutant: one iteration too many. *)
AttemptFailedLate ==
  \/ /\ OnEVM /\ tries + 1 <= EvmRetries
     /\ tries' = tries + 1
     /\ UNCHANGED <<pc, op, client>>
  \/ /\ ~ OnEVM \/ tries + 1 > EvmRetries
     /\ GiveUp

AttemptFailed ==
  \/ /\ OnEVM /\ tries + 1 < EvmRetries
     /\ tries' = tries + 1
     /\ UNCHANGED <<pc, op, client>>
  \/ /\ ~ OnEVM \/ tries + 1 >= EvmRetries
     /\ GiveUp

(* Mutant: DestTxHash is forgotten. *)
SentUnnamed(o, tx, status) == [o EXCEPT !.status = status]

(* pending.Status and pending.DestTxHash after a payment. *)
Sent(o, tx, status) == [o EXCEPT !.destTx = tx, !.status = status]

(* Mutant: the status of a returned deposit is mixed up. *)
PaidAsReturnfail ==
  /\ Paying
  /\ Accept
  /\ tries' = 0
  /\ Save(Sent(op, Len(payouts) + 1,
               IF pc = "forward" THEN "executing" ELSE "returnfail"), "saved")
  /\ UNCHANGED <<keptVars, flags,
                 lostAnswers>>

(* Mutant: the record is left as it is. *)
PaidUnsaved ==
  /\ Paying
  /\ Accept
  /\ tries' = 0
  /\ op' = NoOp
  /\ pc' = "poll"
  /\ UNCHANGED <<sharedVars, lostAnswers>>

Paid ==
  /\ Paying
  /\ Accept
  /\ tries' = 0
  /\ Save(Sent(op, Len(payouts) + 1,
               IF pc = "forward" THEN "executing" ELSE "returning"), "saved")
  /\ UNCHANGED <<keptVars, flags,
                 lostAnswers>>

Refused ==
  /\ Paying
  /\ AttemptFailed
  /\ UNCHANGED <<keptVars, flags,
                 payouts, lostAnswers>>

AnswerLost ==
  /\ Paying
  /\ lostAnswers < MaxLostAnswers
  /\ lostAnswers' = lostAnswers + 1
  /\ Accept
  /\ AttemptFailed
  /\ UNCHANGED <<keptVars, flags>>

(* GetFromAddressForTransaction: who to return the BGL deposit to. *)
SenderFound ==
  /\ pc = "sender"
  /\ pc' = "return"
  /\ UNCHANGED <<sharedVars, op, tries, payouts, lostAnswers>>

SenderUnknown ==
  /\ pc = "sender"
  /\ Save([op EXCEPT !.status = "returnfail"], "saved")
  /\ UNCHANGED <<keptVars, flags,
                 tries, payouts, lostAnswers>>

(* Mutant: no emergency exit. *)
SavedIgnoringError ==
  /\ pc = "saved"
  /\ Returned(Exec)
  /\ pc' = "poll"
  /\ op' = NoOp
  /\ Consume(Exec)
  /\ UNCHANGED <<keptVars, flags,
                 tries, payouts, lostAnswers>>

Saved ==
  /\ pc = "saved"
  /\ Returned(Exec)
  /\ workerShutdown' = (workerShutdown \/ Failed(Exec))
  /\ pc' = "poll"
  /\ op' = NoOp
  /\ Consume(Exec)
  /\ UNCHANGED <<keptVars, restarts,
                 tries, payouts, lostAnswers>>

ExecutorStep ==
  \/ Poll \/ Stop \/ Fetch
  \/ Unroutable \/ MarkExecuting \/ StartPayingBGL \/ Marked
  \/ Paid \/ Refused \/ AnswerLost \/ SenderFound \/ SenderUnknown
  \/ Saved
  \/ StoreStep(Exec) /\ UNCHANGED executorVars

ExecutorReset ==
  /\ pc' = "poll"
  /\ op' = NoOp
  /\ tries' = 0
  /\ UNCHANGED <<payouts, lostAnswers>>

ExecutorTypeOK ==
  /\ pc \in {"poll", "fetch", "address", "mark", "sender", "saved", "exited"}
              \union PayoutKinds
  /\ op \in BridgeOperation \union {NoOp}
  /\ pc \notin {"poll", "fetch", "exited"} => op # NoOp
  /\ tries \in 0 .. EvmRetries - 1
  /\ payouts \in Seq(Payout)
  /\ lostAnswers \in 0 .. MaxLostAnswers

=============================================================================
