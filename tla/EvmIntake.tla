----------------------------- MODULE EvmIntake -----------------------------
(***************************************************************************)
(* The EVM scanner of ScanEVM.tla on a growing chain, with RPC nodes that  *)
(* lag or fail, failing Redis commands and a process that dies and         *)
(* restarts.  A payment the bridge has under way is stored at the start    *)
(* and reaches the chain at any time; no other goroutine touches the       *)
(* store.  One may raise WorkerShutdown at any time, as in BglIntake.      *)
(***************************************************************************)
EXTENDS ScanEVM

CONSTANT InFlight   \* operations WBGL is sent for; one is stored at the start

ASSUME EvmIntakeAssumption ==
  /\ InFlight \subseteq {o \in BridgeOperation : o.status \in Unsettled /\ o.destTx > 0}
  /\ \A o, p \in InFlight : o.id = p.id /\ o.deposit = p.deposit => o = p

vars == <<sharedVars, evmVars>>

InFlightKey(o) == <<o.status, o.id>>

Init ==
  /\ \E o \in InFlight :
       /\ records = [k \in Keys |-> IF k = InFlightKey(o) THEN o ELSE NoOp]
       /\ indexed = {InFlightKey(o)}
       /\ issued = {<<o.id, o.deposit>>}
  /\ bound = Deposits
  /\ client = [w \in Workers |-> Idle]
  /\ redisErrors = 0
  /\ workerShutdown = FALSE
  /\ restarts = 0
  /\ evmHeight = FirstHeight
  /\ evmLogs = <<>>
  /\ evmCursor \in {NoCursor, FirstHeight}
  /\ evm = EvmAsleep

UnderWay == {o \in InFlight : <<o.id, o.deposit>> \in issued}

Mined(t) == \E i \in DOMAIN evmLogs : evmLogs[i].transfer = t

(* Transfers that no block contains yet.  The transaction of an operation  *)
(* in flight was mined before, and the bridge is used once it has made its *)
(* first scan.                                                             *)
NewDeposits ==
  {t \in EVMDeposits : \A o \in InFlight : SourceTx[o.deposit] # SourceTx[t]}

Waiting ==
  {t \in NewDeposits \union {o.destTx : o \in UnderWay} :
     evmCursor # NoCursor /\ ~ Mined(t)}

Next ==
  \/ EvmStep
  \/ EvmMine(Waiting)
  \/ RaiseShutdown /\ UNCHANGED evmVars
  \/ SharedReset /\ EvmReset

Spec == Init /\ [][Next]_vars

(* The store, the cursor and the scanner's locals have their types. *)
TypeOK == SharedTypeOK /\ EvmTypeOK

(***************************************************************************)
(* What the saved block promises: "check incoming transfers and put        *)
(* sending to worker queue" (README.md:6).  Blocks a window behind the     *)
(* saved block are never read again, whichever nodes answered and wherever *)
(* the process died.                                                       *)
(***************************************************************************)
Behind(i) == evmLogs[i].block <= evmCursor - SafetyWindow

(* An outgoing transfer before log i that a batch could hold with it.      *)
Overshadowed(i) ==
  \E j \in 1 .. i - 1 :
    /\ evmLogs[j].transfer \notin EVMDeposits
    /\ evmLogs[j].block > evmLogs[i].block - BlockBatch

(* A deposit is found by its transaction. *)
OnRecord(t) == \E d \in Deposits : SourceTx[d] = SourceTx[t] /\ Recorded(d)

Lost(i) ==
  /\ Behind(i) /\ evmLogs[i].transfer \in EVMDeposits
  /\ ~ OnRecord(evmLogs[i].transfer)

(* By then a deposit of its transaction is on record, unless Redis failed  *)
(* or an outgoing transfer comes shortly before it (see NoDepositLost).    *)
DepositsBehindWindow ==
  redisErrors = 0 => \A i \in DOMAIN evmLogs : Lost(i) => Overshadowed(i)

(* And a payment has settled its operation, unless the process died while  *)
(* it moved the record from one status to the other.                       *)
PaymentsBehindWindow ==
  redisErrors = 0 /\ restarts = 0 =>
    \A i \in DOMAIN evmLogs :
      Behind(i) /\ ~ Overshadowed(i) =>
        \A o \in UnderWay :
          o.destTx = evmLogs[i].transfer =>
            <<Settled(o.status), o.id>> \in indexed

(***************************************************************************)
(* What the comments of the code say and the code does not do.             *)
(***************************************************************************)

(* README.md:6: "check incoming transfers and put sending to worker        *)
(* queue", and scanEVM.go:177 of a payment that is settled already: "do    *)
(* nothing, tx processed, all ok".                                         *)
NoDepositLost ==
  redisErrors = 0 => \A i \in DOMAIN evmLogs : ~ Lost(i)

=============================================================================
