-------------------------- MODULE EvmIntakeProofs --------------------------
(***************************************************************************)
(* Proofs about the EVM scanner: TypeOK and the inductive invariant EvmInv *)
(* of EvmIntakeInvariants, and from them the safety properties of          *)
(* EvmIntake, for every set of deposits, every safety window and batch     *)
(* size, nodes that lag, and failures and restarts at any point.           *)
(***************************************************************************)
EXTENDS EvmIntakeInvariants, ScanEVMProofs, SharedStateProofs

(* The types of the store and those of the scanner. *)
USE DEF TypeOK

(* The scanner's blocks are within bounds. *)
LEMMA BoundsHold ==
  ASSUME ChainInOrder, ScannerInv, ScanCovers
  PROVE  ScanBounds
BY DEF ChainInOrder, ScannerInv, ScanCovers, ScanBounds

(* What may come into a block. *)
LEMMA WaitingTransfers == Waiting \in SUBSET Transfers
<1>1. \A o \in InFlight : o.destTx \in Nat \ {0}
  BY EvmIntakeAssumption, SMT DEF BridgeOperation
<1> QED
  BY <1>1 DEF Waiting, NewDeposits, UnderWay, Transfers

(* What is settled, and how. *)
LEMMA SettleFacts ==
  ASSUME TypeOK, EvmSettle
  PROVE  /\ evm.pc = "settle" /\ Caller.cmd \in {"ok", "err"}
         /\ Caller.op \in BridgeOperation /\ Caller.op # NoOp
         /\ Caller.op.status \in Unsettled
         /\ \E o \in BridgeOperation :
              /\ o.status = Settled(Caller.op.status)
              /\ o.id = Caller.op.id /\ o.deposit = Caller.op.deposit
              /\ o.destTx = Caller.op.destTx
              /\ client' = [client EXCEPT ![EvmScan] = ChangeCall(o, Caller.op.status)]
<1>1. /\ evm.pc = "settle" /\ Caller.cmd \in {"ok", "err"} /\ Caller.op # NoOp
      /\ Caller.op.status \in Unsettled
  BY DEF EvmSettle, Returned, Caller
<1>2. Caller.op \in BridgeOperation
  <2>1. client[EvmScan] \in Client
    BY ConstantFacts DEF TypeOK, SharedTypeOK
  <2> QED
    BY <1>1, <2>1, SMT DEF Client, Caller
<1>3. Settled(Caller.op.status) \in Status
  BY <1>1, SMT DEF Settled, Unsettled, Status
<1> DEFINE o == [Caller.op EXCEPT !.status = Settled(Caller.op.status)]
<1>4. /\ o \in BridgeOperation /\ o.status = Settled(Caller.op.status)
      /\ o.id = Caller.op.id /\ o.deposit = Caller.op.deposit /\ o.destTx = Caller.op.destTx
  BY <1>2, <1>3, StatusUpdate
<1>5. client' = [client EXCEPT ![EvmScan] = ChangeCall(o, Caller.op.status)]
  BY DEF EvmSettle, Call, Caller
<1> HIDE DEF o
<1> QED
  BY <1>1, <1>2, <1>4, <1>5

(* What every step of the scanner leaves of the shared state. *)
LEMMA SharedType ==
  ASSUME TypeOK, ScannerInv, [Next]_vars
  PROVE  SharedTypeOK'
<1> USE DEF TypeOK
<1>0. /\ EvmScan \in Workers /\ EVMDeposits \subseteq Deposits
      /\ {"pending", "executing", "returning"} \subseteq Status
  BY ConstantFacts DEF Status
<1>1. CASE UNCHANGED sharedVars
  BY <1>1 DEF sharedVars, keptVars, storeVars, flags, SharedTypeOK
<1>2. CASE EvmIncoming
  <2>1. Transfer \in Deposits
    BY <1>0, <1>2 DEF EvmIncoming
  <2>2. FindSourceTx(SourceTx[Transfer]) \in Client
        /\ FindSourceTx(SourceTx[Transfer]).cmd = "sscan"
    BY <2>1, FindSourceTxFacts
  <2> QED
    BY <1>0, <1>2, <2>2, CallType DEF EvmIncoming, Call, keptVars, storeVars, SharedTypeOK
<1>3. CASE EvmOutgoing
  <2>1. Transfer \in Nat
    BY <1>3, HeadFacts DEF EvmOutgoing
  <2>2. FindDestTx(Transfer) \in Client /\ FindDestTx(Transfer).cmd = "sscan"
    BY <2>1, FindDestTxFacts
  <2> QED
    BY <1>0, <1>3, <2>2, CallType DEF EvmOutgoing, Call, keptVars, storeVars, SharedTypeOK
<1>4. CASE EvmNew
  <2>1. Transfer \in Deposits
    BY <1>0, <1>4 DEF ScannerInv, EvmNew
  <2> QED
    BY <1>0, <1>4, <2>1, CreateType DEF EvmNew
<1>5. CASE EvmSettle
  <2>1. PICK o \in BridgeOperation :
          client' = [client EXCEPT ![EvmScan] = ChangeCall(o, Caller.op.status)]
    BY <1>5, SettleFacts
  <2>2. Caller.op.status \in Status
    BY <1>0, <1>5, SettleFacts DEF Unsettled
  <2>3. PICK c \in Client : c = ChangeCall(o, Caller.op.status) /\ c.op = o
    BY <2>2, ChangeCallFacts
  <2>4. o # NoOp
    BY SharedAssumption
  <2>5. client' = [client EXCEPT ![EvmScan] = c]
    BY <2>1, <2>3
  <2>6. UNCHANGED <<keptVars, flags>>
    BY <1>5 DEF EvmSettle
  <2> QED
    BY <1>0, <2>3, <2>4, <2>5, <2>6, CallType DEF keptVars, storeVars, SharedTypeOK
<1>6. CASE EvmSkip \/ EvmBreak \/ EvmStored
  BY <1>0, <1>6, ConsumeType DEF EvmSkip, EvmBreak, EvmStored
<1>7. CASE EvmAdvanceFails
  BY <1>7, CommandFailsType DEF EvmAdvanceFails, EvmDone
<1>8. CASE EvmAdvance
  BY <1>8 DEF EvmAdvance, EvmDone, storeVars, flags, SharedTypeOK
<1>9. CASE StoreStep(EvmScan)
  BY <1>0, <1>9, SScanType, GetType, WriteType, RedisFailsType DEF StoreStep
<1>10. CASE RaiseShutdown
  BY <1>10 DEF RaiseShutdown, SharedTypeOK, keptVars, storeVars
<1>11. CASE SharedReset
  BY <1>11, ResetType
<1> QED
  BY <1>1, <1>2, <1>3, <1>4, <1>5, <1>6, <1>7, <1>8, <1>9, <1>10, <1>11, Zenon
     DEF Next, vars, EvmStep, EvmMine, EvmWake, EvmExit, EvmLatest, EvmFilter, EvmCallFails

LEMMA EvmTypes ==
  ASSUME TypeOK, ChainInOrder, ScannerInv, ScanCovers, [Next]_vars
  PROVE  TypeOK'
<1>0. /\ evmHeight \in Nat /\ evmLogs \in Seq(Log)
      /\ evmCursor \in Nat \union {NoCursor} /\ evm \in EvmLocals
  BY DEF TypeOK, EvmTypeOK, EvmLocals
<1>1. evmHeight' \in Nat /\ evmLogs' \in Seq(Log) /\ evm' \in EvmLocals
  <2>1. CASE EvmStep
    BY <1>0, <2>1, LocalsStep, BoundsHold
  <2>2. CASE EvmMine(Waiting)
    BY <1>0, <2>2, MineFacts, WaitingTransfers
  <2>3. CASE SharedReset /\ EvmReset
    BY <1>0, <2>3, AsleepFacts DEF EvmReset, evmChain
  <2>4. CASE UNCHANGED evmVars
    BY <1>0, <2>4 DEF evmVars
  <2> QED
    BY <2>1, <2>2, <2>3, <2>4 DEF Next, vars
<1>2. evmCursor' \in Nat \union {NoCursor}
  <2>1. evm.to \in Nat
    BY LocalsAre
  <2>2. evmCursor' \in {evmCursor, evm.to}
    BY Zenon
       DEF Next, vars, EvmMine, EvmReset, evmVars, evmChain, EvmStep, EvmWake, EvmExit,
           EvmLatest, EvmFilter, EvmCallFails, EvmIncoming, EvmNew, EvmOutgoing,
           EvmSettle, EvmBreak, EvmSkip, EvmStored, EvmAdvance, EvmAdvanceFails
  <2> QED
    BY <1>0, <2>1, <2>2
<1> QED
  BY <1>1, <1>2, SharedType DEF TypeOK, EvmTypeOK, EvmLocals

(***************************************************************************)
(* What is done stays done.                                                *)
(***************************************************************************)
Logged(t) == \E i \in DOMAIN evmLogs : evmLogs[i].transfer = t

Kept ==
  /\ UnderWay' = UnderWay
  /\ \A i \in DOMAIN evmLogs : i \in DOMAIN evmLogs' /\ evmLogs'[i] = evmLogs[i]
  /\ redisErrors' = 0 => redisErrors = 0
  /\ restarts' = 0 => restarts = 0
  /\ \A t \in EVMDeposits : Logged(t) /\ OnRecord(t) => OnRecord(t)'
  /\ \A o \in UnderWay : SettledKey(o) \in indexed => SettledKey(o) \in indexed'

LEMMA DoneKept ==
  ASSUME TypeOK, Kept, NEW i \in DOMAIN evmLogs, Done(i)
  PROVE  Done(i)'
<1>0. Len(evmLogs) \in Nat /\ DOMAIN evmLogs = 1 .. Len(evmLogs)
  BY LogsAre DEF TypeOK, EvmTypeOK
<1>1. \A j \in 1 .. i - 1 : j \in DOMAIN evmLogs
  BY <1>0, SMT
<1>2. evmLogs'[i] = evmLogs[i] /\ \A j \in 1 .. i - 1 : evmLogs'[j] = evmLogs[j]
  BY <1>1 DEF Kept
<1>3. Overshadowed(i) <=> Overshadowed(i)'
  BY <1>2 DEF Overshadowed
<1>4. redisErrors' = 0 => DepositDone(i) /\ PaymentDone(i)
  BY DEF Done, Kept
<1>5. DepositDone(i) => DepositDone(i)'
  <2>1. PICK t : t = evmLogs[i].transfer
    OBVIOUS
  <2>2. t \in EVMDeposits /\ OnRecord(t) => OnRecord(t)'
    BY <2>1 DEF Kept, Logged
  <2> QED
    BY <1>2, <1>3, <2>1, <2>2 DEF DepositDone
<1>6. PaymentDone(i) => PaymentDone(i)'
  <2>1. \A o : SettledKey(o)' = SettledKey(o)
    BY DEF SettledKey
  <2> QED
    BY <1>2, <1>3, <2>1 DEF PaymentDone, Kept
<1> QED
  BY <1>4, <1>5, <1>6 DEF Done

(* A step that changes neither operations nor logs. *)
LEMMA StoreUntouched ==
  ASSUME TypeOK, KeysAreIssued, PaymentsUnderWay, QueuedOnce,
         UNCHANGED <<records, indexed, issued>>,
         \A i \in DOMAIN evmLogs : i \in DOMAIN evmLogs' /\ evmLogs'[i] = evmLogs[i],
         redisErrors' = redisErrors \/ redisErrors' = redisErrors + 1,
         restarts' = restarts \/ restarts' = restarts + 1
  PROVE  /\ KeysAreIssued' /\ PaymentsUnderWay' /\ QueuedOnce' /\ Kept
<1>1. UnderWay' = UnderWay
  BY DEF UnderWay
<1>2. KeysAreIssued' /\ QueuedOnce'
  BY DEF KeysAreIssued, QueuedOnce, Queued
<1>3. PaymentsUnderWay'
  BY <1>1 DEF PaymentsUnderWay, Pays
<1>4. redisErrors \in Nat /\ restarts \in Nat
  BY SharedAssumption, SMT DEF TypeOK, SharedTypeOK
<1>5. (redisErrors' = 0 => redisErrors = 0) /\ (restarts' = 0 => restarts = 0)
  BY <1>4, SMT
<1>6. \A t : OnRecord(t) <=> OnRecord(t)'
  BY DEF OnRecord, Recorded
<1>7. \A o : SettledKey(o)' = SettledKey(o)
  BY DEF SettledKey
<1> QED
  BY <1>1, <1>2, <1>3, <1>5, <1>6, <1>7 DEF Kept

(***************************************************************************)
(* The scanner's search and writes, in steps of others.                    *)
(***************************************************************************)
LEMMA ScannerRests ==
  ASSUME ~ AtLog', Caller' = Idle
  PROVE  ScannerInv'
BY IdleFacts DEF ScannerInv, AtLog

LEMMA ScannerSteady ==
  ASSUME ScannerInv, UnderWay' = UnderWay,
         UNCHANGED <<records, indexed, issued, client, evm, redisErrors>>
  PROVE  ScannerInv'
<1>1. Caller' = Caller /\ Transfer' = Transfer
  BY DEF Caller, Transfer
<1>2. Searching => Searching'
  BY <1>1 DEF Searching, SearchAsked, Sought
<1>3. StoringDeposit => StoringDeposit'
  BY <1>1 DEF StoringDeposit, Recorded
<1>4. Settling => Settling'
  BY <1>1 DEF Settling, Moving, InFlightKey, SettledKey
<1> QED
  BY <1>1, <1>2, <1>3, <1>4, Zenon DEF ScannerInv, AtLog

LEMMA PaymentStays ==
  ASSUME PaymentIsKept, Kept, indexed' = indexed,
         \/ evm.pc # "store" \/ Caller.cmd \notin {"del", "set", "sadd"}
         \/ evm' = evm /\ client' = client
  PROVE  PaymentIsKept'
<1>1. \A o : SettledKey(o)' = SettledKey(o) /\ InFlightKey(o)' = InFlightKey(o)
  BY DEF SettledKey, InFlightKey
<1>2. CASE evm' = evm /\ client' = client
  <2>1. Caller' = Caller /\ Transfer' = Transfer
    BY <1>2 DEF Caller, Transfer
  <2> QED
    BY <1>1, <1>2, <2>1 DEF PaymentIsKept, Kept
<1>3. CASE evm.pc # "store" \/ Caller.cmd \notin {"del", "set", "sadd"}
  BY <1>1, <1>3 DEF PaymentIsKept, Kept
<1> QED
  BY <1>2, <1>3

(***************************************************************************)
(* The scan in steps that do not save a block.                             *)
(***************************************************************************)
LEMMA BehindKept ==
  ASSUME TypeOK, BehindIsDone, Kept, UNCHANGED <<evmCursor, evmLogs>>
  PROVE  BehindIsDone'
<1>1. \A i \in DOMAIN evmLogs : Done(i) => Done(i)'
  BY DoneKept
<1> QED
  BY <1>1 DEF BehindIsDone, Behind

LEMMA ChainUntouched ==
  ASSUME ChainInOrder, Kept, UNCHANGED <<evmHeight, evmLogs, evmCursor>>
  PROVE  ChainInOrder'
BY DEF ChainInOrder, Kept

(* The scan goes on with the same logs in hand. *)
LEMMA ScanGoesOn ==
  ASSUME TypeOK, ScanCovers, Kept, UNCHANGED <<evmHeight, evmLogs>>,
         evm.pc \in {"next", "dedupe", "settle", "store"},
         evm'.pc \in {"next", "dedupe", "settle", "store"},
         evm'.from = evm.from, evm'.to = evm.to, evm'.latest = evm.latest,
         evm'.logs = evm.logs
  PROVE  ScanCovers'
<1>1. \A i \in DOMAIN evmLogs : Done(i) => Done(i)'
  BY DoneKept
<1>2. PICK m \in 0 .. Len(evmLogs) : LogsFrom(m) /\ Covered(m)
  BY DEF ScanCovers, Scanning, AtLog
<1>3. BatchBounds'
  BY DEF ScanCovers, Scanning, AtLog, BatchBounds
<1>4. LogsFrom(m)'
  BY <1>2 DEF LogsFrom
<1>5. Reach' = Reach
  BY DEF Reach
<1>6. Covered(m)'
  BY <1>1, <1>2, <1>5 DEF Covered
<1> QED
  BY <1>2, <1>3, <1>4, <1>6, Zenon DEF ScanCovers

LEMMA ScanRests ==
  ASSUME evm'.pc \in {"sleep", "exited"}
  PROVE  ScanCovers'
BY DEF ScanCovers, Scanning, AtLog

(***************************************************************************)
(* The chain grows, past every block that a scan under way or the saved    *)
(* block speaks of.                                                        *)
(***************************************************************************)
LEMMA MineStep ==
  ASSUME TypeOK, EvmInv, EvmMine(Waiting)
  PROVE  EvmInv'
<1> DEFINE Old == DOMAIN evmLogs
           New == DOMAIN evmLogs' \ DOMAIN evmLogs
<1>1. /\ evmHeight' = evmHeight + 1 /\ evmHeight \in Nat
      /\ evmLogs' \in Seq(Log) /\ Len(evmLogs) <= Len(evmLogs')
      /\ \A i \in Old : i \in DOMAIN evmLogs' /\ evmLogs'[i] = evmLogs[i]
      /\ \A i \in New : /\ i > Len(evmLogs)
                        /\ evmLogs'[i].block = evmHeight + 1
                        /\ evmLogs'[i].transfer \in Waiting
      /\ UNCHANGED <<records, indexed, issued, bound, client, redisErrors, restarts,
                     evmCursor, evm>>
  BY MineFacts, WaitingTransfers, SMT DEF EvmTypeOK, sharedVars, keptVars, storeVars, flags
<1>2. /\ Len(evmLogs) \in Nat /\ Old = 1 .. Len(evmLogs)
      /\ Len(evmLogs') \in Nat /\ DOMAIN evmLogs' = 1 .. Len(evmLogs')
      /\ \A i \in Old : evmLogs[i].block \in Nat
  <2>1. /\ Len(evmLogs) \in Nat /\ Old = 1 .. Len(evmLogs)
        /\ \A i \in Old : evmLogs[i].block \in Nat
    BY LogsAre DEF TypeOK, EvmTypeOK
  <2> QED
    BY <1>1, <2>1, LenProperties
<1>3. KeysAreIssued' /\ PaymentsUnderWay' /\ QueuedOnce' /\ Kept
  BY <1>1, StoreUntouched DEF EvmInv
<1>4. ScannerInv' /\ PaymentIsKept'
  BY <1>1, <1>3, ScannerSteady, PaymentStays DEF EvmInv, Kept
<1>5. UnderWay' = UnderWay /\ \A i \in Old : Done(i) => Done(i)'
  BY <1>3, DoneKept DEF Kept
<1>6. \A i \in Old : evmLogs[i].block <= evmHeight
  BY DEF EvmInv, ChainInOrder
<1>7. ChainInOrder'
  <2>1. FirstHeight <= evmHeight'
    BY <1>1, ConstantFacts, SMT DEF EvmInv, ChainInOrder
  <2>2. ASSUME NEW i \in DOMAIN evmLogs', NEW j \in DOMAIN evmLogs', i < j
        PROVE  evmLogs'[i].block <= evmLogs'[j].block
    <3>1. CASE j \in Old
      <4>1. i \in Old
        BY <1>2, <2>2, <3>1, SMT
      <4> QED
        BY <1>1, <2>2, <3>1, <4>1 DEF EvmInv, ChainInOrder
    <3>2. CASE j \notin Old
      <4>1. evmLogs'[j].block = evmHeight + 1
        BY <1>1, <3>2
      <4>2. evmLogs'[i].block = evmHeight + 1 \/ (evmLogs'[i].block \in Nat /\ evmLogs'[i].block <= evmHeight)
        BY <1>1, <1>2, <1>6
      <4> QED
        BY <1>1, <4>1, <4>2, SMT
    <3> QED
      BY <3>1, <3>2
  <2>3. ASSUME NEW i \in DOMAIN evmLogs', NEW t, t = evmLogs'[i].transfer
        PROVE  /\ evmLogs'[i].block <= evmHeight'
               /\ t \in EVMDeposits => \A o \in InFlight : SourceTx[o.deposit] # SourceTx[t]
               /\ t \notin EVMDeposits => \E o \in UnderWay' : o.destTx = t
    <3>1. CASE i \in Old
      <4>1. evmLogs'[i].block <= evmHeight'
        BY <1>1, <1>2, <1>6, <3>1, SMT
      <4> QED
        BY <1>1, <1>5, <2>3, <3>1, <4>1 DEF EvmInv, ChainInOrder
    <3>2. CASE i \notin Old
      <4>1. evmLogs'[i].block = evmHeight + 1 /\ t \in Waiting
        BY <1>1, <2>3, <3>2
      <4>2. evmLogs'[i].block <= evmHeight'
        BY <1>1, <4>1, SMT
      <4>3. \A o \in UnderWay : o.destTx \in Nat
        BY EvmIntakeAssumption, SMT DEF UnderWay, BridgeOperation
      <4>4. t \in EVMDeposits => t \in NewDeposits
        BY <4>1, <4>3, ConstantFacts DEF Waiting
      <4>5. t \notin EVMDeposits => \E o \in UnderWay : o.destTx = t
        BY <4>1 DEF Waiting, NewDeposits
      <4> QED
        BY <1>5, <4>2, <4>4, <4>5 DEF NewDeposits
    <3> QED
      BY <3>1, <3>2
  <2>4. evmCursor' = NoCursor => evmLogs' = <<>>
    <3>1. SUFFICES ASSUME evmCursor = NoCursor PROVE evmLogs' = <<>>
      BY <1>1
    <3>2. New = {}
      BY <1>1, <3>1 DEF Waiting
    <3>3. Len(evmLogs) = 0
      BY <3>1, EmptySeq DEF EvmInv, ChainInOrder
    <3>4. Len(evmLogs') = 0
      BY <1>2, <3>2, <3>3, SMT
    <3> QED
      BY <1>1, <3>4, EmptySeq
  <2>5. evmCursor' # NoCursor => evmCursor' \in SafetyWindow .. evmHeight'
    <3>1. evmCursor # NoCursor => evmCursor \in SafetyWindow .. evmHeight
      BY DEF EvmInv, ChainInOrder
    <3> QED
      BY <1>1, <3>1, ConstantFacts, SMT
  <2> QED
    BY <2>1, <2>2, <2>3, <2>4, <2>5, Zenon DEF ChainInOrder
<1>8. ScanCovers'
  <2>1. /\ evm.pc = "latest" => evm.from = evmCursor
        /\ evm.pc = "filter" => evm.logs = <<>>
    BY DEF EvmInv, ScanCovers
  <2>2. ASSUME Scanning
        PROVE  BatchBounds' /\ \E m \in 0 .. Len(evmLogs') : LogsFrom(m)' /\ Covered(m)'
    <3>1. BatchBounds
      BY <2>2 DEF EvmInv, ScanCovers
    <3>2. PICK m \in 0 .. Len(evmLogs) : LogsFrom(m) /\ Covered(m)
      BY <2>2 DEF EvmInv, ScanCovers
    <3>3. evm.latest \in Nat /\ Len(evm.logs) \in Nat /\ DOMAIN evm.logs = 1 .. Len(evm.logs)
      BY LocalsAre
    <3>4. BatchBounds'
      <4>1. evm.latest <= evmHeight'
        BY <1>1, <3>1, <3>3, SMT DEF BatchBounds
      <4> QED
        BY <1>1, <3>1, <4>1 DEF BatchBounds
    <3>5. LogsFrom(m)'
      <4>1. m + Len(evm.logs) <= Len(evmLogs')
        BY <1>1, <1>2, <3>2, <3>3, SMT DEF LogsFrom
      <4>2. \A j \in DOMAIN evm.logs : m + j \in Old
        BY <1>2, <3>2, <3>3, SMT DEF LogsFrom
      <4> QED
        BY <1>1, <3>2, <4>1, <4>2 DEF LogsFrom
    <3>6. Covered(m)'
      <4>1. Reach' = Reach
        BY <1>1 DEF Reach
      <4>2. ASSUME NEW i \in DOMAIN evmLogs', evmLogs'[i].block <= evm.latest - SafetyWindow
            PROVE  i \in Old
        <5>1. CASE i \notin Old
          <6>1. evmLogs'[i].block = evmHeight + 1
            BY <1>1, <5>1
          <6> QED
            BY <1>1, <3>1, <3>3, <4>2, <6>1, ConstantFacts, SMT DEF BatchBounds
        <5> QED
          BY <5>1
      <4> QED
        BY <1>1, <1>5, <3>2, <4>1, <4>2 DEF Covered
    <3>7. m \in 0 .. Len(evmLogs')
      BY <1>1, <1>2, <3>2, SMT
    <3> QED
      BY <3>4, <3>5, <3>6, <3>7
  <2>3. Scanning' = Scanning
    BY <1>1 DEF Scanning, AtLog
  <2> QED
    BY <1>1, <2>1, <2>2, <2>3, Zenon DEF ScanCovers
<1>9. BehindIsDone'
  <2>1. ASSUME NEW i \in DOMAIN evmLogs', evmLogs'[i].block <= evmCursor - SafetyWindow
        PROVE  i \in Old
    <3>1. CASE i \notin Old
      <4>1. evmLogs'[i].block = evmHeight + 1
        BY <1>1, <3>1
      <4>2. evmCursor \in Int /\ evmCursor <= evmHeight
        BY <1>1, SMT DEF TypeOK, EvmTypeOK, EvmInv, ChainInOrder, NoCursor
      <4> QED
        BY <1>1, <2>1, <4>1, <4>2, ConstantFacts, SMT
    <3> QED
      BY <3>1
  <2> QED
    BY <1>1, <1>5, <2>1 DEF EvmInv, BehindIsDone, Behind
<1> QED
  BY <1>3, <1>4, <1>7, <1>8, <1>9 DEF EvmInv

(***************************************************************************)
(* Steps that touch neither the store nor the saved block.                 *)
(***************************************************************************)
LEMMA ScanSteady ==
  ASSUME TypeOK, ScanCovers, Kept, UNCHANGED <<evmHeight, evmLogs, evmCursor, evm>>
  PROVE  ScanCovers'
<1>1. \A i \in DOMAIN evmLogs : Done(i) => Done(i)'
  BY DoneKept
<1>2. /\ evm.pc = "latest" => evm.from = evmCursor
      /\ evm.pc = "filter" => evm.logs = <<>>
  BY DEF ScanCovers
<1>3. ASSUME Scanning
      PROVE  BatchBounds' /\ \E m \in 0 .. Len(evmLogs') : LogsFrom(m)' /\ Covered(m)'
  <2>1. PICK m \in 0 .. Len(evmLogs) : LogsFrom(m) /\ Covered(m)
    BY <1>3 DEF ScanCovers
  <2>2. BatchBounds'
    BY <1>3 DEF ScanCovers, BatchBounds
  <2>3. LogsFrom(m)'
    BY <2>1 DEF LogsFrom
  <2>4. Covered(m)'
    BY <1>1, <2>1 DEF Covered, Reach
  <2> QED
    BY <2>1, <2>2, <2>3, <2>4
<1>4. Scanning' = Scanning
  BY DEF Scanning, AtLog
<1> QED
  BY <1>2, <1>3, <1>4, Zenon DEF ScanCovers

(* Nothing happens but that others run: a raised flag, or no step at all.  *)
LEMMA IdleStep ==
  ASSUME TypeOK, EvmInv, (RaiseShutdown /\ UNCHANGED evmVars) \/ UNCHANGED vars
  PROVE  EvmInv'
<1>1. /\ UNCHANGED <<records, indexed, issued, client, redisErrors, restarts>>
      /\ UNCHANGED <<evmHeight, evmLogs, evmCursor, evm>>
  BY DEF RaiseShutdown, vars, evmVars, sharedVars, keptVars, storeVars, flags
<1>2. KeysAreIssued' /\ PaymentsUnderWay' /\ QueuedOnce' /\ Kept
  BY <1>1, StoreUntouched DEF EvmInv
<1>3. ScannerInv' /\ PaymentIsKept'
  BY <1>1, <1>2, ScannerSteady, PaymentStays DEF EvmInv, Kept
<1> QED
  BY <1>1, <1>2, <1>3, ChainUntouched, ScanSteady, BehindKept DEF EvmInv

LEMMA RestingStep ==
  ASSUME TypeOK, EvmInv,
         EvmWake \/ EvmExit \/ EvmCallFails \/ (SharedReset /\ EvmReset)
  PROVE  EvmInv'
<1>0. evm \in EvmLocals
  BY LocalsAre
<1>1. /\ UNCHANGED <<records, indexed, issued, redisErrors>>
      /\ UNCHANGED <<evmHeight, evmLogs, evmCursor>>
      /\ restarts' = restarts \/ restarts' = restarts + 1
  BY DEF EvmWake, EvmExit, EvmCallFails, SharedReset, EvmReset,
         evmChain, sharedVars, keptVars, storeVars, flags
<1>2. KeysAreIssued' /\ PaymentsUnderWay' /\ QueuedOnce' /\ Kept
  BY <1>1, StoreUntouched DEF EvmInv
<1>3. ChainInOrder' /\ BehindIsDone'
  BY <1>1, <1>2, ChainUntouched, BehindKept DEF EvmInv
<1>4. /\ evm'.pc \in {"latest", "sleep", "exited"}
      /\ evm'.pc = "latest" => evm'.from = evmCursor'
      /\ \/ evm.pc \in {"sleep", "latest", "filter"} /\ client' = client
         \/ Caller' = Idle
  <2>1. CASE EvmWake
    <3>1. evm' = [evm EXCEPT !.pc = "latest", !.from = evmCursor]
      BY <2>1 DEF EvmWake
    <3>2. evm'.pc = "latest" /\ evm'.from = evmCursor
      BY <1>0, <3>1, SMT DEF EvmLocals
    <3> QED
      BY <1>1, <2>1, <3>2 DEF EvmWake, sharedVars
  <2>2. CASE EvmExit
    BY <1>0, <2>2, SMT DEF EvmExit, EvmAt, EvmLocals, sharedVars
  <2>3. CASE EvmCallFails
    BY <2>3, AsleepFacts DEF EvmCallFails, sharedVars
  <2>4. CASE SharedReset /\ EvmReset
    BY <2>4, AsleepFacts, ConstantFacts DEF SharedReset, EvmReset, Caller
  <2> QED
    BY <2>1, <2>2, <2>3, <2>4
<1>5. Caller' = Idle
  BY <1>4 DEF EvmInv, ScannerInv, AtLog, Caller
<1>6. ScannerInv'
  BY <1>4, <1>5, ScannerRests DEF AtLog
<1>7. PaymentIsKept'
  <2>1. CASE evm.pc # "store"
    BY <1>1, <1>2, <2>1, PaymentStays DEF EvmInv
  <2>2. CASE evm.pc = "store"
    <3>1. SharedReset
      BY <2>2 DEF EvmWake, EvmExit, EvmCallFails
    <3>2. restarts' = restarts + 1 /\ restarts \in Nat
      BY <3>1, SharedAssumption, SMT DEF SharedReset, TypeOK, SharedTypeOK
    <3>3. restarts' # 0
      BY <3>2, SMT
    <3> QED
      BY <3>3 DEF PaymentIsKept
  <2> QED
    BY <2>1, <2>2
<1>8. ScanCovers'
  BY <1>4 DEF ScanCovers, Scanning, AtLog
<1> QED
  BY <1>2, <1>3, <1>6, <1>7, <1>8 DEF EvmInv

(***************************************************************************)
(* The batches.                                                            *)
(***************************************************************************)

(* A batch is begun when all before it is done. *)
LEMMA BatchBegins ==
  ASSUME TypeOK, NEW f \in Int, f >= 1, NEW latest \in Nat,
         SafetyWindow <= latest, latest <= evmHeight,
         evm' = Batch(f, latest), UNCHANGED <<evmHeight, evmLogs>>,
         \A i \in DOMAIN evmLogs :
           evmLogs[i].block <= f - 1 /\ evmLogs[i].block <= latest - SafetyWindow =>
             Done(i)'
  PROVE  ScanCovers' /\ evm'.pc \in {"sleep", "filter"}
<1>1. CASE evm'.pc = "sleep"
  BY <1>1, ScanRests
<1>2. CASE evm'.pc # "sleep"
  <2>1. /\ evm'.pc = "filter" /\ f < latest
        /\ evm'.from = f /\ evm'.latest = latest /\ evm'.logs = <<>>
        /\ f <= evm'.to /\ evm'.to <= latest /\ evm'.to <= f + BlockBatch - 1
        /\ evm'.to = latest \/ evm'.to = f + BlockBatch - 1
    BY <1>2, BatchFacts
  <2>2. BatchBounds'
    BY <2>1 DEF BatchBounds
  <2>3. Len(evm'.logs) = 0 /\ DOMAIN evm'.logs = {}
    BY <2>1, EmptySeq
  <2>4. Len(evmLogs) \in Nat
    BY LogsAre DEF TypeOK, EvmTypeOK
  <2>5. LogsFrom(0)'
    BY <2>3, <2>4, SMT DEF LogsFrom
  <2>6. Reach' = f - 1
    BY <2>1 DEF Reach
  <2>7. Covered(0)'
    BY <2>1, <2>6 DEF Covered
  <2>8. 0 \in 0 .. Len(evmLogs')
    BY <2>4, SMT
  <2> QED
    BY <2>1, <2>2, <2>5, <2>7, <2>8, Zenon DEF ScanCovers
<1> QED
  BY <1>1, <1>2

LEMMA LatestStep ==
  ASSUME TypeOK, EvmInv, EvmLatest
  PROVE  EvmInv'
<1>1. /\ UNCHANGED <<records, indexed, issued, redisErrors, restarts, client>>
      /\ UNCHANGED <<evmHeight, evmLogs, evmCursor>> /\ evm.pc = "latest"
  BY DEF EvmLatest, evmChain, sharedVars, keptVars, storeVars, flags
<1>2. KeysAreIssued' /\ PaymentsUnderWay' /\ QueuedOnce' /\ Kept
  BY <1>1, StoreUntouched DEF EvmInv
<1>3. ChainInOrder' /\ BehindIsDone'
  BY <1>1, <1>2, ChainUntouched, BehindKept DEF EvmInv
<1>4. PICK latest \in Nat, f \in Int :
        /\ SafetyWindow <= latest /\ latest <= evmHeight
        /\ f >= 1 /\ evm' = Batch(f, latest)
        /\ f = (IF evmCursor = NoCursor THEN latest ELSE evmCursor) - SafetyWindow + 1
  BY LatestFacts, BoundsHold DEF EvmInv
<1>5. ASSUME NEW i \in DOMAIN evmLogs, evmLogs[i].block <= f - 1
      PROVE  Done(i)'
  <2>1. evmCursor # NoCursor
    BY DEF EvmInv, ChainInOrder
  <2>2. evmCursor \in Nat
    BY <2>1 DEF TypeOK, EvmTypeOK
  <2>3. evmLogs[i].block \in Nat
    BY LogsAre DEF TypeOK, EvmTypeOK
  <2>4. Behind(i)
    BY <1>4, <1>5, <2>1, <2>2, <2>3, ConstantFacts, SMT DEF Behind
  <2> QED
    BY <1>2, <2>4, DoneKept DEF EvmInv, BehindIsDone
<1>6. ScanCovers' /\ evm'.pc \in {"sleep", "filter"}
  BY <1>1, <1>4, <1>5, BatchBegins
<1>7. ScannerInv'
  <2>1. Caller' = Idle
    BY <1>1 DEF EvmInv, ScannerInv, AtLog, Caller
  <2> QED
    BY <1>6, <2>1, ScannerRests DEF AtLog
<1>8. PaymentIsKept'
  BY <1>1, <1>2, PaymentStays DEF EvmInv
<1> QED
  BY <1>2, <1>3, <1>6, <1>7, <1>8 DEF EvmInv

LEMMA FilterStep ==
  ASSUME TypeOK, EvmInv, EvmFilter
  PROVE  EvmInv'
<1>0. evm \in EvmLocals /\ Len(evmLogs) \in Nat /\ DOMAIN evmLogs = 1 .. Len(evmLogs)
  BY LocalsAre, LogsAre DEF TypeOK, EvmTypeOK
<1>1. /\ UNCHANGED <<records, indexed, issued, redisErrors, restarts, client>>
      /\ UNCHANGED <<evmHeight, evmLogs, evmCursor>> /\ evm.pc = "filter"
  BY DEF EvmFilter, evmChain, sharedVars, keptVars, storeVars, flags
<1>2. KeysAreIssued' /\ PaymentsUnderWay' /\ QueuedOnce' /\ Kept
  BY <1>1, StoreUntouched DEF EvmInv
<1>3. ChainInOrder' /\ BehindIsDone'
  BY <1>1, <1>2, ChainUntouched, BehindKept DEF EvmInv
<1>4. PICK head \in NodeHeight, m \in 0 .. Len(evmLogs), s \in Seq(Log) :
        /\ \A i \in DOMAIN evmLogs :
             i \in m + 1 .. m + Len(s) <=>
               /\ evm.from <= evmLogs[i].block /\ evmLogs[i].block <= evm.to
               /\ evmLogs[i].block <= head
        /\ m + Len(s) <= Len(evmLogs)
        /\ \A j \in 1 .. Len(s) : s[j] = evmLogs[m + j]
        /\ evm' = [evm EXCEPT !.pc = "next", !.logs = s]
  BY FilterFacts
<1>5. /\ evm'.pc = "next" /\ evm'.logs = s
      /\ evm'.from = evm.from /\ evm'.to = evm.to /\ evm'.latest = evm.latest
  BY <1>0, <1>4, SMT DEF EvmLocals
<1>6. Len(s) \in Nat /\ DOMAIN s = 1 .. Len(s)
  BY LenProperties
<1>7. BatchBounds /\ \E n \in 0 .. Len(evmLogs) : LogsFrom(n) /\ Covered(n)
  BY <1>1 DEF EvmInv, ScanCovers, Scanning
<1>8. /\ evm.from \in Int /\ evm.to \in Nat /\ evm.latest \in Nat /\ evmHeight \in Nat
      /\ \A i \in DOMAIN evmLogs : evmLogs[i].block \in Nat
  BY LocalsAre, LogsAre, SMT DEF TypeOK, EvmTypeOK
<1>9. LogsFrom(m)'
  <2>1. ASSUME NEW j \in 1 .. Len(s)
        PROVE  s[j] = evmLogs[m + j] /\ evmLogs[m + j].block \in evm.from .. evm.to
    <3>1. m + j \in m + 1 .. m + Len(s) /\ m + j \in DOMAIN evmLogs
      BY <1>0, <1>4, <1>6, SMT
    <3>2. evm.from <= evmLogs[m + j].block /\ evmLogs[m + j].block <= evm.to
      BY <1>4, <3>1
    <3> QED
      BY <1>4, <1>8, <3>1, <3>2, SMT
  <2> QED
    BY <1>1, <1>4, <1>5, <1>6, <2>1 DEF LogsFrom
<1>10. Covered(m)'
  <2>1. ASSUME NEW i \in DOMAIN evmLogs, evmLogs[i].block <= evm.to,
               evmLogs[i].block <= evm.latest - SafetyWindow
        PROVE  Done(i)' \/ i \in m + 1 .. m + Len(s)
    <3>1. CASE evm.from <= evmLogs[i].block
      <4>1. head \in Int /\ head >= evmHeight - Lag
        BY <1>8, ConstantFacts, SMT DEF NodeHeight
      <4>2. evmLogs[i].block <= head
        BY <1>7, <1>8, <2>1, <4>1, ConstantFacts, SMT DEF BatchBounds
      <4> QED
        BY <1>4, <2>1, <3>1, <4>2
    <3>2. CASE ~ (evm.from <= evmLogs[i].block)
      <4>1. evmLogs[i].block <= Reach
        BY <1>1, <1>8, <3>2, SMT DEF Reach
      <4>2. PICK n \in 0 .. Len(evmLogs) : Covered(n)
        BY <1>7
      <4>3. Len(evm.logs) = 0
        BY <1>1, EmptySeq DEF EvmInv, ScanCovers
      <4>4. Done(i)
        BY <1>0, <2>1, <4>1, <4>2, <4>3, SMT DEF Covered
      <4> QED
        BY <1>2, <4>4, DoneKept
    <3> QED
      BY <3>1, <3>2
  <2>2. Reach' = evm.to
    BY <1>5 DEF Reach
  <2> QED
    BY <1>1, <1>5, <2>1, <2>2 DEF Covered
<1>11. ScanCovers'
  <2>1. BatchBounds'
    BY <1>1, <1>5, <1>7 DEF BatchBounds
  <2> QED
    BY <1>1, <1>5, <1>9, <1>10, <2>1 DEF ScanCovers
<1>12. ScannerInv'
  <2>1. Caller' = Idle
    BY <1>1 DEF EvmInv, ScannerInv, AtLog, Caller
  <2> QED
    BY <1>5, <2>1, ScannerRests DEF AtLog
<1>13. PaymentIsKept'
  BY <1>1, <1>2, PaymentStays DEF EvmInv
<1> QED
  BY <1>2, <1>3, <1>11, <1>12, <1>13 DEF EvmInv

(* SetEVMScannedBlock: everything in the blocks up to it, or known not to  *)
(* be in them to the node that was asked, is done.                         *)
LEMMA AdvanceStep ==
  ASSUME TypeOK, EvmInv, EvmAdvance \/ EvmAdvanceFails
  PROVE  EvmInv'
<1>1. /\ UNCHANGED <<records, indexed, issued, restarts, client>>
      /\ UNCHANGED <<evmHeight, evmLogs>> /\ evm.pc = "next" /\ evm.logs = <<>>
      /\ evm' = Batch(evm.from + BlockBatch, evm.latest)
      /\ evmCursor' \in {evm.to, evmCursor}
      /\ redisErrors' = redisErrors \/ redisErrors' = redisErrors + 1
  BY DEF EvmAdvance, EvmAdvanceFails, EvmDone, CommandFails, evmChain, storeVars, flags
<1>2. redisErrors' = 0 => redisErrors = 0 /\ evmCursor' = evm.to
  <2>1. redisErrors \in Nat
    BY SharedAssumption, SMT DEF TypeOK, SharedTypeOK
  <2> QED
    BY <1>1, <2>1, SMT DEF EvmAdvance, EvmAdvanceFails, CommandFails
<1>3. KeysAreIssued' /\ PaymentsUnderWay' /\ QueuedOnce' /\ Kept
  BY <1>1, StoreUntouched DEF EvmInv
<1>4. \A i \in DOMAIN evmLogs : Done(i) => Done(i)'
  BY <1>3, DoneKept
<1>5. /\ BatchBounds
      /\ evm.from \in Int /\ evm.to \in Nat /\ evm.latest \in Nat /\ evmHeight \in Nat
      /\ Len(evmLogs) \in Nat
      /\ \A i \in DOMAIN evmLogs : evmLogs[i].block \in Nat
  BY <1>1, LocalsAre, LogsAre, SMT
     DEF TypeOK, EvmTypeOK, EvmInv, ScanCovers, Scanning
<1>6. ASSUME NEW i \in DOMAIN evmLogs, evmLogs[i].block <= evm.to,
             evmLogs[i].block <= evm.latest - SafetyWindow
      PROVE  Done(i)'
  <2>1. PICK m \in 0 .. Len(evmLogs) : Covered(m)
    BY <1>1 DEF EvmInv, ScanCovers, Scanning
  <2>2. Len(evm.logs) = 0
    BY <1>1, EmptySeq
  <2>3. Reach = evm.to
    BY <1>1 DEF Reach
  <2>4. Done(i)
    BY <1>5, <1>6, <2>1, <2>2, <2>3, SMT DEF Covered
  <2> QED
    BY <1>4, <2>4
<1>7. ScanCovers' /\ evm'.pc \in {"sleep", "filter"}
  <2>1. PICK f : f = evm.from + BlockBatch
    OBVIOUS
  <2>2. PICK latest \in Nat : latest = evm.latest
    BY <1>5
  <2>3. f \in Int /\ f >= 1 /\ SafetyWindow <= latest /\ latest <= evmHeight
    BY <1>5, <2>1, <2>2, ConstantFacts, SMT DEF BatchBounds
  <2>4. ASSUME NEW i \in DOMAIN evmLogs,
               evmLogs[i].block <= f - 1 /\ evmLogs[i].block <= latest - SafetyWindow
        PROVE  Done(i)'
    <3>1. PICK b \in Nat : b = evmLogs[i].block
      BY <1>5
    <3>2. b <= f - 1 /\ b <= evm.latest - SafetyWindow
      BY <2>2, <2>4, <3>1
    <3>3. b <= evm.to
      <4>1. CASE evm.to = evm.latest
        BY <1>5, <3>2, <4>1, ConstantFacts, SMT
      <4>2. CASE evm.to = evm.from + BlockBatch - 1
        BY <1>5, <2>1, <3>2, <4>2, ConstantFacts, SMT
      <4> QED
        BY <1>5, <4>1, <4>2 DEF BatchBounds
    <3> QED
      BY <1>6, <3>1, <3>2, <3>3
  <2>5. evm' = Batch(f, latest)
    BY <1>1, <2>1, <2>2
  <2> QED
    BY <1>1, <2>3, <2>4, <2>5, BatchBegins
<1>8. ChainInOrder'
  <2>1. evm.to \in SafetyWindow .. evmHeight
    BY <1>5, ConstantFacts, SMT DEF BatchBounds
  <2>2. evm.to # NoCursor
    BY <1>5, SMT DEF NoCursor
  <2> QED
    BY <1>1, <1>3, <2>1, <2>2 DEF EvmInv, ChainInOrder, Kept
<1>9. BehindIsDone'
  <2>1. CASE evmCursor' = evm.to
    <3>1. ASSUME NEW i \in DOMAIN evmLogs, evmLogs[i].block <= evm.to - SafetyWindow
          PROVE  Done(i)'
      BY <1>5, <1>6, <3>1, ConstantFacts, SMT DEF BatchBounds
    <3> QED
      BY <1>1, <2>1, <3>1 DEF BehindIsDone, Behind
  <2>2. CASE evmCursor' = evmCursor
    BY <1>1, <1>3, <2>2, BehindKept DEF EvmInv
  <2> QED
    BY <1>1, <2>1, <2>2
<1>10. ScannerInv'
  <2>1. Caller' = Idle
    BY <1>1 DEF EvmInv, ScannerInv, AtLog, Caller
  <2> QED
    BY <1>7, <2>1, ScannerRests DEF AtLog
<1>11. PaymentIsKept'
  BY <1>1, <1>3, PaymentStays DEF EvmInv
<1> QED
  BY <1>3, <1>7, <1>8, <1>9, <1>10, <1>11 DEF EvmInv

(***************************************************************************)
(* The log in hand.                                                        *)
(***************************************************************************)
LEMMA HandFacts ==
  ASSUME TypeOK, EvmInv, evm.pc \in {"next", "dedupe", "settle", "store"}, evm.logs # <<>>
  PROVE  /\ \E m \in 0 .. Len(evmLogs) :
              /\ LogsFrom(m) /\ Covered(m)
              /\ m + 1 \in DOMAIN evmLogs /\ evmLogs[m + 1].transfer = Transfer
              /\ evm.from <= evmLogs[m + 1].block /\ evmLogs[m + 1].block <= evm.to
         /\ Logged(Transfer)
         /\ Transfer \in EVMDeposits =>
              \A o \in InFlight : SourceTx[o.deposit] # SourceTx[Transfer]
         /\ Transfer \notin EVMDeposits => \E o \in UnderWay : o.destTx = Transfer
<1>1. PICK m \in 0 .. Len(evmLogs) : LogsFrom(m) /\ Covered(m)
  BY DEF EvmInv, ScanCovers, Scanning, AtLog
<1>2. /\ Len(evm.logs) >= 1 /\ 1 \in DOMAIN evm.logs
      /\ Transfer = evm.logs[1].transfer
  BY HeadFacts
<1>3. /\ Len(evmLogs) \in Nat /\ DOMAIN evmLogs = 1 .. Len(evmLogs)
      /\ \A i \in DOMAIN evmLogs : evmLogs[i].block \in Nat
      /\ evm.from \in Int /\ evm.to \in Nat /\ Len(evm.logs) \in Nat
  BY LogsAre, LocalsAre DEF TypeOK, EvmTypeOK
<1>4. /\ m + Len(evm.logs) <= Len(evmLogs)
      /\ evm.logs[1] = evmLogs[m + 1] /\ evmLogs[m + 1].block \in evm.from .. evm.to
  BY <1>1, <1>2 DEF LogsFrom
<1>5. m + 1 \in DOMAIN evmLogs /\ evmLogs[m + 1].transfer = Transfer
  BY <1>2, <1>3, <1>4, SMT
<1>6. evm.from <= evmLogs[m + 1].block /\ evmLogs[m + 1].block <= evm.to
  BY <1>3, <1>4, SMT
<1>7. /\ Transfer \in EVMDeposits =>
           \A o \in InFlight : SourceTx[o.deposit] # SourceTx[Transfer]
      /\ Transfer \notin EVMDeposits => \E o \in UnderWay : o.destTx = Transfer
  BY <1>5 DEF EvmInv, ChainInOrder
<1> QED
  BY <1>1, <1>5, <1>6, <1>7 DEF Logged

(* A search is begun: nothing of it has been read yet. *)
LEMMA AskStep ==
  ASSUME TypeOK, EvmInv, EvmIncoming \/ EvmOutgoing
  PROVE  EvmInv'
<1>0. /\ evm \in EvmLocals /\ EvmScan \in Workers
      /\ indexed \subseteq Keys /\ client \in [Workers -> Client]
  BY LocalsAre, ConstantFacts DEF TypeOK, SharedTypeOK
<1>1. /\ UNCHANGED <<records, indexed, issued, redisErrors, restarts>>
      /\ UNCHANGED <<evmHeight, evmLogs, evmCursor>>
      /\ evm.pc = "next" /\ evm.logs # <<>>
  BY DEF EvmIncoming, EvmOutgoing, keptVars, storeVars, flags, evmChain
<1>2. KeysAreIssued' /\ PaymentsUnderWay' /\ QueuedOnce' /\ Kept
  BY <1>1, StoreUntouched DEF EvmInv
<1>3. ChainInOrder' /\ BehindIsDone'
  BY <1>1, <1>2, ChainUntouched, BehindKept DEF EvmInv
<1>4. PICK c \in Client :
        /\ client' = [client EXCEPT ![EvmScan] = c]
        /\ c.cmd = "sscan" /\ c.op = NoOp /\ c.todo = Status /\ c.keys = {}
        /\ \/ /\ Transfer \in EVMDeposits /\ evm' = [evm EXCEPT !.pc = "dedupe"]
              /\ c.field = "SourceTxHash" /\ c.value = SourceTx[Transfer]
           \/ /\ Transfer \notin EVMDeposits /\ evm' = [evm EXCEPT !.pc = "settle"]
              /\ c.field = "DestTxHash" /\ c.value = Transfer
  <2>1. CASE EvmIncoming
    <3>1. Transfer \in Deposits
      BY <2>1, ConstantFacts DEF EvmIncoming
    <3> DEFINE c == FindSourceTx(SourceTx[Transfer])
    <3>2. /\ c \in Client
          /\ c.cmd = "sscan" /\ c.op = NoOp /\ c.todo = Status /\ c.keys = {}
          /\ c.field = "SourceTxHash" /\ c.value = SourceTx[Transfer]
      BY <3>1, FindSourceTxFacts
    <3>3. /\ client' = [client EXCEPT ![EvmScan] = c]
          /\ Transfer \in EVMDeposits /\ evm' = [evm EXCEPT !.pc = "dedupe"]
      BY <2>1 DEF EvmIncoming, Call, EvmAt
    <3> QED
      BY <3>2, <3>3
  <2>2. CASE EvmOutgoing
    <3>1. Transfer \in Nat
      BY <2>2, HeadFacts DEF EvmOutgoing
    <3> DEFINE c == FindDestTx(Transfer)
    <3>2. /\ c \in Client
          /\ c.cmd = "sscan" /\ c.op = NoOp /\ c.todo = Status /\ c.keys = {}
          /\ c.field = "DestTxHash" /\ c.value = Transfer
      BY <3>1, FindDestTxFacts
    <3>3. /\ client' = [client EXCEPT ![EvmScan] = c]
          /\ Transfer \notin EVMDeposits /\ evm' = [evm EXCEPT !.pc = "settle"]
      BY <2>2 DEF EvmOutgoing, Call, EvmAt
    <3> QED
      BY <3>2, <3>3
  <2> QED
    BY <2>1, <2>2
<1>5. /\ evm'.logs = evm.logs /\ evm'.from = evm.from
      /\ evm'.to = evm.to /\ evm'.latest = evm.latest
      /\ \/ evm'.pc = "dedupe" /\ Transfer \in EVMDeposits
         \/ evm'.pc = "settle" /\ Transfer \notin EVMDeposits
  BY <1>0, <1>4, SMT DEF EvmLocals
<1>6. Caller' = c /\ Transfer' = Transfer
  BY <1>0, <1>4, <1>5 DEF Caller, Transfer
<1>7. SearchAsked'
  BY <1>0, <1>4, <1>6, SMT DEF SearchAsked, EvmLocals
<1>8. \A k \in indexed : k[1] \in Status
  BY <1>0 DEF Keys
<1>9. Searching'
  <2>1. Caller'.cmd = "sscan" /\ Caller'.op = NoOp /\ Caller'.keys = {} /\ Caller'.todo = Status
    BY <1>4, <1>6
  <2> QED
    BY <1>1, <1>7, <1>8, <2>1 DEF Searching
<1>10. ScannerInv'
  BY <1>1, <1>4, <1>5, <1>6, <1>9 DEF ScannerInv, AtLog
<1>11. PaymentIsKept' /\ ScanCovers'
  BY <1>1, <1>2, <1>5, PaymentStays, ScanGoesOn DEF EvmInv
<1> QED
  BY <1>2, <1>3, <1>10, <1>11 DEF EvmInv

(***************************************************************************)
(* A search: SSCAN and GET.                                                *)
(***************************************************************************)
LEMMA SearchListed ==
  ASSUME TypeOK, Searching, SScan(EvmScan), evm' = evm
  PROVE  Searching' /\ Caller'.cmd # "err"
<1>0. /\ Caller \in Client /\ indexed \subseteq Keys /\ EvmScan \in Workers
  BY ConstantFacts DEF TypeOK, SharedTypeOK, Caller
<1>1. PICK s \in Caller.todo : client' = [client EXCEPT ![EvmScan] = Listed(Caller, s)]
  BY DEF SScan, Call, Caller
<1>2. Caller.cmd = "sscan" /\ UNCHANGED <<records, indexed>>
  BY DEF SScan, keptVars, storeVars, Caller
<1>3. /\ Caller.op = NoOp /\ Caller.keys = {} /\ SearchAsked
      /\ \A k \in indexed : Sought(k) => k[1] \in Caller.todo
  BY <1>2 DEF Searching
<1> DEFINE K == {k \in indexed : k[1] = s}
           T == Caller.todo \ {s}
           c == [Caller EXCEPT !.todo = T, !.keys = K]
<1>4. K \in SUBSET Keys /\ K \subseteq indexed /\ T \in SUBSET Status
  BY <1>0, SMT DEF Client
<1>5. \A k \in indexed : Sought(k) => k \in K \/ k[1] \in T
  BY <1>3
<1>6. Caller' = Continue(c)
  BY <1>0, <1>1 DEF Listed, Caller, TypeOK, SharedTypeOK
<1> HIDE DEF K, T
<1>7. /\ c \in Client /\ c.op = NoOp /\ c.todo = T /\ c.keys = K
      /\ c.field = Caller.field /\ c.value = Caller.value
  <2>1. c \in Client
    BY <1>0, <1>4, Zenon DEF Client
  <2>2. /\ c.op = Caller.op /\ c.todo = T /\ c.keys = K
        /\ c.field = Caller.field /\ c.value = Caller.value
    BY <1>0, SMT DEF Client
  <2> QED
    BY <1>3, <2>1, <2>2
<1> HIDE DEF c
<1>8. /\ Caller'.cmd \in {"get", "sscan", "ok"}
      /\ Caller'.op = NoOp /\ Caller'.todo = T /\ Caller'.keys = K
      /\ Caller'.field = Caller.field /\ Caller'.value = Caller.value
      /\ Caller'.cmd = "sscan" => K = {}
      /\ Caller'.cmd = "ok" => K = {} /\ T = {}
  BY <1>6, <1>7, ContinuedSearch
<1>9. SearchAsked' /\ \A k : Sought(k)' <=> Sought(k)
  BY <1>2, <1>3, <1>8 DEF SearchAsked, Sought, Transfer
<1> QED
  BY <1>2, <1>4, <1>5, <1>8, <1>9 DEF Searching

LEMMA SearchRead ==
  ASSUME TypeOK, KeysAreIssued, Searching, Get(EvmScan), evm' = evm
  PROVE  Searching' /\ Caller'.cmd # "err"
<1>0. /\ Caller \in Client /\ indexed \subseteq Keys /\ EvmScan \in Workers
  BY ConstantFacts DEF TypeOK, SharedTypeOK, Caller
<1>1. PICK k \in Caller.keys :
       \/ records[k] = NoOp
       \/ /\ records[k] # NoOp /\ Matches(records[k], Caller)
          /\ Call(EvmScan, Found(records[k]))
       \/ /\ ~ Matches(records[k], Caller)
          /\ Call(EvmScan, Continue([Caller EXCEPT !.keys = Caller.keys \ {k}]))
  BY DEF Get, Caller
<1>2. Caller.cmd = "get" /\ UNCHANGED <<records, indexed>>
  BY DEF Get, keptVars, storeVars, Caller
<1>3. /\ Caller.op = NoOp /\ Caller.keys \subseteq indexed /\ SearchAsked
      /\ \A l \in indexed : Sought(l) => l \in Caller.keys \/ l[1] \in Caller.todo
  BY <1>2 DEF Searching
<1>4. \A l : Sought(l)' <=> Sought(l)
  BY <1>2 DEF Sought, Transfer
<1>5. k \in indexed /\ records[k] # NoOp /\ records[k] \in BridgeOperation
  <2>1. k \in indexed /\ k \in Keys
    BY <1>0, <1>1, <1>3
  <2>2. records[k] # NoOp
    BY <2>1 DEF KeysAreIssued
  <2>3. records \in [Keys -> BridgeOperation \union {NoOp}]
    BY DEF TypeOK, SharedTypeOK
  <2> QED
    BY <2>1, <2>2, <2>3
<1>6. Matches(records[k], Caller) <=> Sought(k)
  <2>1. CASE evm.pc = "dedupe" /\ Caller.field = "SourceTxHash" /\ Caller.value = SourceTx[Transfer]
    <3>1. Caller.field # "Status" /\ Caller.field # "DestTxHash"
      BY <2>1
    <3> QED
      BY <2>1, <3>1 DEF Matches, Sought
  <2>2. CASE evm.pc = "settle" /\ Caller.field = "DestTxHash" /\ Caller.value = Transfer
    <3>1. Caller.field # "Status" /\ Caller.field # "SourceTxHash" /\ evm.pc # "dedupe"
      BY <2>2
    <3> QED
      BY <2>2, <3>1 DEF Matches, Sought
  <2> QED
    BY <1>3, <2>1, <2>2 DEF SearchAsked
<1>7. CASE Matches(records[k], Caller) /\ Call(EvmScan, Found(records[k]))
  <2>1. Caller' = Found(records[k])
    BY <1>0, <1>7 DEF Call, Caller, TypeOK, SharedTypeOK
  <2>2. /\ Caller'.cmd = "ok" /\ Caller'.op = records[k] /\ Caller'.op # NoOp
        /\ Caller'.keys = {} /\ Caller'.todo = {}
    BY <1>5, <2>1, FoundFacts
  <2>3. k \in indexed' /\ records'[k] = Caller'.op /\ Sought(k)'
    BY <1>2, <1>4, <1>5, <1>6, <1>7, <2>2
  <2> QED
    BY <2>2, <2>3 DEF Searching
<1>8. CASE /\ ~ Matches(records[k], Caller)
           /\ Call(EvmScan, Continue([Caller EXCEPT !.keys = Caller.keys \ {k}]))
  <2> DEFINE K == Caller.keys \ {k}
             c == [Caller EXCEPT !.keys = K]
  <2>1. Caller' = Continue(c)
    BY <1>0, <1>8 DEF Call, Caller, TypeOK, SharedTypeOK
  <2>2. K \in SUBSET Keys /\ K \subseteq indexed
    BY <1>0, <1>3
  <2>3. \A l \in indexed : Sought(l) => l \in K \/ l[1] \in Caller.todo
    BY <1>3, <1>6, <1>8
  <2> HIDE DEF K
  <2>4. /\ c \in Client /\ c.op = NoOp /\ c.todo = Caller.todo /\ c.keys = K
        /\ c.field = Caller.field /\ c.value = Caller.value
    <3>1. c \in Client
      BY <1>0, <2>2, SMT DEF Client
    <3>2. /\ c.op = Caller.op /\ c.todo = Caller.todo /\ c.keys = K
          /\ c.field = Caller.field /\ c.value = Caller.value
      BY <1>0, SMT DEF Client
    <3> QED
      BY <1>3, <3>1, <3>2
  <2> HIDE DEF c
  <2>5. /\ Caller'.cmd \in {"get", "sscan", "ok"}
        /\ Caller'.op = NoOp /\ Caller'.todo = Caller.todo /\ Caller'.keys = K
        /\ Caller'.field = Caller.field /\ Caller'.value = Caller.value
        /\ Caller'.cmd = "sscan" => K = {}
        /\ Caller'.cmd = "ok" => K = {} /\ Caller.todo = {}
    BY <2>1, <2>4, ContinuedSearch
  <2>6. SearchAsked'
    BY <1>3, <2>5 DEF SearchAsked, Transfer
  <2> QED
    BY <1>2, <1>4, <2>2, <2>3, <2>5, <2>6 DEF Searching
<1> QED
  BY <1>1, <1>5, <1>7, <1>8

LEMMA SearchStep ==
  ASSUME TypeOK, EvmInv, SScan(EvmScan) \/ Get(EvmScan), UNCHANGED evmVars
  PROVE  EvmInv'
<1>1. /\ UNCHANGED <<records, indexed, issued, redisErrors, restarts>>
      /\ UNCHANGED <<evmHeight, evmLogs, evmCursor, evm>>
      /\ Caller.cmd \in {"sscan", "get"}
  BY DEF SScan, Get, keptVars, storeVars, flags, evmVars, Caller
<1>2. KeysAreIssued' /\ PaymentsUnderWay' /\ QueuedOnce' /\ Kept
  BY <1>1, StoreUntouched DEF EvmInv
<1>3. ChainInOrder' /\ BehindIsDone' /\ ScanCovers'
  BY <1>1, <1>2, ChainUntouched, BehindKept, ScanSteady DEF EvmInv
<1>4. evm.pc \in {"dedupe", "settle"}
  <2>1. AtLog
    BY <1>1, IdleFacts DEF EvmInv, ScannerInv
  <2>2. evm.pc # "store"
    BY <1>1 DEF EvmInv, ScannerInv, StoringDeposit, Settling
  <2> QED
    BY <2>1, <2>2 DEF AtLog
<1>5. Searching' /\ Caller'.cmd # "err"
  BY <1>1, <1>4, SearchListed, SearchRead DEF EvmInv, ScannerInv
<1>6. ScannerInv'
  <2>1. Transfer' = Transfer
    BY <1>1 DEF Transfer
  <2> QED
    BY <1>1, <1>4, <1>5, <2>1 DEF EvmInv, ScannerInv, AtLog
<1>7. PaymentIsKept'
  BY <1>1, <1>2, <1>4, PaymentStays DEF EvmInv
<1> QED
  BY <1>2, <1>3, <1>6, <1>7 DEF EvmInv

(***************************************************************************)
(* What follows an answer.                                                 *)
(***************************************************************************)

(* What a search has found: the operation sought; or there is none.        *)
LEMMA SearchAnswer ==
  ASSUME TypeOK, EvmInv, evm.pc \in {"dedupe", "settle"}, Returned(EvmScan)
  PROVE  /\ Caller.cmd = "err" => redisErrors > 0
         /\ Caller.op # NoOp => \E k \in indexed : records[k] = Caller.op /\ Sought(k)
         /\ Caller.op = NoOp /\ Caller.cmd # "err" => \A k \in indexed : ~ Sought(k)
<1>1. Searching /\ Caller.cmd \in {"ok", "err"}
  BY DEF EvmInv, ScannerInv, Returned, Caller
<1> QED
  BY <1>1 DEF Searching, EvmInv, ScannerInv

(* A deposit that nothing on record has the hash of becomes an operation.  *)
LEMMA NewStep ==
  ASSUME TypeOK, EvmInv, EvmNew
  PROVE  EvmInv'
<1>0. /\ evm \in EvmLocals /\ EvmScan \in Workers
      /\ indexed \subseteq Keys /\ client \in [Workers -> Client]
  BY LocalsAre, ConstantFacts DEF TypeOK, SharedTypeOK
<1>1. /\ UNCHANGED <<records, indexed, redisErrors, restarts>>
      /\ UNCHANGED <<evmHeight, evmLogs, evmCursor>>
      /\ evm.pc = "dedupe" /\ evm' = [evm EXCEPT !.pc = "store"]
      /\ Returned(EvmScan) /\ Caller.cmd # "err" /\ Caller.op = NoOp
      /\ Create(EvmScan, Transfer, "pending")
  BY DEF EvmNew, Failed, Caller, EvmAt, storeVars, flags, evmChain
<1>2. Transfer \in EVMDeposits /\ Transfer \in Deposits /\ evm.logs # <<>>
  BY <1>1, ConstantFacts DEF EvmInv, ScannerInv, AtLog
<1>3. "pending" \in Status
  BY DEF Status
<1>4. PICK o \in BridgeOperation :
        /\ o.status = "pending" /\ o.deposit = Transfer /\ o.destTx = 0
        /\ \A p \in issued : p[1] # o.id
        /\ issued' = issued \union {<<o.id, Transfer>>}
        /\ client' = [client EXCEPT ![EvmScan] = UpsertCall(o)]
  <2>1. PICK id \in OpIds :
          /\ \A p \in issued : p[1] # id
          /\ issued' = issued \union {<<id, Transfer>>}
          /\ client' = [client EXCEPT ![EvmScan] =
                          UpsertCall([id |-> id, status |-> "pending",
                                      deposit |-> Transfer, destTx |-> 0])]
    BY <1>1 DEF Create, Call
  <2> DEFINE o == [id |-> id, status |-> "pending", deposit |-> Transfer, destTx |-> 0]
  <2>2. /\ o \in BridgeOperation
        /\ o.id = id /\ o.status = "pending" /\ o.deposit = Transfer /\ o.destTx = 0
    BY <1>2, <1>3, SMT DEF BridgeOperation
  <2> QED
    BY <2>1, <2>2
<1>5. \A k \in indexed : SourceTx[records[k].deposit] # SourceTx[Transfer]
  <2>1. \A k \in indexed : ~ Sought(k)
    BY <1>1, SearchAnswer
  <2> QED
    BY <1>1, <2>1 DEF Sought
<1>6. \A x \in InFlight : SourceTx[x.deposit] # SourceTx[Transfer]
  BY <1>1, <1>2, HandFacts
<1>7. UnderWay' = UnderWay
  <2>1. ASSUME NEW x \in InFlight PROVE <<x.id, x.deposit>> # <<o.id, Transfer>>
    BY <1>6
  <2> QED
    BY <1>4, <2>1 DEF UnderWay
<1>8. KeysAreIssued' /\ QueuedOnce'
  <2>1. ASSUME NEW p \in issued', NEW q \in issued', p[1] = q[1]
        PROVE  p = q
    <3>1. <<o.id, Transfer>>[1] = o.id
      OBVIOUS
    <3> QED
      BY <1>4, <2>1, <3>1 DEF EvmInv, KeysAreIssued
  <2> QED
    BY <1>1, <1>4, <2>1 DEF EvmInv, KeysAreIssued, QueuedOnce, Queued
<1>9. PaymentsUnderWay'
  BY <1>1, <1>7 DEF EvmInv, PaymentsUnderWay, Pays
<1>10. Kept
  <2>1. \A t : OnRecord(t) <=> OnRecord(t)'
    BY <1>1 DEF OnRecord, Recorded
  <2>2. \A x : SettledKey(x)' = SettledKey(x)
    BY DEF SettledKey
  <2> QED
    BY <1>1, <1>7, <2>1, <2>2 DEF Kept
<1>11. /\ evm'.pc = "store" /\ evm'.logs = evm.logs /\ evm'.from = evm.from
       /\ evm'.to = evm.to /\ evm'.latest = evm.latest
  BY <1>0, <1>1, SMT DEF EvmLocals
<1>12. Transfer' = Transfer /\ Caller' = UpsertCall(o)
  BY <1>0, <1>4, <1>11 DEF Transfer, Caller
<1>13. StoringDeposit'
  <2>1. Caller'.cmd = "set" /\ Caller'.op = o
    BY <1>12, UpsertCallFacts
  <2>2. <<o.id, o.deposit>> \in issued'
    BY <1>4
  <2>3. \A k \in indexed : k[2] # o.id
    <3>1. \A k \in indexed : <<k[2], records[k].deposit>> \in issued
      BY DEF EvmInv, KeysAreIssued
    <3>2. \A k : <<k[2], records[k].deposit>>[1] = k[2]
      OBVIOUS
    <3> QED
      BY <1>4, <3>1, <3>2
  <2>4. \A x \in UnderWay : o.id # x.id
    <3>1. \A x : <<x.id, x.deposit>>[1] = x.id
      OBVIOUS
    <3> QED
      BY <1>4, <3>1 DEF UnderWay
  <2> QED
    BY <1>1, <1>4, <1>5, <1>7, <1>12, <2>1, <2>2, <2>3, <2>4 DEF StoringDeposit
<1>14. ScannerInv'
  <2>1. Caller'.cmd # "err"
    BY <1>12, UpsertCallFacts
  <2> QED
    BY <1>2, <1>11, <1>12, <1>13, <2>1 DEF ScannerInv, AtLog
<1>15. ChainInOrder' /\ BehindIsDone' /\ ScanCovers' /\ PaymentIsKept'
  BY <1>1, <1>10, <1>11, ChainUntouched, BehindKept, ScanGoesOn, PaymentStays DEF EvmInv
<1> QED
  BY <1>8, <1>9, <1>14, <1>15 DEF EvmInv

(* The operation that a payment belongs to, as the search has found it.    *)
LEMMA FoundPays ==
  ASSUME TypeOK, EvmInv, evm.pc = "settle", Returned(EvmScan), Caller.op # NoOp
  PROVE  \E o \in UnderWay :
           /\ Caller.op.id = o.id /\ Caller.op.deposit = o.deposit
           /\ Caller.op.destTx = o.destTx /\ o.destTx = Transfer
           /\ Caller.op.status \in {o.status, Settled(o.status)}
           /\ <<Caller.op.status, Caller.op.id>> \in indexed
<1>1. Transfer \notin EVMDeposits /\ evm.logs # <<>>
  BY DEF EvmInv, ScannerInv, AtLog
<1>2. PICK k \in indexed : records[k] = Caller.op /\ records[k].destTx = Transfer
  BY SearchAnswer DEF Sought
<1>3. Transfer # 0
  BY <1>1, HeadFacts
<1>4. PICK o \in UnderWay : Pays(k, o)
  BY <1>2, <1>3 DEF EvmInv, PaymentsUnderWay
<1>5. /\ records[k].status = k[1] /\ records[k].id = k[2]
      /\ <<k[2], records[k].deposit>> \in issued /\ <<o.id, o.deposit>> \in issued
      /\ \A p, q \in issued : p[1] = q[1] => p = q
  BY DEF EvmInv, KeysAreIssued, UnderWay
<1>6. k[2] = o.id /\ records[k].destTx = o.destTx /\ k[1] \in {o.status, Settled(o.status)}
  BY <1>4 DEF Pays
<1>7. records[k].deposit = o.deposit
  <2>1. <<k[2], records[k].deposit>>[1] = <<o.id, o.deposit>>[1]
    BY <1>6
  <2>2. <<k[2], records[k].deposit>> = <<o.id, o.deposit>>
    BY <1>5, <2>1
  <2> QED
    BY <2>2
<1>8. k = <<k[1], k[2]>>
  BY SMT DEF TypeOK, SharedTypeOK, Keys
<1> QED
  BY <1>2, <1>5, <1>6, <1>7, <1>8

LEMMA StatusFacts ==
  ASSUME NEW o \in UnderWay
  PROVE  /\ o \in BridgeOperation /\ o.status \in Unsettled
         /\ Settled(o.status) \in Status /\ Settled(o.status) \notin Unsettled
         /\ Settled(o.status) # "pending" /\ Settled(o.status) # o.status
         /\ InFlightKey(o) # SettledKey(o)
         /\ <<o.id, o.deposit>> \in issued
<1>1. o \in BridgeOperation /\ o.status \in Unsettled /\ <<o.id, o.deposit>> \in issued
  BY EvmIntakeAssumption DEF UnderWay
<1>2. /\ Settled(o.status) \in Status /\ Settled(o.status) \notin Unsettled
      /\ Settled(o.status) # "pending" /\ Settled(o.status) # o.status
  BY <1>1, SMT DEF Settled, Unsettled, Status
<1> QED
  BY <1>1, <1>2 DEF InFlightKey, SettledKey

(* The payment's operation is moved to the status of a payment made.       *)
LEMMA SettleStep ==
  ASSUME TypeOK, EvmInv, EvmSettle
  PROVE  EvmInv'
<1>0. /\ evm \in EvmLocals /\ EvmScan \in Workers /\ client \in [Workers -> Client]
  BY LocalsAre, ConstantFacts DEF TypeOK, SharedTypeOK
<1>1. /\ UNCHANGED <<records, indexed, issued, redisErrors, restarts>>
      /\ UNCHANGED <<evmHeight, evmLogs, evmCursor>>
      /\ evm.pc = "settle" /\ evm' = [evm EXCEPT !.pc = "store"]
      /\ Returned(EvmScan) /\ Caller.op # NoOp
  BY DEF EvmSettle, EvmAt, Caller, keptVars, storeVars, flags, evmChain
<1>2. KeysAreIssued' /\ PaymentsUnderWay' /\ QueuedOnce' /\ Kept
  BY <1>1, StoreUntouched DEF EvmInv
<1>3. Caller.op.status \in Unsettled
  BY SettleFacts
<1>4. PICK c \in BridgeOperation :
        /\ c.status = Settled(Caller.op.status)
        /\ c.id = Caller.op.id /\ c.deposit = Caller.op.deposit
        /\ c.destTx = Caller.op.destTx
        /\ client' = [client EXCEPT ![EvmScan] = ChangeCall(c, Caller.op.status)]
  BY SettleFacts
<1>5. PICK o \in UnderWay :
        /\ Caller.op.id = o.id /\ Caller.op.deposit = o.deposit
        /\ Caller.op.destTx = o.destTx /\ o.destTx = Transfer
        /\ Caller.op.status \in {o.status, Settled(o.status)}
  BY <1>1, FoundPays
<1>6. Caller.op.status = o.status
  BY <1>3, <1>5, StatusFacts
<1>7. /\ evm'.pc = "store" /\ evm'.logs = evm.logs /\ evm'.from = evm.from
      /\ evm'.to = evm.to /\ evm'.latest = evm.latest
  BY <1>0, <1>1, SMT DEF EvmLocals
<1>8. Transfer' = Transfer /\ Caller' = ChangeCall(c, o.status)
  BY <1>0, <1>4, <1>6, <1>7 DEF Transfer, Caller
<1>9. Caller'.cmd = "srem" /\ Caller'.op = c /\ Caller'.prev = o.status
  <2>1. o.status \in Status
    BY StatusFacts DEF Unsettled, Status
  <2> QED
    BY <1>8, <2>1, ChangeCallFacts
<1>10. Settling'
  <2>1. \A x \in UnderWay' : x = o
    BY <1>2 DEF EvmInv, PaymentsUnderWay, Kept
  <2>2. /\ c.id = o.id /\ c.deposit = o.deposit /\ c.destTx = o.destTx
        /\ c.status = Settled(o.status)
    BY <1>4, <1>5, <1>6
  <2> QED
    BY <1>9, <2>1, <2>2 DEF Settling, Moving
<1>11. Transfer \notin EVMDeposits /\ evm.logs # <<>>
  BY <1>1 DEF EvmInv, ScannerInv, AtLog
<1>12. ScannerInv'
  BY <1>7, <1>8, <1>9, <1>10, <1>11 DEF ScannerInv, AtLog
<1>13. ChainInOrder' /\ BehindIsDone' /\ ScanCovers' /\ PaymentIsKept'
  BY <1>1, <1>2, <1>7, ChainUntouched, BehindKept, ScanGoesOn, PaymentStays DEF EvmInv
<1> QED
  BY <1>2, <1>12, <1>13 DEF EvmInv

(***************************************************************************)
(* The next log.                                                           *)
(***************************************************************************)

(* A log is done when its deposit is on record, or its payment settled.    *)
LEMMA DoneWhen ==
  ASSUME TypeOK, NEW i \in DOMAIN evmLogs, NEW t, evmLogs[i].transfer = t,
         redisErrors = 0 /\ t \in EVMDeposits => OnRecord(t),
         redisErrors = 0 /\ restarts = 0 /\ t \notin EVMDeposits =>
           \A o \in UnderWay : o.destTx = t => SettledKey(o) \in indexed
  PROVE  Done(i)
<1>1. redisErrors = 0 => DepositDone(i)
  BY DEF DepositDone
<1>2. \A o \in UnderWay : o.destTx \notin EVMDeposits
  <2>1. \A o \in UnderWay : o.destTx \in Nat
    BY EvmIntakeAssumption, SMT DEF UnderWay, BridgeOperation
  <2> QED
    BY <2>1, ConstantFacts
<1>3. redisErrors = 0 => PaymentDone(i)
  BY <1>2 DEF PaymentDone
<1> QED
  BY <1>1, <1>3 DEF Done

(* The log in hand is done: the scan goes on with those after it.          *)
LEMMA ScanDrops ==
  ASSUME TypeOK, EvmInv, Kept, AtLog, UNCHANGED <<evmHeight, evmLogs>>, NextLog,
         \A i \in DOMAIN evmLogs : evmLogs[i].transfer = Transfer => Done(i)'
  PROVE  ScanCovers'
<1>0. evm \in EvmLocals /\ evm.logs # <<>>
  BY LocalsAre DEF EvmInv, ScannerInv
<1>1. /\ evm'.pc = "next" /\ evm'.logs = Tail(evm.logs) /\ evm'.from = evm.from
      /\ evm'.to = evm.to /\ evm'.latest = evm.latest
  BY <1>0, SMT DEF NextLog, EvmLocals
<1>2. PICK m \in 0 .. Len(evmLogs) :
        /\ LogsFrom(m) /\ Covered(m)
        /\ m + 1 \in DOMAIN evmLogs /\ evmLogs[m + 1].transfer = Transfer
  BY <1>0, HandFacts DEF AtLog
<1>3. /\ Len(evmLogs) \in Nat /\ DOMAIN evmLogs = 1 .. Len(evmLogs)
      /\ Len(evm.logs) \in Nat /\ DOMAIN evm.logs = 1 .. Len(evm.logs)
      /\ Len(evm.logs) >= 1
  BY <1>0, LogsAre, LocalsAre, HeadFacts DEF TypeOK, EvmTypeOK
<1>4. PICK s : s = Tail(evm.logs)
  OBVIOUS
<1>5. /\ Len(s) = Len(evm.logs) - 1 /\ DOMAIN s = 1 .. Len(evm.logs) - 1
      /\ \A j \in 1 .. Len(evm.logs) - 1 : s[j] = evm.logs[j + 1]
  BY <1>0, <1>4, TailFacts
<1>6. PICK n : n = m + 1
  OBVIOUS
<1>7. n \in 0 .. Len(evmLogs) /\ n \in Int /\ m \in Int
  BY <1>2, <1>3, <1>6, SMT
<1>8. LogsFrom(n)'
  <2>1. n + Len(s) <= Len(evmLogs)
    BY <1>2, <1>3, <1>5, <1>6, SMT DEF LogsFrom
  <2>2. ASSUME NEW j \in DOMAIN s
        PROVE  s[j] = evmLogs[n + j] /\ evmLogs[n + j].block \in evm.from .. evm.to
    <3>0. PICK L \in Nat : L = Len(evm.logs)
      BY <1>3
    <3>1. j + 1 \in DOMAIN evm.logs /\ m + (j + 1) = n + j
      <4>1. j \in 1 .. L - 1
        BY <1>5, <3>0
      <4>2. j + 1 \in 1 .. L /\ m + (j + 1) = n + j
        BY <1>6, <1>7, <4>1, SMT
      <4> QED
        BY <1>3, <3>0, <4>2
    <3>2. /\ evm.logs[j + 1] = evmLogs[m + (j + 1)]
          /\ evmLogs[m + (j + 1)].block \in evm.from .. evm.to
      BY <1>2, <3>1 DEF LogsFrom
    <3> QED
      BY <1>5, <3>1, <3>2
  <2> QED
    BY <1>1, <1>4, <2>1, <2>2 DEF LogsFrom
<1>9. Covered(n)'
  <2>1. Reach' = evm.to /\ Reach = evm.to
    BY <1>1 DEF Reach, AtLog
  <2>2. ASSUME NEW i \in DOMAIN evmLogs, evmLogs[i].block <= evm.to,
               evmLogs[i].block <= evm.latest - SafetyWindow
        PROVE  Done(i)' \/ i \in n + 1 .. n + Len(s)
    <3>1. CASE Done(i)
      BY <3>1, DoneKept
    <3>2. CASE i \in m + 1 .. m + Len(evm.logs)
      <4>1. PICK L \in Nat : L = Len(evm.logs)
        BY <1>3
      <4>2. Len(s) = L - 1 /\ i \in m + 1 .. m + L
        BY <1>5, <3>2, <4>1
      <4>3. i = m + 1 \/ i \in n + 1 .. n + (L - 1)
        BY <1>6, <1>7, <4>2, SMT
      <4> QED
        BY <1>2, <4>2, <4>3
    <3> QED
      BY <1>2, <2>1, <2>2, <3>1, <3>2 DEF Covered
  <2> QED
    BY <1>1, <1>4, <2>1, <2>2 DEF Covered
<1>10. BatchBounds'
  BY <1>1 DEF EvmInv, ScanCovers, Scanning, BatchBounds
<1> QED
  BY <1>1, <1>7, <1>8, <1>9, <1>10 DEF ScanCovers

(* A payment ends the handling of its batch: the logs that follow it there *)
(* are overshadowed by it.                                                 *)
LEMMA ScanBreaks ==
  ASSUME TypeOK, EvmInv, Kept, AtLog, UNCHANGED <<evmHeight, evmLogs>>, BreakOut,
         redisErrors' = 0 => Transfer \notin EVMDeposits,
         \A i \in DOMAIN evmLogs : evmLogs[i].transfer = Transfer => Done(i)'
  PROVE  ScanCovers'
<1>0. evm \in EvmLocals /\ evm.logs # <<>>
  BY LocalsAre DEF EvmInv, ScannerInv
<1>1. /\ evm'.pc = "next" /\ evm'.logs = <<>> /\ evm'.from = evm.from
      /\ evm'.to = evm.to /\ evm'.latest = evm.latest
  BY <1>0, SMT DEF BreakOut, EvmLocals
<1>2. PICK m \in 0 .. Len(evmLogs) :
        /\ LogsFrom(m) /\ Covered(m)
        /\ m + 1 \in DOMAIN evmLogs /\ evmLogs[m + 1].transfer = Transfer
        /\ evm.from <= evmLogs[m + 1].block /\ evmLogs[m + 1].block <= evm.to
  BY <1>0, HandFacts DEF AtLog
<1>3. /\ Len(evmLogs) \in Nat /\ DOMAIN evmLogs = 1 .. Len(evmLogs)
      /\ \A i \in DOMAIN evmLogs : evmLogs[i].block \in Nat
      /\ Len(evm.logs) \in Nat /\ m \in Int
      /\ evm.from \in Int /\ evm.to \in Nat /\ evm.latest \in Nat
  <2>1. Len(evmLogs) \in Nat
    BY LogsAre DEF TypeOK, EvmTypeOK
  <2>2. m \in Int
    BY <2>1, SMT
  <2> QED
    BY <2>2, LogsAre, LocalsAre DEF TypeOK, EvmTypeOK
<1>4. BatchBounds
  BY DEF EvmInv, ScanCovers, Scanning
<1>5. Len(evm'.logs) = 0 /\ DOMAIN evm'.logs = {}
  BY <1>1, EmptySeq
<1>6. LogsFrom(m)'
  BY <1>3, <1>5, SMT DEF LogsFrom
<1>7. Covered(m)'
  <2>1. Reach' = evm.to /\ Reach = evm.to
    BY <1>1 DEF Reach, AtLog
  <2>2. ASSUME NEW i \in DOMAIN evmLogs, evmLogs[i].block <= evm.to,
               evmLogs[i].block <= evm.latest - SafetyWindow
        PROVE  Done(i)'
    <3>1. CASE Done(i)
      BY <3>1, DoneKept
    <3>2. CASE i \in m + 1 .. m + Len(evm.logs)
      <4>1. CASE i = m + 1
        BY <1>2, <4>1
      <4>2. CASE i # m + 1
        <5>1. m + 1 \in 1 .. i - 1
          BY <1>2, <1>3, <3>2, <4>2, SMT
        <5>2. evmLogs[m + 1].block > evmLogs[i].block - BlockBatch
          <6>1. PICK b \in Nat, c \in Nat :
                  b = evmLogs[m + 1].block /\ c = evmLogs[i].block
            BY <1>2, <1>3
          <6>2. evm.from <= b /\ c <= evm.to
            BY <1>2, <2>2, <6>1
          <6>3. evm.to <= evm.from + BlockBatch - 1
            BY <1>4 DEF BatchBounds
          <6>4. b > c - BlockBatch
            BY <1>3, <6>2, <6>3, ConstantFacts, SMT
          <6> QED
            BY <6>1, <6>4
        <5>3. redisErrors' = 0 => Overshadowed(i)
          BY <1>2, <5>1, <5>2 DEF Overshadowed
        <5>4. Overshadowed(i)' <=> Overshadowed(i)
          BY DEF Overshadowed
        <5> QED
          BY <5>3, <5>4 DEF Done, DepositDone, PaymentDone
      <4> QED
        BY <4>1, <4>2
    <3> QED
      BY <1>2, <2>1, <2>2, <3>1, <3>2 DEF Covered
  <2> QED
    BY <1>1, <2>1, <2>2 DEF Covered
<1>8. BatchBounds'
  BY <1>1, <1>4 DEF BatchBounds
<1> QED
  BY <1>1, <1>2, <1>6, <1>7, <1>8 DEF ScanCovers

(* The answer says that nothing more is to be done for the log in hand.    *)
LEMMA AnswerIsDone ==
  ASSUME TypeOK, EvmInv, AtLog, EvmSkip \/ EvmBreak \/ EvmStored
  PROVE  \A i \in DOMAIN evmLogs : evmLogs[i].transfer = Transfer => Done(i)
<1>0. evm.pc \in {"dedupe", "settle", "store"} /\ evm.logs # <<>> /\ Returned(EvmScan)
      /\ Caller.cmd \in {"ok", "err"}
  BY DEF AtLog, EvmInv, ScannerInv, EvmSkip, EvmBreak, EvmStored, Returned, Caller
<1>1. CASE Caller.cmd = "err"
  BY <1>1 DEF EvmInv, ScannerInv, Done
<1>2. CASE Caller.cmd = "ok"
  <2>0. Caller.cmd # "err" /\ ~ Failed(EvmScan)
    BY <1>2 DEF Failed, Caller
  <2>1. CASE evm.pc = "dedupe"
    <3>1. Caller.op # NoOp /\ Transfer \in EVMDeposits
      BY <2>0, <2>1 DEF EvmSkip, EvmBreak, EvmStored, Caller, EvmInv, ScannerInv
    <3>2. PICK k \in indexed : SourceTx[records[k].deposit] = SourceTx[Transfer]
      BY <1>0, <2>1, <3>1, SearchAnswer DEF Sought
    <3>3. records[k] # NoOp /\ records[k].deposit \in Deposits
      <4>1. records[k] # NoOp /\ records[k] \in BridgeOperation
        BY DEF EvmInv, KeysAreIssued, TypeOK, SharedTypeOK
      <4> QED
        BY <4>1, SMT DEF BridgeOperation
    <3>4. OnRecord(Transfer)
      BY <3>2, <3>3 DEF OnRecord, Recorded
    <3> QED
      BY <3>1, <3>4, DoneWhen
  <2>2. CASE evm.pc = "settle" /\ Caller.op = NoOp
    <3>1. Transfer \notin EVMDeposits
      BY <2>2 DEF EvmInv, ScannerInv
    <3>2. \A k \in indexed : records[k].destTx # Transfer
      <4>1. \A k \in indexed : ~ Sought(k)
        BY <1>0, <2>0, <2>2, SearchAnswer
      <4>2. evm.pc # "dedupe"
        BY <2>2
      <4> QED
        BY <4>1, <4>2 DEF Sought
    <3>3. ASSUME redisErrors = 0, restarts = 0, NEW o \in UnderWay, o.destTx = Transfer
          PROVE  FALSE
      <4>1. InFlightKey(o) \in indexed \/ SettledKey(o) \in indexed
        BY <2>2, <3>3 DEF EvmInv, PaymentIsKept
      <4>2. PICK k \in indexed : k = InFlightKey(o) \/ k = SettledKey(o)
        BY <4>1
      <4>3. k[2] = o.id
        BY <4>2 DEF InFlightKey, SettledKey
      <4>4. Pays(k, o)
        BY <4>3 DEF EvmInv, PaymentsUnderWay
      <4> QED
        BY <3>2, <3>3, <4>4 DEF Pays
    <3> QED
      BY <3>1, <3>3, DoneWhen
  <2>3. CASE evm.pc = "settle" /\ Caller.op # NoOp
    <3>1. Caller.op.status \notin Unsettled /\ Transfer \notin EVMDeposits
      BY <2>3 DEF EvmSkip, EvmBreak, EvmStored, Caller, EvmInv, ScannerInv
    <3>2. PICK o \in UnderWay :
            /\ Caller.op.id = o.id
            /\ Caller.op.status \in {o.status, Settled(o.status)}
            /\ <<Caller.op.status, Caller.op.id>> \in indexed
      BY <1>0, <2>3, FoundPays
    <3>3. SettledKey(o) \in indexed
      BY <3>1, <3>2, StatusFacts DEF SettledKey
    <3>4. \A x \in UnderWay : x = o
      BY DEF EvmInv, PaymentsUnderWay
    <3> QED
      BY <3>1, <3>3, <3>4, DoneWhen
  <2>4. CASE evm.pc = "store" /\ Transfer \in EVMDeposits
    <3>1. Recorded(Transfer) /\ Transfer \in Deposits
      BY <1>2, <2>4, ConstantFacts DEF EvmInv, ScannerInv, StoringDeposit
    <3>2. OnRecord(Transfer)
      BY <3>1 DEF OnRecord
    <3> QED
      BY <2>4, <3>2, DoneWhen
  <2>5. CASE evm.pc = "store" /\ Transfer \notin EVMDeposits
    <3>1. \A o \in UnderWay : SettledKey(o) \in indexed
      BY <1>2, <2>5 DEF EvmInv, ScannerInv, Settling
    <3> QED
      BY <2>5, <3>1, DoneWhen
  <2> QED
    BY <1>0, <2>1, <2>2, <2>3, <2>4, <2>5
<1> QED
  BY <1>0, <1>1, <1>2

(* What was asked for is found, stored or failed: on to the next log, or   *)
(* out of the batch.                                                       *)
LEMMA AnsweredStep ==
  ASSUME TypeOK, EvmInv, EvmSkip \/ EvmBreak \/ EvmStored
  PROVE  EvmInv'
<1>0. /\ evm \in EvmLocals /\ EvmScan \in Workers /\ client \in [Workers -> Client]
  BY LocalsAre, ConstantFacts DEF TypeOK, SharedTypeOK
<1>1. /\ UNCHANGED <<records, indexed, issued, redisErrors, restarts>>
      /\ UNCHANGED <<evmHeight, evmLogs, evmCursor>>
      /\ AtLog /\ Caller.cmd \in {"ok", "err"} /\ Returned(EvmScan)
      /\ NextLog \/ BreakOut
      /\ client' = [client EXCEPT ![EvmScan] = Idle]
  BY DEF EvmSkip, EvmBreak, EvmStored, AtLog, Returned, Caller, Consume, Call,
         keptVars, storeVars, flags, evmChain
<1>2. KeysAreIssued' /\ PaymentsUnderWay' /\ QueuedOnce' /\ Kept
  BY <1>1, StoreUntouched DEF EvmInv
<1>3. ChainInOrder' /\ BehindIsDone'
  BY <1>1, <1>2, ChainUntouched, BehindKept DEF EvmInv
<1>4. \A i \in DOMAIN evmLogs : evmLogs[i].transfer = Transfer => Done(i)'
  BY <1>1, <1>2, AnswerIsDone, DoneKept
<1>5. evm'.pc = "next"
  <2>1. CASE NextLog
    BY <1>0, <2>1, SMT DEF NextLog, EvmLocals
  <2>2. CASE BreakOut
    BY <1>0, <2>2, SMT DEF BreakOut, EvmLocals
  <2> QED
    BY <1>1, <2>1, <2>2
<1>6. ScanCovers'
  <2>1. CASE NextLog
    BY <1>1, <1>2, <1>4, <2>1, ScanDrops
  <2>2. CASE BreakOut /\ (EvmBreak \/ Failed(EvmScan))
    <3>1. redisErrors' = 0 => Transfer \notin EVMDeposits
      BY <1>1, <2>2 DEF EvmBreak, EvmInv, ScannerInv, Failed, Caller
    <3> QED
      BY <1>1, <1>2, <1>4, <2>2, <3>1, ScanBreaks
  <2>3. NextLog \/ (BreakOut /\ (EvmBreak \/ Failed(EvmScan)))
    <3>1. EvmSkip => NextLog
      BY DEF EvmSkip
    <3>2. EvmBreak => BreakOut
      BY DEF EvmBreak
    <3>3. EvmStored => NextLog \/ (BreakOut /\ Failed(EvmScan))
      BY DEF EvmStored
    <3> QED
      BY <3>1, <3>2, <3>3
  <2> QED
    BY <2>1, <2>2, <2>3
<1>7. ScannerInv'
  <2>1. Caller' = Idle
    BY <1>0, <1>1 DEF Caller
  <2> QED
    BY <1>5, <2>1, ScannerRests DEF AtLog
<1>8. PaymentIsKept'
  BY <1>1, <1>2, PaymentStays DEF EvmInv
<1> QED
  BY <1>2, <1>3, <1>6, <1>7, <1>8 DEF EvmInv

(***************************************************************************)
(* The writes.                                                             *)
(***************************************************************************)
NewKey == <<Caller.op.status, Caller.op.id>>

LEMMA WriterFacts ==
  ASSUME TypeOK
  PROVE  /\ Caller \in Client /\ indexed \subseteq Keys /\ EvmScan \in Workers
         /\ records \in [Keys -> BridgeOperation \union {NoOp}]
         /\ \A k \in indexed : k = <<k[1], k[2]>>
         /\ Caller.cmd \in {"srem", "del", "set", "sadd"} =>
              /\ Caller.op \in BridgeOperation /\ Caller.op # NoOp
              /\ NewKey \in Keys
              /\ NewKey[1] = Caller.op.status /\ NewKey[2] = Caller.op.id
<1>1. /\ Caller \in Client /\ indexed \subseteq Keys /\ EvmScan \in Workers
      /\ records \in [Keys -> BridgeOperation \union {NoOp}]
      /\ Caller.cmd \in {"srem", "del", "set", "sadd"} => Caller.op # NoOp
  BY ConstantFacts DEF TypeOK, SharedTypeOK, Caller
<1>2. \A k \in indexed : k = <<k[1], k[2]>>
  BY <1>1 DEF Keys
<1>3. Caller.op \in BridgeOperation \union {NoOp}
  BY <1>1, SMT DEF Client
<1>4. Caller.op \in BridgeOperation => NewKey \in Keys
  BY SMT DEF NewKey, Keys, BridgeOperation
<1>5. NewKey[1] = Caller.op.status /\ NewKey[2] = Caller.op.id
  BY DEF NewKey
<1> QED
  BY <1>1, <1>2, <1>3, <1>4, <1>5

(* UpsertBridgeOperation for a new deposit: nothing else is touched.       *)
LEMMA DepositEffect ==
  ASSUME TypeOK, EvmInv, evm.pc = "store", Transfer \in EVMDeposits,
         Effect(Caller), UNCHANGED <<issued, evm>>
  PROVE  /\ KeysAreIssued' /\ PaymentsUnderWay' /\ QueuedOnce' /\ UnderWay' = UnderWay
         /\ \A k \in indexed : k \in indexed' /\ records'[k] = records[k]
         /\ \/ Caller.cmd = "set" /\ records'[NewKey] = Caller.op /\ indexed' = indexed
            \/ Caller.cmd = "sadd" /\ Recorded(Transfer)'
<1>0. StoringDeposit
  BY DEF EvmInv, ScannerInv
<1>1. /\ Caller.cmd \in {"set", "sadd"}
      /\ \/ /\ Caller.cmd = "set" /\ indexed' = indexed
            /\ records' = [records EXCEPT ![NewKey] = Caller.op]
         \/ /\ Caller.cmd = "sadd" /\ records' = records
            /\ indexed' = indexed \union {NewKey}
  <2>1. "srem" \notin {"set", "sadd", "ok", "err"} /\ "del" \notin {"set", "sadd", "ok", "err"}
    OBVIOUS
  <2> QED
    BY <1>0, <2>1 DEF Effect, StoringDeposit, NewKey
<1>2. /\ Caller.op \in BridgeOperation /\ Caller.op # NoOp /\ NewKey \in Keys
      /\ NewKey[1] = Caller.op.status /\ NewKey[2] = Caller.op.id
      /\ records \in [Keys -> BridgeOperation \union {NoOp}]
      /\ \A k \in indexed : k = <<k[1], k[2]>>
  BY <1>1, WriterFacts
<1>3. /\ Caller.op.status = "pending" /\ Caller.op.deposit = Transfer
      /\ Caller.op.destTx = 0 /\ <<Caller.op.id, Transfer>> \in issued
      /\ \A k \in indexed :
           k[2] # Caller.op.id /\ SourceTx[records[k].deposit] # SourceTx[Transfer]
      /\ \A o \in UnderWay : Caller.op.id # o.id
      /\ Caller.cmd = "sadd" => records[NewKey] = Caller.op
  BY <1>0, <1>1 DEF StoringDeposit, NewKey
<1>4. NewKey \notin indexed /\ UnderWay' = UnderWay
  BY <1>2, <1>3 DEF UnderWay
<1>5. CASE /\ Caller.cmd = "set" /\ indexed' = indexed
           /\ records' = [records EXCEPT ![NewKey] = Caller.op]
  <2>1. \A k \in indexed : k \in indexed' /\ records'[k] = records[k]
    BY <1>2, <1>4, <1>5
  <2>2. KeysAreIssued'
    BY <1>5, <2>1 DEF EvmInv, KeysAreIssued
  <2>3. PaymentsUnderWay'
    BY <1>4, <1>5, <2>1 DEF EvmInv, PaymentsUnderWay, Pays
  <2>4. ASSUME NEW h PROVE Queued(h)' \subseteq Queued(h)
    BY <1>5, <2>1 DEF Queued
  <2>5. QueuedOnce'
    BY <2>4 DEF EvmInv, QueuedOnce
  <2>6. records'[NewKey] = Caller.op
    BY <1>2, <1>5
  <2> QED
    BY <1>4, <1>5, <2>1, <2>2, <2>3, <2>5, <2>6
<1>6. CASE /\ Caller.cmd = "sadd" /\ records' = records
           /\ indexed' = indexed \union {NewKey}
  <2>1. records[NewKey] = Caller.op /\ NewKey \in indexed'
    BY <1>3, <1>6
  <2>2. KeysAreIssued'
    BY <1>2, <1>3, <1>6, <2>1 DEF EvmInv, KeysAreIssued
  <2>3. PaymentsUnderWay'
    <3>1. ASSUME NEW k \in indexed', records[k].destTx # 0
          PROVE  \E o \in UnderWay : Pays(k, o)
      <4>1. k \in indexed
        BY <1>3, <1>6, <2>1, <3>1
      <4> QED
        BY <3>1, <4>1 DEF EvmInv, PaymentsUnderWay
    <3>2. ASSUME NEW o \in UnderWay, NEW k \in indexed', k[2] = o.id
          PROVE  Pays(k, o)
      <4>1. k \in indexed
        BY <1>2, <1>3, <1>6, <3>2
      <4> QED
        BY <3>2, <4>1 DEF EvmInv, PaymentsUnderWay
    <3>3. \A k, o : Pays(k, o)' <=> Pays(k, o)
      BY <1>6 DEF Pays
    <3> QED
      BY <1>4, <1>6, <3>1, <3>2, <3>3 DEF EvmInv, PaymentsUnderWay
  <2>4. QueuedOnce'
    <3> SUFFICES ASSUME NEW h \in {SourceTx[e] : e \in Deposits},
                        NEW k \in Queued(h)', NEW l \in Queued(h)'
                 PROVE  k = l
      BY DEF QueuedOnce
    <3>1. ASSUME NEW m \in Queued(h)', m # NewKey
          PROVE  m \in Queued(h) /\ m \in indexed /\ SourceTx[records[m].deposit] = h
      BY <1>6, <3>1 DEF Queued
    <3>2. ASSUME NewKey \in Queued(h)', NEW m \in Queued(h)', m # NewKey
          PROVE  FALSE
      <4>1. SourceTx[Transfer] = h
        BY <1>3, <1>6, <2>1, <3>2 DEF Queued
      <4> QED
        BY <1>3, <3>1, <3>2, <4>1
    <3>3. CASE k # NewKey /\ l # NewKey
      BY <3>1, <3>3 DEF EvmInv, QueuedOnce
    <3> QED
      BY <3>2, <3>3
  <2>5. Recorded(Transfer)'
    <3> QED
      BY <1>2, <1>3, <1>6, <2>1 DEF Recorded, Transfer
  <2> QED
    BY <1>4, <1>6, <2>2, <2>3, <2>4, <2>5
<1> QED
  BY <1>1, <1>5, <1>6

(* ChangeBridgeOperationStatus for the payment: only the operation under   *)
(* way is touched, and what is written is that operation, settled.         *)
LEMMA PaymentEffect ==
  ASSUME TypeOK, EvmInv, evm.pc = "store", Transfer \notin EVMDeposits,
         Effect(Caller), UNCHANGED <<issued, evm>>, NEW o \in UnderWay
  PROVE  /\ KeysAreIssued' /\ PaymentsUnderWay' /\ QueuedOnce' /\ UnderWay' = UnderWay
         /\ \A k \in indexed :
              \/ k \in {InFlightKey(o), SettledKey(o)}
              \/ k \in indexed' /\ records'[k] = records[k]
         /\ SettledKey(o) \in indexed => SettledKey(o) \in indexed'
         /\ InFlightKey(o) \notin indexed'
         /\ Caller.cmd = "set" => records'[SettledKey(o)] = Caller.op
         /\ Caller.cmd = "sadd" => SettledKey(o) \in indexed'
<1>0. Settling /\ Caller.cmd \in {"srem", "del", "set", "sadd"} /\ Moving
  <2>1. Caller.cmd \in {"srem", "del", "set", "sadd"}
    BY DEF Effect
  <2> QED
    BY <2>1 DEF EvmInv, ScannerInv, Moving
<1>1. /\ Caller.op \in BridgeOperation /\ Caller.op # NoOp
      /\ records \in [Keys -> BridgeOperation \union {NoOp}] /\ indexed \subseteq Keys
      /\ \A k \in indexed : k = <<k[1], k[2]>>
  BY <1>0, WriterFacts
<1>2. /\ Caller.op.id = o.id /\ Caller.op.deposit = o.deposit
      /\ Caller.op.destTx = o.destTx
      /\ Caller.op.status = Settled(o.status) /\ Caller.prev = o.status
      /\ Caller.cmd \in {"del", "set", "sadd"} => InFlightKey(o) \notin indexed
      /\ Caller.cmd = "sadd" => records[SettledKey(o)] = Caller.op
  BY <1>0 DEF Settling
<1>3. /\ o \in BridgeOperation /\ o.status \in Status
      /\ Settled(o.status) \in Status /\ Settled(o.status) # "pending"
      /\ InFlightKey(o) # SettledKey(o) /\ <<o.id, o.deposit>> \in issued
      /\ InFlightKey(o) \in Keys /\ SettledKey(o) \in Keys
  <2>1. /\ o \in BridgeOperation /\ o.status \in Unsettled
        /\ Settled(o.status) \in Status /\ Settled(o.status) # "pending"
        /\ InFlightKey(o) # SettledKey(o) /\ <<o.id, o.deposit>> \in issued
    BY StatusFacts
  <2>2. o.id \in OpIds /\ o.status \in Status
    BY <2>1, SMT DEF BridgeOperation
  <2> QED
    BY <2>1, <2>2 DEF InFlightKey, SettledKey, Keys
<1>4. \/ /\ Caller.cmd = "srem" /\ records' = records
         /\ indexed' = indexed \ {InFlightKey(o)}
      \/ /\ Caller.cmd = "del" /\ indexed' = indexed
         /\ records' = [records EXCEPT ![InFlightKey(o)] = NoOp]
      \/ /\ Caller.cmd = "set" /\ indexed' = indexed
         /\ records' = [records EXCEPT ![SettledKey(o)] = Caller.op]
      \/ /\ Caller.cmd = "sadd" /\ records' = records
         /\ indexed' = indexed \union {SettledKey(o)}
  BY <1>2 DEF Effect, InFlightKey, SettledKey
(* The keys: an old one with its record, or the one that is settled.       *)
<1>5. /\ InFlightKey(o) \notin indexed'
      /\ \A k \in indexed' :
           \/ k \in indexed /\ records'[k] = records[k]
           \/ k = SettledKey(o) /\ records'[k] = Caller.op
      /\ \A k \in indexed :
           \/ k \in {InFlightKey(o), SettledKey(o)}
           \/ k \in indexed' /\ records'[k] = records[k]
      /\ SettledKey(o) \in indexed => SettledKey(o) \in indexed'
      /\ Caller.cmd = "set" => records'[SettledKey(o)] = Caller.op
      /\ Caller.cmd = "sadd" => SettledKey(o) \in indexed'
  <2>1. CASE Caller.cmd = "srem" /\ records' = records
             /\ indexed' = indexed \ {InFlightKey(o)}
    BY <1>3, <2>1
  <2>2. CASE /\ Caller.cmd = "del" /\ indexed' = indexed
             /\ records' = [records EXCEPT ![InFlightKey(o)] = NoOp]
    <3>1. \A k \in indexed : k # InFlightKey(o) /\ records'[k] = records[k]
      BY <1>1, <1>2, <2>2
    <3> QED
      BY <1>2, <2>2, <3>1
  <2>3. CASE /\ Caller.cmd = "set" /\ indexed' = indexed
             /\ records' = [records EXCEPT ![SettledKey(o)] = Caller.op]
    <3>1. records'[SettledKey(o)] = Caller.op
      BY <1>1, <1>3, <2>3
    <3>2. \A k \in indexed : k # SettledKey(o) => records'[k] = records[k]
      BY <1>1, <2>3
    <3> QED
      BY <1>2, <2>3, <3>1, <3>2
  <2>4. CASE /\ Caller.cmd = "sadd" /\ records' = records
             /\ indexed' = indexed \union {SettledKey(o)}
    BY <1>2, <1>3, <2>4
  <2> QED
    BY <1>4, <2>1, <2>2, <2>3, <2>4
<1>6. SettledKey(o)[1] = Settled(o.status) /\ SettledKey(o)[2] = o.id
  BY DEF SettledKey
<1>7. KeysAreIssued'
  BY <1>1, <1>2, <1>3, <1>5, <1>6 DEF EvmInv, KeysAreIssued
<1>8. UnderWay' = UnderWay
  BY DEF UnderWay
<1>9. PaymentsUnderWay'
  <2>1. ASSUME NEW k \in indexed'
        PROVE  /\ records'[k].destTx # 0 => \E x \in UnderWay : Pays(k, x)'
               /\ \A x \in UnderWay : k[2] = x.id => Pays(k, x)'
    <3>1. CASE k \in indexed /\ records'[k] = records[k]
      <4>1. \A x : Pays(k, x)' <=> Pays(k, x)
        BY <3>1 DEF Pays
      <4> QED
        BY <3>1, <4>1 DEF EvmInv, PaymentsUnderWay
    <3>2. CASE k = SettledKey(o) /\ records'[k] = Caller.op
      <4>1. Pays(k, o)'
        BY <1>2, <1>6, <3>2 DEF Pays
      <4>2. \A x \in UnderWay : x = o
        BY DEF EvmInv, PaymentsUnderWay
      <4> QED
        BY <4>1, <4>2
    <3> QED
      BY <1>5, <3>1, <3>2
  <2> QED
    BY <1>8, <2>1 DEF EvmInv, PaymentsUnderWay
<1>10. QueuedOnce'
  <2>1. ASSUME NEW h, NEW k \in Queued(h)'
        PROVE  k \in Queued(h)
    <3>1. k \in indexed' /\ k[1] = "pending"
      BY <2>1 DEF Queued
    <3>2. k # SettledKey(o)
      BY <1>3, <1>6, <3>1
    <3> QED
      BY <1>5, <2>1, <3>1, <3>2 DEF Queued
  <2> QED
    BY <2>1 DEF EvmInv, QueuedOnce
<1> QED
  BY <1>5, <1>7, <1>8, <1>9, <1>10

(* Neither write forgets a deposit that is logged and on record, nor that  *)
(* the payment is settled.                                                 *)
LEMMA EffectKeeps ==
  ASSUME TypeOK, EvmInv, evm.pc = "store", Effect(Caller),
         UNCHANGED <<issued, evm, evmLogs, restarts>>,
         redisErrors' = 0 => redisErrors = 0
  PROVE  KeysAreIssued' /\ PaymentsUnderWay' /\ QueuedOnce' /\ Kept
<1>0. evm.logs # <<>>
  BY DEF EvmInv, ScannerInv, AtLog
<1>1. \A x : SettledKey(x)' = SettledKey(x)
  BY DEF SettledKey
<1>2. CASE Transfer \in EVMDeposits
  <2>1. /\ KeysAreIssued' /\ PaymentsUnderWay' /\ QueuedOnce' /\ UnderWay' = UnderWay
        /\ \A k \in indexed : k \in indexed' /\ records'[k] = records[k]
    BY <1>2, DepositEffect
  <2>2. \A t : OnRecord(t) => OnRecord(t)'
    BY <2>1 DEF OnRecord, Recorded
  <2> QED
    BY <1>1, <2>1, <2>2 DEF Kept
<1>3. CASE Transfer \notin EVMDeposits
  <2>1. PICK o \in UnderWay : o.destTx = Transfer
    BY <1>0, <1>3, HandFacts
  <2>2. /\ KeysAreIssued' /\ PaymentsUnderWay' /\ QueuedOnce' /\ UnderWay' = UnderWay
        /\ \A k \in indexed :
             \/ k \in {InFlightKey(o), SettledKey(o)}
             \/ k \in indexed' /\ records'[k] = records[k]
        /\ SettledKey(o) \in indexed => SettledKey(o) \in indexed'
    BY <1>3, PaymentEffect
  <2>3. \A x \in UnderWay : x = o
    BY DEF EvmInv, PaymentsUnderWay
  <2>4. ASSUME NEW t \in EVMDeposits, Logged(t), OnRecord(t)
        PROVE  OnRecord(t)'
    <3>1. PICK d \in Deposits, k \in indexed :
            SourceTx[d] = SourceTx[t] /\ records[k] # NoOp /\ records[k].deposit = d
      BY <2>4 DEF OnRecord, Recorded
    <3>2. SourceTx[o.deposit] # SourceTx[t]
      BY <2>4 DEF EvmInv, ChainInOrder, Logged, UnderWay
    <3>3. k \notin {InFlightKey(o), SettledKey(o)}
      <4>1. SUFFICES ASSUME k[2] = o.id PROVE FALSE
        BY DEF InFlightKey, SettledKey
      <4>2. /\ <<k[2], records[k].deposit>> \in issued /\ <<o.id, o.deposit>> \in issued
            /\ \A p, q \in issued : p[1] = q[1] => p = q
        BY StatusFacts DEF EvmInv, KeysAreIssued
      <4>3. <<k[2], records[k].deposit>>[1] = <<o.id, o.deposit>>[1]
        BY <4>1
      <4>4. <<k[2], records[k].deposit>> = <<o.id, o.deposit>>
        BY <4>2, <4>3
      <4> QED
        BY <3>1, <3>2, <4>4
    <3> QED
      BY <2>2, <3>1, <3>3 DEF OnRecord, Recorded
  <2> QED
    BY <1>1, <2>2, <2>3, <2>4 DEF Kept
<1> QED
  BY <1>2, <1>3

(* One write of the scanner: the procedure goes on to its next command.    *)
LEMMA WriteStep ==
  ASSUME TypeOK, EvmInv, Write(EvmScan), UNCHANGED evmVars
  PROVE  EvmInv'
<1>0. EvmScan \in Workers /\ client \in [Workers -> Client]
  BY ConstantFacts DEF TypeOK, SharedTypeOK
<1>1. /\ UNCHANGED <<issued, redisErrors, restarts>>
      /\ UNCHANGED <<evmHeight, evmLogs, evmCursor, evm>>
      /\ Effect(Caller) /\ Caller.cmd \in {"srem", "del", "set", "sadd"}
  BY DEF Write, Effect, flags, evmVars, Caller
<1>2. evm.pc = "store" /\ evm.logs # <<>> /\ AtLog
  <2>1. AtLog
    BY <1>1, IdleFacts DEF EvmInv, ScannerInv
  <2>2. evm.pc \notin {"dedupe", "settle"}
    BY <1>1 DEF EvmInv, ScannerInv, Searching
  <2> QED
    BY <2>1, <2>2 DEF AtLog, EvmInv, ScannerInv
<1>3. KeysAreIssued' /\ PaymentsUnderWay' /\ QueuedOnce' /\ Kept
  BY <1>1, <1>2, EffectKeeps
<1>4. ChainInOrder' /\ BehindIsDone' /\ ScanCovers'
  BY <1>1, <1>3, ChainUntouched, BehindKept, ScanSteady DEF EvmInv
<1>5. PICK c : c = [Caller EXCEPT !.cmd = Following(Caller.cmd)]
  OBVIOUS
<1>6. Caller' = c
  BY <1>0, <1>5 DEF Write, Call, Caller
<1>7. /\ c.cmd = Following(Caller.cmd) /\ c.op = Caller.op /\ c.prev = Caller.prev
  BY <1>0, <1>5, SMT DEF Caller, Client
<1>8. /\ Caller.cmd = "srem" => Caller'.cmd = "del"
      /\ Caller.cmd = "del"  => Caller'.cmd = "set"
      /\ Caller.cmd = "set"  => Caller'.cmd = "sadd"
      /\ Caller.cmd = "sadd" => Caller'.cmd = "ok"
      /\ Caller'.op = Caller.op /\ Caller'.prev = Caller.prev
  <2>1. /\ Caller.cmd = "srem" => c.cmd = "del"
        /\ Caller.cmd = "del"  => c.cmd = "set"
        /\ Caller.cmd = "set"  => c.cmd = "sadd"
        /\ Caller.cmd = "sadd" => c.cmd = "ok"
    BY <1>7, SMT DEF Following
  <2> QED
    BY <1>6, <1>7, <2>1
<1>9. Transfer' = Transfer /\ UnderWay' = UnderWay
  BY <1>1, <1>3 DEF Transfer, Kept
<1>10. CASE Transfer \in EVMDeposits
  <2>0. StoringDeposit
    BY <1>2, <1>10 DEF EvmInv, ScannerInv
  <2>1. /\ \A k \in indexed : k \in indexed' /\ records'[k] = records[k]
        /\ \/ Caller.cmd = "set" /\ records'[NewKey] = Caller.op /\ indexed' = indexed
           \/ Caller.cmd = "sadd" /\ Recorded(Transfer)'
    BY <1>1, <1>2, <1>10, DepositEffect
  <2>2. ASSUME Caller.cmd = "set" /\ records'[NewKey] = Caller.op /\ indexed' = indexed
        PROVE  StoringDeposit' /\ Caller'.cmd # "err"
    <3>1. Caller'.cmd = "sadd"
      BY <1>8, <2>2
    <3>2. StoringDeposit'
      BY <1>1, <1>8, <1>9, <2>0, <2>1, <2>2, <3>1 DEF StoringDeposit, NewKey
    <3> QED
      BY <3>1, <3>2
  <2>3. ASSUME Caller.cmd = "sadd" /\ Recorded(Transfer)'
        PROVE  StoringDeposit' /\ Caller'.cmd # "err"
    <3>1. Caller'.cmd = "ok"
      BY <1>8, <2>3
    <3>2. StoringDeposit'
      BY <2>3, <3>1 DEF StoringDeposit
    <3> QED
      BY <3>1, <3>2
  <2>4. StoringDeposit' /\ Caller'.cmd # "err"
    BY <2>1, <2>2, <2>3
  <2>5. ScannerInv'
    BY <1>1, <1>2, <1>9, <1>10, <2>4 DEF ScannerInv, AtLog
  <2>6. PaymentIsKept'
    <3>1. \A o : InFlightKey(o)' = InFlightKey(o) /\ SettledKey(o)' = SettledKey(o)
      BY DEF InFlightKey, SettledKey
    <3> QED
      BY <1>1, <1>9, <1>10, <2>1, <3>1 DEF EvmInv, PaymentIsKept
  <2> QED
    BY <1>3, <1>4, <2>5, <2>6 DEF EvmInv
<1>11. CASE Transfer \notin EVMDeposits
  <2>0. Settling
    BY <1>2, <1>11 DEF EvmInv, ScannerInv
  <2>1. PICK o \in UnderWay : o.destTx = Transfer
    BY <1>2, <1>11, HandFacts
  <2>2. \A x \in UnderWay : x = o
    BY <2>1 DEF EvmInv, PaymentsUnderWay
  <2>3. /\ InFlightKey(o) \notin indexed'
        /\ Caller.cmd = "set" => records'[SettledKey(o)] = Caller.op
        /\ Caller.cmd = "sadd" => SettledKey(o) \in indexed'
    BY <1>1, <1>2, <1>11, PaymentEffect
  <2>4. /\ Caller.op.id = o.id /\ Caller.op.deposit = o.deposit
        /\ Caller.op.destTx = o.destTx
        /\ Caller.op.status = Settled(o.status) /\ Caller.prev = o.status
    BY <1>1, <2>0 DEF Settling, Moving
  <2>5. /\ Caller'.cmd \in {"del", "set", "sadd", "ok"}
        /\ Caller'.cmd = "sadd" => Caller.cmd = "set"
        /\ Caller'.cmd = "ok" => Caller.cmd = "sadd"
    BY <1>1, <1>8
  <2>6. InFlightKey(o)' = InFlightKey(o) /\ SettledKey(o)' = SettledKey(o)
    BY DEF InFlightKey, SettledKey
  <2>7. Settling'
    BY <1>8, <1>9, <2>2, <2>3, <2>4, <2>5, <2>6 DEF Settling, Moving
  <2>8. ScannerInv'
    BY <1>1, <1>2, <1>9, <1>11, <2>5, <2>7 DEF ScannerInv, AtLog
  <2>9. PaymentIsKept'
    BY <1>1, <1>2, <1>9, <1>11, <2>2, <2>3, <2>5, <2>6 DEF PaymentIsKept
  <2> QED
    BY <1>3, <1>4, <2>8, <2>9 DEF EvmInv
<1> QED
  BY <1>10, <1>11

(* A command of the scanner fails, with or without its effect.             *)
LEMMA FailedStep ==
  ASSUME TypeOK, EvmInv, RedisFails(EvmScan), UNCHANGED evmVars
  PROVE  EvmInv'
<1>0. /\ EvmScan \in Workers /\ client \in [Workers -> Client]
      /\ redisErrors \in Nat
  BY ConstantFacts, SharedAssumption, SMT DEF TypeOK, SharedTypeOK
<1>1. /\ UNCHANGED <<issued, restarts>>
      /\ UNCHANGED <<evmHeight, evmLogs, evmCursor, evm>>
      /\ Effect(Caller) \/ UNCHANGED <<records, indexed>>
      /\ Caller.cmd \in Commands /\ Caller' = Error
      /\ redisErrors' = redisErrors + 1
  BY <1>0 DEF RedisFails, Call, flags, evmVars, storeVars, Caller
<1>2. redisErrors' > 0 /\ redisErrors' # 0
  BY <1>0, <1>1, SMT
<1>3. AtLog /\ evm.logs # <<>>
  <2>1. Caller.cmd # "ok"
    BY <1>1 DEF Commands
  <2> QED
    BY <2>1, IdleFacts DEF EvmInv, ScannerInv
<1>4. KeysAreIssued' /\ PaymentsUnderWay' /\ QueuedOnce' /\ Kept
  <2>1. CASE UNCHANGED <<records, indexed>>
    BY <1>1, <2>1, StoreUntouched DEF EvmInv
  <2>2. CASE Effect(Caller)
    <3>1. Caller.cmd \in {"srem", "del", "set", "sadd"}
      BY <2>2 DEF Effect
    <3>2. evm.pc \notin {"dedupe", "settle"}
      BY <3>1 DEF EvmInv, ScannerInv, Searching
    <3>3. evm.pc = "store"
      BY <1>3, <3>2 DEF AtLog
    <3> QED
      BY <1>1, <1>2, <2>2, <3>3, EffectKeeps
  <2> QED
    BY <1>1, <2>1, <2>2
<1>5. ChainInOrder' /\ BehindIsDone' /\ ScanCovers'
  BY <1>1, <1>4, ChainUntouched, BehindKept, ScanSteady DEF EvmInv
<1>6. /\ Caller'.cmd = "err" /\ Caller'.op = NoOp /\ Caller'.keys = {}
  BY <1>1, ErrorFacts
<1>7. Searching' /\ StoringDeposit' /\ Settling'
  <2>1. Searching'
    BY <1>6 DEF Searching
  <2>2. StoringDeposit'
    BY <1>6 DEF StoringDeposit
  <2>3. Settling'
    BY <1>6 DEF Settling, Moving
  <2> QED
    BY <2>1, <2>2, <2>3
<1>8. ScannerInv'
  <2>1. Transfer' = Transfer
    BY <1>1 DEF Transfer
  <2> QED
    BY <1>1, <1>2, <1>3, <1>7, <2>1 DEF EvmInv, ScannerInv, AtLog
<1>9. PaymentIsKept'
  BY <1>2 DEF PaymentIsKept
<1> QED
  BY <1>4, <1>5, <1>8, <1>9 DEF EvmInv

(***************************************************************************)
(* The inductive invariant.                                                *)
(***************************************************************************)
LEMMA EvmInvInit ==
  Init => TypeOK /\ EvmInv
<1> SUFFICES ASSUME Init PROVE TypeOK /\ EvmInv
  OBVIOUS
<1>1. PICK o \in InFlight :
        /\ records = [k \in Keys |-> IF k = InFlightKey(o) THEN o ELSE NoOp]
        /\ indexed = {InFlightKey(o)}
        /\ issued = {<<o.id, o.deposit>>}
  BY DEF Init
<1>2. /\ o \in BridgeOperation /\ o # NoOp /\ o.id \in OpIds /\ o.deposit \in Deposits
      /\ o.status \in Status /\ o.status \in Unsettled
      /\ InFlightKey(o) \in Keys
  <2>1. o \in BridgeOperation /\ o.status \in Unsettled
    BY EvmIntakeAssumption
  <2>2. o.id \in OpIds /\ o.deposit \in Deposits /\ o.status \in Status
    BY <2>1, SMT DEF BridgeOperation
  <2> QED
    BY <2>1, <2>2, SharedAssumption DEF InFlightKey, Keys
<1>3. InFlightKey(o)[1] = o.status /\ InFlightKey(o)[2] = o.id
      /\ records[InFlightKey(o)] = o
  BY <1>1, <1>2 DEF InFlightKey
<1>4. EvmScan \in Workers /\ Caller = Idle
  BY ConstantFacts DEF Init, Caller
<1>5. evm = EvmAsleep /\ evm.pc = "sleep" /\ evm \in EvmLocals
  BY AsleepFacts DEF Init
<1>6. FirstHeight \in Nat /\ SafetyWindow \in Nat /\ SafetyWindow <= FirstHeight
  BY ConstantFacts, SMT
<1>7. SharedTypeOK
  <2>1. /\ client \in [Workers -> Client] /\ \A w \in Workers : client[w].cmd = "ok"
    BY IdleFacts DEF Init
  <2>2. redisErrors \in 0 .. MaxRedisErrors /\ restarts \in 0 .. MaxRestarts
    BY SharedAssumption, SMT DEF Init
  <2>3. records \in [Keys -> BridgeOperation \union {NoOp}]
    BY <1>1, <1>2
  <2>4. indexed \subseteq Keys /\ issued \subseteq OpIds \X Deposits
    BY <1>1, <1>2
  <2>5. bound \subseteq Deposits /\ workerShutdown \in BOOLEAN
    BY DEF Init
  <2> QED
    BY <2>1, <2>2, <2>3, <2>4, <2>5 DEF SharedTypeOK
<1>8. EvmTypeOK
  <2>1. <<>> \in Seq(Log)
    BY EmptySeq
  <2> QED
    BY <1>5, <1>6, <2>1 DEF Init, EvmTypeOK, EvmLocals
<1>9. \A x \in UnderWay : x = o
  <2> SUFFICES ASSUME NEW x \in UnderWay PROVE x = o
    OBVIOUS
  <2>1. x \in InFlight /\ <<x.id, x.deposit>> = <<o.id, o.deposit>>
    BY <1>1 DEF UnderWay
  <2>2. x.id = o.id /\ x.deposit = o.deposit
    BY <2>1
  <2> QED
    BY <2>1, <2>2, EvmIntakeAssumption
<1>10. o \in UnderWay
  BY <1>1 DEF UnderWay
<1>11. KeysAreIssued
  BY <1>1, <1>2, <1>3 DEF KeysAreIssued
<1>12. PaymentsUnderWay
  <2>1. \A k \in indexed : Pays(k, o)
    BY <1>1, <1>3 DEF Pays
  <2> QED
    BY <1>9, <1>10, <2>1 DEF PaymentsUnderWay
<1>13. QueuedOnce
  BY <1>1 DEF QueuedOnce, Queued
<1>14. ChainInOrder
  <2>1. DOMAIN evmLogs = {} /\ evmLogs = <<>>
    BY DEF Init
  <2>2. evmCursor # NoCursor => evmCursor \in SafetyWindow .. evmHeight
    BY <1>6, SMT DEF Init
  <2>3. FirstHeight <= evmHeight
    BY <1>6, SMT DEF Init
  <2> QED
    BY <2>1, <2>2, <2>3 DEF ChainInOrder
<1>15. ScannerInv
  BY <1>4, <1>5, IdleFacts DEF ScannerInv, AtLog
<1>16. PaymentIsKept
  BY <1>1, <1>9 DEF PaymentIsKept
<1>17. ScanCovers
  BY <1>5 DEF ScanCovers, Scanning, AtLog
<1>18. BehindIsDone
  <2>1. DOMAIN evmLogs = {}
    BY DEF Init
  <2> QED
    BY <2>1 DEF BehindIsDone
<1> QED
  BY <1>7, <1>8, <1>11, <1>12, <1>13, <1>14, <1>15, <1>16, <1>17, <1>18
     DEF TypeOK, EvmInv

LEMMA EvmInvStep ==
  TypeOK /\ EvmInv /\ [Next]_vars => TypeOK' /\ EvmInv'
<1> SUFFICES ASSUME TypeOK, EvmInv, [Next]_vars PROVE TypeOK' /\ EvmInv'
  OBVIOUS
<1>1. TypeOK'
  BY EvmTypes DEF EvmInv
<1> SUFFICES EvmInv'
  BY <1>1
<1>2. CASE EvmMine(Waiting)
  BY <1>2, MineStep
<1>3. CASE EvmWake \/ EvmExit \/ EvmCallFails \/ (SharedReset /\ EvmReset)
  BY <1>3, RestingStep
<1>4. CASE EvmLatest
  BY <1>4, LatestStep
<1>5. CASE EvmFilter
  BY <1>5, FilterStep
<1>6. CASE EvmIncoming \/ EvmOutgoing
  BY <1>6, AskStep
<1>7. CASE EvmNew
  BY <1>7, NewStep
<1>8. CASE EvmSettle
  BY <1>8, SettleStep
<1>9. CASE EvmSkip \/ EvmBreak \/ EvmStored
  BY <1>9, AnsweredStep
<1>10. CASE EvmAdvance \/ EvmAdvanceFails
  BY <1>10, AdvanceStep
<1>11. CASE StoreStep(EvmScan) /\ UNCHANGED evmVars
  BY <1>11, SearchStep, WriteStep, FailedStep DEF StoreStep
<1>12. CASE (RaiseShutdown /\ UNCHANGED evmVars) \/ UNCHANGED vars
  BY <1>12, IdleStep
<1> QED
  BY <1>2, <1>3, <1>4, <1>5, <1>6, <1>7, <1>8, <1>9, <1>10, <1>11, <1>12
     DEF Next, EvmStep

(* The scanner's searches miss nothing on record and its scans no log that *)
(* is a safety window old, in every reachable state.                       *)
THEOREM EvmScanHolds == Spec => [](TypeOK /\ EvmInv)
BY EvmInvInit, EvmInvStep, PTL DEF Spec

(* The store, the saved block and the scanner's locals keep their types:   *)
(* in particular the block the scanner saves is never before the first.    *)
THEOREM EvmScanTypes == Spec => []TypeOK
BY EvmScanHolds, PTL

(* README.md:6: a deposit a safety window behind the saved block has its   *)
(* transaction on record, whichever nodes answered and wherever the        *)
(* process died, unless Redis failed or an outgoing transfer came shortly  *)
(* before it.                                                              *)
THEOREM NoDepositBehindTheWindow == Spec => []DepositsBehindWindow
<1>1. TypeOK /\ EvmInv => DepositsBehindWindow
  BY DEF EvmInv, BehindIsDone, Done, DepositDone, DepositsBehindWindow, Lost
<1> QED
  BY <1>1, EvmScanHolds, PTL

(* scanEVM.go:161: a payment a safety window behind the saved block has    *)
(* settled its operation, unless Redis failed, the process died or another *)
(* outgoing transfer came shortly before it.                               *)
THEOREM PaymentsBehindTheWindow == Spec => []PaymentsBehindWindow
<1>1. TypeOK /\ EvmInv => PaymentsBehindWindow
  BY DEF EvmInv, BehindIsDone, Done, PaymentDone, PaymentsBehindWindow, SettledKey
<1> QED
  BY <1>1, EvmScanHolds, PTL

(* scanEVM.go:105: "never add record if a record present with same source  *)
(* tx hash": while nobody else moves operations, a transaction is queued   *)
(* at most once, in spite of failing commands, restarts and blocks that    *)
(* are read again.                                                         *)
THEOREM NoLogQueuedTwice == Spec => []QueuedOnce
<1>1. TypeOK /\ EvmInv => QueuedOnce
  BY DEF EvmInv
<1> QED
  BY <1>1, EvmScanHolds, PTL

(* The scanner leaves no key in a set without its record, even when a      *)
(* settlement is cut short.                                                *)
THEOREM EvmScanLeavesNoDanglingKey == Spec => []IndexedHaveRecords
<1>1. TypeOK /\ EvmInv => IndexedHaveRecords
  BY DEF EvmInv, KeysAreIssued, IndexedHaveRecords
<1> QED
  BY <1>1, EvmScanHolds, PTL

=============================================================================
