------------------------------ MODULE ScanEVM ------------------------------
(***************************************************************************)
(* The scanner of one EVM chain (workers/scanEVM.go).  It reads the WBGL   *)
(* transfers since the block it has saved less a safety window, batch by   *)
(* batch, and acts on two kinds: a transfer to the bridge becomes a        *)
(* pending operation, a transfer from the bridge settles the operation     *)
(* whose DestTxHash it carries.                                            *)
(***************************************************************************)
EXTENDS SharedState, SequencesExt

CONSTANTS
  EvmScan,        \* the goroutine running Worker_scanEVM(chainId)
  SafetyWindow,   \* ChainConfig.SafetyWindow
  BlockBatch,     \* ChainConfig.BlockBatch
  Lag,            \* blocks an RPC node may be behind the chain
  MaxEvmHeight    \* bound: height of the EVM chain

(* The chain was there long before the bridge: block numbers that the      *)
(* scanner computes are positive.                                          *)
FirstHeight == SafetyWindow + Lag

ASSUME ScanEVMAssumption ==
  /\ EvmScan \in Workers
  /\ {SafetyWindow, BlockBatch} \subseteq Nat \ {0}
  /\ SafetyWindow <= BlockBatch    \* as for every chain of config.EVMChains
  /\ Lag \in 0 .. SafetyWindow
  /\ MaxEvmHeight \in Nat
  /\ Deposits \intersect Nat = {}

(* The scanned block before the first scan. *)
NoCursor == -1

(* Transfers: a deposit, or the tx hash of a WBGL payment of the bridge.   *)
EVMDeposits == Deposits \ BGLDeposits
Transfers   == EVMDeposits \union (Nat \ {0})
Log         == [block : Nat, transfer : Transfers]

VARIABLES
  evmHeight,   \* height of the chain
  evmLogs,     \* transfers to and from the bridge, in chain order
  evmCursor,   \* Redis key of the scanned block, NoCursor while absent
  evm          \* locals of the scanner: pc, from, latest, to, logs

evmVars  == <<evmHeight, evmLogs, evmCursor, evm>>
evmChain == <<evmHeight, evmLogs>>

EvmAsleep == [pc |-> "sleep", from |-> 0, latest |-> 0, to |-> 0, logs |-> <<>>]

(* A block with some of these new transfers, in any order. *)
EvmMine(new) ==
  /\ evmHeight < MaxEvmHeight
  /\ evmHeight' = evmHeight + 1
  /\ \E S \in SUBSET new : IsFiniteSet(S) /\ \E s \in SetToSeqs(S) :
       evmLogs' = evmLogs \o [i \in DOMAIN s |->
                                [block |-> evmHeight + 1, transfer |-> s[i]]]
  /\ UNCHANGED <<sharedVars, evmCursor, evm>>

(* Every call may be answered by another node of RPCList. *)
NodeHeight == evmHeight - Lag .. evmHeight

(***************************************************************************)
(* for !WorkerShutdown { sleep; GetEVMScannedBlock; BlockNumber; ... }     *)
(* A failed GET leaves the scanner asleep.                                 *)
(***************************************************************************)
EvmAt(next) == evm' = [evm EXCEPT !.pc = next]

EvmWake ==
  /\ evm.pc = "sleep"
  /\ ~ workerShutdown
  /\ evm' = [evm EXCEPT !.pc = "latest", !.from = evmCursor]
  /\ UNCHANGED <<sharedVars, evmChain, evmCursor>>

EvmExit ==
  /\ evm.pc = "sleep"
  /\ workerShutdown
  /\ EvmAt("exited")
  /\ UNCHANGED <<sharedVars, evmChain, evmCursor>>

(* Mutant: the last block of a batch is left out. *)
BatchShort(from, latest) ==
  IF from < latest
  THEN [pc |-> "filter", from |-> from, latest |-> latest, logs |-> <<>>,
        to |-> IF from + BlockBatch - 2 > latest THEN latest
               ELSE from + BlockBatch - 2]
  ELSE EvmAsleep

(* The batch that starts at block from, if there is one. *)
Batch(from, latest) ==
  IF from < latest
  THEN [pc |-> "filter", from |-> from, latest |-> latest, logs |-> <<>>,
        to |-> IF from + BlockBatch - 1 > latest THEN latest
               ELSE from + BlockBatch - 1]
  ELSE EvmAsleep

(* Mutant: no safety window. *)
ScanFromSaved(cursor, latest) ==
  (IF cursor = NoCursor THEN latest ELSE cursor) + 1

(* The block the scan starts after: a window before the saved block, or    *)
(* before the latest one when no block was ever saved.                     *)
ScanFrom(cursor, latest) ==
  (IF cursor = NoCursor THEN latest ELSE cursor) - SafetyWindow + 1

EvmLatest ==
  /\ evm.pc = "latest"
  /\ \E latest \in NodeHeight :
       evm' = Batch(ScanFrom(evm.from, latest), latest)
  /\ UNCHANGED <<sharedVars, evmChain, evmCursor>>

(* Positions of the logs that a node at this height knows of the batch.    *)
Filtered(head) ==
  {i \in DOMAIN evmLogs :
     evmLogs[i].block \in evm.from .. evm.to /\ evmLogs[i].block <= head}

(* FilterLogs: they are in a row, as the logs are in chain order. *)
EvmFilter ==
  /\ evm.pc = "filter"
  /\ \E head \in NodeHeight, m, n \in 0 .. Len(evmLogs) :
       /\ Filtered(head) = m + 1 .. n
       /\ evm' = [evm EXCEPT !.pc = "next", !.logs = SubSeq(evmLogs, m + 1, n)]
  /\ UNCHANGED <<sharedVars, evmChain, evmCursor>>

(* No node answers BlockNumber or FilterLogs. *)
EvmCallFails ==
  /\ evm.pc \in {"latest", "filter"}
  /\ evm' = EvmAsleep
  /\ UNCHANGED <<sharedVars, evmChain, evmCursor>>

(***************************************************************************)
(* for _, l := range logs.  break leaves this loop, not the one over the   *)
(* batches.                                                                *)
(***************************************************************************)
Transfer == Head(evm.logs).transfer

NextLog  == evm' = [evm EXCEPT !.pc = "next", !.logs = Tail(evm.logs)]
BreakOut == evm' = [evm EXCEPT !.pc = "next", !.logs = <<>>]

EvmIncoming ==
  /\ evm.pc = "next" /\ evm.logs # <<>>
  /\ Transfer \in EVMDeposits
  /\ EvmAt("dedupe")
  /\ Call(EvmScan, FindSourceTx(SourceTx[Transfer]))
  /\ UNCHANGED <<keptVars, flags, evmChain, evmCursor>>

(* Mutant: the payment is searched among the deposits. *)
EvmOutgoingAsSource ==
  /\ evm.pc = "next" /\ evm.logs # <<>>
  /\ Transfer \notin EVMDeposits
  /\ EvmAt("settle")
  /\ Call(EvmScan, FindSourceTx(Transfer))
  /\ UNCHANGED <<keptVars, flags, evmChain, evmCursor>>

EvmOutgoing ==
  /\ evm.pc = "next" /\ evm.logs # <<>>
  /\ Transfer \notin EVMDeposits
  /\ EvmAt("settle")
  /\ Call(EvmScan, FindDestTx(Transfer))
  /\ UNCHANGED <<keptVars, flags, evmChain, evmCursor>>

(* Mutant: what the search found is ignored. *)
EvmNewAlways ==
  /\ evm.pc = "dedupe"
  /\ Returned(EvmScan)
  /\ EvmAt("store")
  /\ Create(EvmScan, Transfer, "pending")
  /\ UNCHANGED <<storeVars, bound, redisErrors, flags, evmChain, evmCursor>>

EvmNew ==
  /\ evm.pc = "dedupe"
  /\ Returned(EvmScan) /\ ~ Failed(EvmScan) /\ client[EvmScan].op = NoOp
  /\ EvmAt("store")
  /\ Create(EvmScan, Transfer, "pending")
  /\ UNCHANGED <<storeVars, bound, redisErrors, flags, evmChain, evmCursor>>

(* The deposit is on record, the payment on none, or the search failed:    *)
(* logged, nothing stored.                                                 *)
EvmSkip ==
  /\ Returned(EvmScan)
  /\ \/ evm.pc = "dedupe" /\ (Failed(EvmScan) \/ client[EvmScan].op # NoOp)
     \/ evm.pc = "settle" /\ client[EvmScan].op = NoOp
  /\ NextLog
  /\ Consume(EvmScan)
  /\ UNCHANGED <<keptVars, flags, evmChain, evmCursor>>

Unsettled == {"executing", "returning"}

(* Mutant: a status that is no key of RedisStatusSets. *)
SettledMisspelt(status) == "succes"

Settled(status) ==
  CASE status = "executing" -> "success"
    [] status = "returning" -> "returnsuccess"

EvmSettle ==
  /\ evm.pc = "settle"
  /\ Returned(EvmScan) /\ client[EvmScan].op # NoOp
  /\ LET found == client[EvmScan].op
     IN  /\ found.status \in Unsettled
         /\ Call(EvmScan, ChangeCall([found EXCEPT !.status = Settled(found.status)],
                                     found.status))
  /\ EvmAt("store")
  /\ UNCHANGED <<keptVars, flags, evmChain, evmCursor>>

(* Settled already ("do nothing, tx processed, all ok"), or a status that  *)
(* is not expected here: break.                                            *)
EvmBreak ==
  /\ evm.pc = "settle"
  /\ Returned(EvmScan) /\ client[EvmScan].op # NoOp
  /\ client[EvmScan].op.status \notin Unsettled
  /\ BreakOut
  /\ Consume(EvmScan)
  /\ UNCHANGED <<keptVars, flags, evmChain, evmCursor>>

EvmStored ==
  /\ evm.pc = "store"
  /\ Returned(EvmScan)
  /\ IF Failed(EvmScan) THEN BreakOut ELSE NextLog
  /\ Consume(EvmScan)
  /\ UNCHANGED <<keptVars, flags, evmChain, evmCursor>>

(* SetEVMScannedBlock(toBlock), after the loop however it ended; its error *)
(* is dropped.  Then the next batch.                                       *)
EvmDone ==
  /\ evm.pc = "next" /\ evm.logs = <<>>
  /\ evm' = Batch(evm.from + BlockBatch, evm.latest)
  /\ UNCHANGED <<storeVars, issued, bound, client, flags, evmChain>>

EvmAdvance ==
  /\ EvmDone
  /\ evmCursor' = evm.to
  /\ UNCHANGED redisErrors

EvmAdvanceFails ==
  /\ EvmDone
  /\ evmCursor' \in {evm.to, evmCursor}
  /\ CommandFails

EvmStep ==
  \/ EvmWake \/ EvmExit \/ EvmLatest \/ EvmFilter \/ EvmCallFails
  \/ EvmIncoming \/ EvmNew \/ EvmOutgoing \/ EvmSettle \/ EvmBreak
  \/ EvmSkip \/ EvmStored
  \/ EvmAdvance \/ EvmAdvanceFails
  \/ StoreStep(EvmScan) /\ UNCHANGED evmVars

EvmReset ==
  /\ evm' = EvmAsleep
  /\ UNCHANGED <<evmChain, evmCursor>>

EvmTypeOK ==
  /\ evmHeight \in Nat
  /\ evmLogs \in Seq(Log)
  /\ evmCursor \in Nat \union {NoCursor}
  /\ evm \in [pc : {"sleep", "latest", "filter", "next", "dedupe", "settle",
                    "store", "exited"},
              from : Nat \union {NoCursor}, latest : Nat, to : Nat, logs : Seq(Log)]

(***************************************************************************)
(* The blocks of a scan.  A batch is of blocks that the node asked first   *)
(* had, none longer than BlockBatch; the saved block is a window behind no *)
(* block of the chain at the start.                                        *)
(***************************************************************************)
AtLog    == evm.pc \in {"dedupe", "settle", "store"}
Scanning == evm.pc \in {"filter", "next"} \/ AtLog

BatchBounds ==
  /\ 1 <= evm.from /\ evm.from <= evm.to /\ evm.to <= evm.latest
  /\ SafetyWindow <= evm.latest /\ evm.latest <= evmHeight
  /\ evm.to = evm.latest \/ evm.to = evm.from + BlockBatch - 1
  /\ evm.to <= evm.from + BlockBatch - 1

ScanBounds ==
  /\ FirstHeight <= evmHeight
  /\ evmCursor # NoCursor => evmCursor \in SafetyWindow .. evmHeight
  /\ evm.pc = "latest" => evm.from = evmCursor
  /\ AtLog => evm.logs # <<>>
  /\ Scanning => BatchBounds

=============================================================================
