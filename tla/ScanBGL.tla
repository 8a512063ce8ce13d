------------------------------ MODULE ScanBGL ------------------------------
(***************************************************************************)
(* The BGL scanner (workers/scanBGL.go).  It asks the node for the wallet  *)
(* transactions since the block it has saved, turns each confirmed deposit *)
(* into a bridge operation, and saves the block the node names as the next *)
(* starting point.  Blocks are known by their height; the chain of this    *)
(* model only grows.                                                       *)
(***************************************************************************)
EXTENDS SharedState

CONSTANTS
  BglScan,         \* the goroutine running Worker_scanBGL
  Confirmations,   \* config.BGL.Confirmations
  MaxBglHeight     \* bound: height of the BGL chain

ASSUME ScanBGLAssumption ==
  /\ BglScan \in Workers
  /\ Confirmations \in Nat \ {0}
  /\ MaxBglHeight \in Nat
  /\ 0 \notin Deposits

VARIABLES
  bglHeight,   \* height of the chain
  bglBlock,    \* bglBlock[d]: block that contains d, 0 while it has none
  bglCursor,   \* Redis key BGLBlockHash, 0 while absent
  bgl          \* locals of the scanner: pc, since, last, txs, tx

bglVars == <<bglHeight, bglBlock, bglCursor, bgl>>

BglAsleep == [pc |-> "sleep", since |-> 0, last |-> 0, txs |-> {}, tx |-> 0]

BglInit ==
  /\ bglHeight = Confirmations
  /\ bglBlock = [d \in BGLDeposits |-> 0]
  /\ bglCursor = 0
  /\ bgl = BglAsleep

(***************************************************************************)
(* The chain and the node's wallet (github.com/bitgesellofficial/go-bgld). *)
(***************************************************************************)
(* A block with these new transactions. *)
BglMine ==
  /\ bglHeight < MaxBglHeight
  /\ bglHeight' = bglHeight + 1
  /\ \E H \in SUBSET {SourceTx[d] : d \in {e \in BGLDeposits : bglBlock[e] = 0}} :
       bglBlock' = [d \in BGLDeposits |->
                      IF SourceTx[d] \in H THEN bglHeight + 1 ELSE bglBlock[d]]
  /\ UNCHANGED <<sharedVars, bglCursor, bgl>>

BglConfirmed(d) ==
  bglBlock[d] > 0 /\ bglHeight - bglBlock[d] + 1 >= Confirmations

(* Mutant of LastBlock: two blocks too deep. *)
LastBlockLow == bglHeight - 1 - Confirmations

(* listsinceblock(hash, n): the wallet transactions of later blocks, and   *)
(* as lastblock the block that has n confirmations now.                    *)
SinceBlock(b) == {d \in BGLDeposits : bglBlock[d] > b}
LastBlock     == bglHeight + 1 - Confirmations

(***************************************************************************)
(* The worker.  for !WorkerShutdown { sleep; ... }                         *)
(***************************************************************************)
BglAt(next) == bgl' = [bgl EXCEPT !.pc = next]

BglWake ==
  /\ bgl.pc = "sleep"
  /\ ~ workerShutdown
  /\ bgl' = [bgl EXCEPT !.pc = "list", !.since = bglCursor]
  /\ UNCHANGED <<sharedVars, bglHeight, bglBlock, bglCursor>>

BglExit ==
  /\ bgl.pc = "sleep"
  /\ workerShutdown
  /\ BglAt("exited")
  /\ UNCHANGED <<sharedVars, bglHeight, bglBlock, bglCursor>>

(* Mutants: the tip is saved as scanned; one confirmation too many is      *)
(* asked of a deposit.                                                     *)
BglListSavingTip ==
  /\ bgl.pc = "list"
  /\ bgl' = [bgl EXCEPT !.pc = "next", !.last = bglHeight,
               !.txs = {d \in SinceBlock(bgl.since) : BglConfirmed(d)}]
  /\ UNCHANGED <<sharedVars, bglHeight, bglBlock, bglCursor>>

BglListLate ==
  /\ bgl.pc = "list"
  /\ bgl' = [bgl EXCEPT !.pc = "next", !.last = LastBlock,
               !.txs = {d \in SinceBlock(bgl.since) :
                          bglHeight - bglBlock[d] + 1 > Confirmations}]
  /\ UNCHANGED <<sharedVars, bglHeight, bglBlock, bglCursor>>

(* Of what ListSinceBlock answers the loop acts on the deposits that were  *)
(* confirmed in that answer.                                               *)
BglList ==
  /\ bgl.pc = "list"
  /\ bgl' = [bgl EXCEPT !.pc = "next", !.last = LastBlock,
               !.txs = {d \in SinceBlock(bgl.since) : BglConfirmed(d)}]
  /\ UNCHANGED <<sharedVars, bglHeight, bglBlock, bglCursor>>

BglListFails ==
  /\ bgl.pc = "list"
  /\ bgl' = BglAsleep
  /\ UNCHANGED <<sharedVars, bglHeight, bglBlock, bglCursor>>

(* One transaction: GetAddressBookBySourceAddress decides between a search *)
(* for an operation with the same source transaction and a "failed" record *)
(* stored unconditionally.                                                 *)
BglTake(d, next) ==
  bgl' = [bgl EXCEPT !.pc = next, !.txs = @ \ {d}, !.tx = d]

BglKnown ==
  /\ bgl.pc = "next"
  /\ \E d \in bgl.txs \intersect bound :
       /\ BglTake(d, "dedupe")
       /\ Call(BglScan, FindSourceTx(SourceTx[d]))
  /\ UNCHANGED <<keptVars, flags, bglHeight, bglBlock, bglCursor>>

BglUnknown ==
  /\ bgl.pc = "next"
  /\ \E d \in bgl.txs \ bound :
       /\ BglTake(d, "store")
       /\ Create(BglScan, d, "failed")
  /\ UNCHANGED <<storeVars, bound, redisErrors, flags,
                 bglHeight, bglBlock, bglCursor>>

(* The address book cannot be read: continue with the next transaction.    *)
BglLookupFails ==
  /\ bgl.pc = "next"
  /\ \E d \in bgl.txs : BglTake(d, "next")
  /\ CommandFails
  /\ UNCHANGED <<storeVars, issued, bound, client, flags,
                 bglHeight, bglBlock, bglCursor>>

(* Mutant: what the search found is ignored. *)
BglNewAlways ==
  /\ bgl.pc = "dedupe"
  /\ Returned(BglScan)
  /\ BglAt("store")
  /\ Create(BglScan, bgl.tx, "pending")
  /\ UNCHANGED <<storeVars, bound, redisErrors, flags,
                 bglHeight, bglBlock, bglCursor>>

BglNew ==
  /\ bgl.pc = "dedupe"
  /\ Returned(BglScan) /\ ~ Failed(BglScan) /\ client[BglScan].op = NoOp
  /\ BglAt("store")
  /\ Create(BglScan, bgl.tx, "pending")
  /\ UNCHANGED <<storeVars, bound, redisErrors, flags,
                 bglHeight, bglBlock, bglCursor>>

(* An operation was found, or the search failed: logged, nothing stored.   *)
BglSkip ==
  /\ bgl.pc = "dedupe"
  /\ Returned(BglScan) /\ (Failed(BglScan) \/ client[BglScan].op # NoOp)
  /\ BglAt("next")
  /\ Consume(BglScan)
  /\ UNCHANGED <<keptVars, flags, bglHeight, bglBlock, bglCursor>>

(* A failed store breaks out of the loop over the transactions.            *)
BglStored ==
  /\ bgl.pc = "store"
  /\ Returned(BglScan)
  /\ bgl' = [bgl EXCEPT !.pc = "next",
                        !.txs = IF Failed(BglScan) THEN {} ELSE @]
  /\ Consume(BglScan)
  /\ UNCHANGED <<keptVars, flags, bglHeight, bglBlock, bglCursor>>

(* SetBGLScannedBlock(lastblock), after the loop however it ended; its     *)
(* error is dropped.                                                       *)
BglAdvance ==
  /\ bgl.pc = "next"
  /\ bgl.txs = {}
  /\ bgl' = BglAsleep
  /\ bglCursor' = bgl.last
  /\ UNCHANGED <<sharedVars, bglHeight, bglBlock>>

BglAdvanceFails ==
  /\ bgl.pc = "next"
  /\ bgl.txs = {}
  /\ bgl' = BglAsleep
  /\ bglCursor' \in {bgl.last, bglCursor}
  /\ CommandFails
  /\ UNCHANGED <<storeVars, issued, bound, client, flags, bglHeight, bglBlock>>

BglStep ==
  \/ BglWake \/ BglExit \/ BglList \/ BglListFails
  \/ BglKnown \/ BglUnknown \/ BglLookupFails
  \/ BglNew \/ BglSkip \/ BglStored
  \/ BglAdvance \/ BglAdvanceFails
  \/ StoreStep(BglScan) /\ UNCHANGED bglVars

BglReset ==
  /\ bgl' = BglAsleep
  /\ UNCHANGED <<bglHeight, bglBlock, bglCursor>>

BglTypeOK ==
  /\ bglHeight \in Nat
  /\ bglBlock \in [BGLDeposits -> Nat]
  /\ bglCursor \in Nat
  /\ bgl \in [pc : {"sleep", "list", "next", "dedupe", "store", "exited"},
              since : Nat, last : Nat, txs : SUBSET BGLDeposits,
              tx : BGLDeposits \union {0}]

=============================================================================
