-------------------------- MODULE BglIntakeProofs --------------------------
(***************************************************************************)
(* Proofs about the BGL scanner: TypeOK and the inductive invariant BglInv *)
(* of BglIntakeInvariants, and from them the safety properties of          *)
(* BglIntake, for every set of deposits and transactions, every number of  *)
(* confirmations, and failures and restarts at any point.                  *)
(***************************************************************************)
EXTENDS BglIntakeInvariants, SharedStateProofs

(***************************************************************************)
(* Types.                                                                  *)
(***************************************************************************)

(* What every step of the scanner leaves of the shared state. *)
LEMMA SharedType ==
  ASSUME TypeOK, ScannerInv, [Next]_vars
  PROVE  SharedTypeOK'
<1> USE DEF TypeOK
<1>0. /\ BGLDeposits \subseteq Deposits /\ {"pending", "failed"} \subseteq Status
      /\ BglScan \in Workers
  BY SharedAssumption, ScanBGLAssumption DEF Status
<1>1. CASE UNCHANGED sharedVars
  BY <1>1 DEF sharedVars, keptVars, storeVars, flags, SharedTypeOK
<1>2. CASE BglKnown
  <2>1. PICK d \in bgl.txs : Call(BglScan, FindSourceTx(SourceTx[d]))
    BY <1>2 DEF BglKnown
  <2>2. d \in Deposits
    BY <1>0, SMT DEF BglTypeOK
  <2>3. FindSourceTx(SourceTx[d]) \in Client /\ FindSourceTx(SourceTx[d]).cmd = "sscan"
    BY <2>2, FindSourceTxFacts
  <2> QED
    BY <1>0, <1>2, <2>1, <2>3, CallType
       DEF BglKnown, Call, keptVars, storeVars, SharedTypeOK
<1>3. CASE BglUnknown
  <2>1. PICK d \in bgl.txs : Create(BglScan, d, "failed")
    BY <1>3 DEF BglUnknown
  <2>2. d \in Deposits
    BY <1>0, SMT DEF BglTypeOK
  <2> QED
    BY <1>0, <1>3, <2>1, <2>2, CreateType DEF BglUnknown
<1>4. CASE BglNew
  <2>1. bgl.tx \in Deposits
    BY <1>0, <1>4 DEF ScannerInv, BglNew
  <2> QED
    BY <1>0, <1>4, <2>1, CreateType DEF BglNew
<1>5. CASE BglLookupFails \/ BglAdvanceFails
  BY <1>5, CommandFailsType DEF BglLookupFails, BglAdvanceFails
<1>6. CASE BglSkip \/ BglStored
  BY <1>0, <1>6, ConsumeType DEF BglSkip, BglStored
<1>7. CASE StoreStep(BglScan)
  BY <1>7, ScanBGLAssumption, SScanType, GetType, WriteType, RedisFailsType DEF StoreStep
<1>8. CASE RaiseShutdown
  BY <1>8 DEF RaiseShutdown, SharedTypeOK, keptVars, storeVars
<1>9. CASE SharedReset
  BY <1>9, ResetType
<1> QED
  BY <1>1, <1>2, <1>3, <1>4, <1>5, <1>6, <1>7, <1>8, <1>9, Zenon
     DEF Next, vars, BglStep, BglMine, BglWake, BglExit, BglList, BglListFails, BglAdvance

(* The locals of the scanner.                                              *)
BglLocals ==
  [pc : {"sleep", "list", "next", "dedupe", "store", "exited"},
   since : Nat, last : Nat, txs : SUBSET BGLDeposits, tx : BGLDeposits \union {0}]

LEMMA AsleepFacts ==
  BglAsleep \in BglLocals /\ BglAsleep.pc = "sleep"
BY SMT DEF BglAsleep, BglLocals

(* The scanner goes on; the chain, its cursor and its clock do not move.   *)
LEMMA LocalsStep ==
  ASSUME BglTypeOK, ScanCovers, BglStep
  PROVE  bgl' \in BglLocals /\ UNCHANGED <<bglHeight, bglBlock>>
<1>0. bgl \in BglLocals /\ bglHeight \in Nat /\ bglCursor \in Nat
  BY DEF BglTypeOK, BglLocals
<1>1. UNCHANGED <<bglHeight, bglBlock>>
  BY Zenon
     DEF BglStep, BglWake, BglExit, BglList, BglListFails, BglKnown, BglUnknown,
         BglLookupFails, BglNew, BglSkip, BglStored, BglAdvance, BglAdvanceFails, bglVars
<1> SUFFICES bgl' \in BglLocals
  BY <1>1
<1>2. CASE BglWake
  BY <1>0, <1>2, Zenon DEF BglWake, BglLocals
<1>3. CASE BglExit \/ BglNew \/ BglSkip
  <2>1. PICK pc \in {"exited", "store", "next"} : bgl' = [bgl EXCEPT !.pc = pc]
    BY <1>3 DEF BglExit, BglNew, BglSkip, BglAt
  <2> QED
    BY <1>0, <2>1, SMT DEF BglLocals
<1>4. CASE BglList
  <2>1. LastBlock \in Nat
    BY <1>0, ScanBGLAssumption, SMT DEF LastBlock, ScanCovers
  <2>2. {d \in SinceBlock(bgl.since) : BglConfirmed(d)} \in SUBSET BGLDeposits
    BY DEF SinceBlock
  <2>3. PICK S \in SUBSET BGLDeposits, n \in Nat :
          bgl' = [bgl EXCEPT !.pc = "next", !.last = n, !.txs = S]
    BY <1>4, <2>1, <2>2 DEF BglList
  <2> QED
    BY <1>0, <2>3, Zenon DEF BglLocals
<1>5. CASE BglKnown \/ BglUnknown \/ BglLookupFails
  <2>1. PICK d \in bgl.txs, pc \in {"dedupe", "store", "next"} :
          bgl' = [bgl EXCEPT !.pc = pc, !.txs = bgl.txs \ {d}, !.tx = d]
    BY <1>5 DEF BglKnown, BglUnknown, BglLookupFails, BglTake
  <2>2. bgl.txs \in SUBSET BGLDeposits
    BY <1>0, SMT DEF BglLocals
  <2>3. PICK S : S = bgl.txs \ {d}
    OBVIOUS
  <2>4. S \in SUBSET BGLDeposits /\ d \in BGLDeposits
    BY <2>2, <2>3
  <2>5. bgl' = [bgl EXCEPT !.pc = pc, !.txs = S, !.tx = d]
    BY <2>1, <2>3
  <2> QED
    BY <1>0, <2>4, <2>5, Zenon DEF BglLocals
<1>6. CASE BglStored
  <2>1. bgl.txs \in SUBSET BGLDeposits
    BY <1>0, SMT DEF BglLocals
  <2>2. PICK S \in SUBSET BGLDeposits : bgl' = [bgl EXCEPT !.pc = "next", !.txs = S]
    BY <1>6, <2>1 DEF BglStored
  <2> QED
    BY <1>0, <2>2, Zenon DEF BglLocals
<1>7. CASE BglListFails \/ BglAdvance \/ BglAdvanceFails
  BY <1>7, AsleepFacts DEF BglListFails, BglAdvance, BglAdvanceFails
<1>8. CASE UNCHANGED bglVars
  BY <1>0, <1>8 DEF bglVars
<1> QED
  BY <1>2, <1>3, <1>4, <1>5, <1>6, <1>7, <1>8 DEF BglStep

LEMMA BglTypes ==
  ASSUME TypeOK, ScannerInv, ScanCovers, [Next]_vars
  PROVE  TypeOK'
<1>0. /\ bglHeight \in Nat /\ bglBlock \in [BGLDeposits -> Nat]
      /\ bglCursor \in Nat /\ bgl \in BglLocals
  BY DEF TypeOK, BglTypeOK, BglLocals
<1>1. bglHeight' \in Nat /\ bglBlock' \in [BGLDeposits -> Nat] /\ bgl' \in BglLocals
  <2>1. CASE BglStep
    BY <1>0, <2>1, LocalsStep DEF TypeOK
  <2>2. CASE BglMine
    <3>1. bglHeight + 1 \in Nat
      BY <1>0, SMT
    <3> QED
      BY <1>0, <2>2, <3>1 DEF BglMine
  <2>3. CASE SharedReset /\ BglReset
    BY <1>0, <2>3, AsleepFacts DEF BglReset
  <2>4. CASE UNCHANGED bglVars
    BY <1>0, <2>4 DEF bglVars
  <2> QED
    BY <2>1, <2>2, <2>3, <2>4 DEF Next, vars
<1>2. bglCursor' \in Nat
  <2>1. bgl.last \in Nat
    BY <1>0, SMT DEF BglLocals
  <2>2. bglCursor' \in {bglCursor, bgl.last}
    BY Zenon
       DEF Next, vars, BglMine, BglReset, bglVars, BglStep, BglWake, BglExit, BglList,
           BglListFails, BglKnown, BglUnknown, BglLookupFails, BglNew, BglSkip,
           BglStored, BglAdvance, BglAdvanceFails
  <2> QED
    BY <1>0, <2>1, <2>2
<1> QED
  BY <1>1, <1>2, SharedType DEF TypeOK, BglTypeOK, BglLocals

(***************************************************************************)
(* Steps that do not touch the store.                                      *)
(***************************************************************************)
LEMMA StoreUntouched ==
  ASSUME KeysAreIssued, QueuedOnce, UNCHANGED <<records, indexed, issued>>
  PROVE  KeysAreIssued' /\ QueuedOnce'
BY DEF KeysAreIssued, QueuedOnce, Queued

LEMMA ScannerRests ==
  ASSUME bgl'.pc \notin {"dedupe", "store"}, Caller' = Idle
  PROVE  ScannerInv'
BY IdleFacts DEF ScannerInv

LEMMA ScannerSteady ==
  ASSUME ScannerInv,
         UNCHANGED <<records, indexed, issued, bound, client, bgl, redisErrors>>
  PROVE  ScannerInv'
BY DEF ScannerInv, Searching, Storing, Caller, SameHash, Recorded

(***************************************************************************)
(* What is covered stays covered.                                          *)
(***************************************************************************)
Kept ==
  /\ \A k \in indexed : k \in indexed' /\ records'[k] = records[k]
  /\ bound' = bound
  /\ redisErrors' = 0 => redisErrors = 0

LEMMA CoveredKept ==
  ASSUME Kept, NEW d, Covered(d)
  PROVE  Covered(d)'
<1>1. \A e : Recorded(e) => Recorded(e)'
  BY DEF Kept, Recorded
<1> QED
  BY <1>1 DEF Covered, Kept, SameTx

LEMMA BehindIsCovered ==
  NothingBehindCursor <=>
    (redisErrors = 0 =>
       \A d \in BGLDeposits : bglBlock[d] \in 1 .. bglCursor => Covered(d))
BY DEF NothingBehindCursor, Covered

LEMMA BehindIsCoveredAfter ==
  (NothingBehindCursor <=>
     (redisErrors = 0 =>
        \A d \in BGLDeposits : bglBlock[d] \in 1 .. bglCursor => Covered(d)))'
BY BehindIsCovered, PTL

(* A step of the scan leaves alone what lies behind the saved block.       *)
LEMMA BehindKept ==
  ASSUME NothingBehindCursor, Kept, UNCHANGED <<bglBlock, bglCursor>>
  PROVE  NothingBehindCursor'
BY CoveredKept, BehindIsCovered, BehindIsCoveredAfter DEF Kept

(* A scan that goes on answers for the same deposits.                      *)
LEMMA ScanGoesOn ==
  ASSUME ScanCovers, Kept, UNCHANGED <<bglHeight, bglBlock, bglCursor>>,
         bgl.pc \in {"next", "dedupe", "store"}, bgl'.last = bgl.last,
         bgl'.pc \in {"next", "dedupe", "store"},
         \A d \in BGLDeposits :
           redisErrors' = 0 =>
             /\ d \in bgl.txs => d \in bgl'.txs \/ InHand(d)' \/ Covered(d)'
             /\ InHand(d) => InHand(d)' \/ Covered(d)'
  PROVE  ScanCovers'
<1>1. \A d : Covered(d) => Covered(d)'
  BY CoveredKept
<1>2. "list" \notin {"next", "dedupe", "store"}
  OBVIOUS
<1> QED
  BY <1>1, <1>2, Zenon DEF ScanCovers, Kept

LEMMA ScanEnds ==
  ASSUME ScanCovers, bglHeight' = bglHeight, bglCursor' <= bglHeight,
         bgl'.pc \notin {"list", "next", "dedupe", "store"}
  PROVE  ScanCovers'
BY DEF ScanCovers

(***************************************************************************)
(* The scan: what the node answers, and the block that is saved.           *)
(***************************************************************************)
LEMMA MineStep ==
  ASSUME TypeOK, BglInv, BglMine
  PROVE  BglInv'
<1>1. /\ UNCHANGED <<records, indexed, issued, bound, client, bgl, redisErrors>>
      /\ bglCursor' = bglCursor /\ bglHeight' = bglHeight + 1
      /\ \A d \in BGLDeposits : bglBlock'[d] \in {bglBlock[d], bglHeight + 1}
  BY DEF BglMine, sharedVars, keptVars, storeVars
<1>2. /\ bglHeight \in Nat /\ bglCursor \in Nat /\ bgl.last \in Nat
      /\ Confirmations \in Nat
      /\ bglCursor <= bglHeight /\ Confirmations <= bglHeight
      /\ bgl.pc \in {"next", "dedupe", "store"} => bgl.last <= bglHeight
  BY ScanBGLAssumption, SMT DEF TypeOK, BglTypeOK, BglInv, ScanCovers
<1>3. ASSUME NEW n \in Nat, n <= bglHeight, NEW d \in BGLDeposits, bglBlock'[d] \in 1 .. n
      PROVE  bglBlock[d] \in 1 .. n
  BY <1>1, <1>2, <1>3, SMT
<1>4. Kept
  BY <1>1 DEF Kept
<1>5. \A d : Covered(d) => Covered(d)'
  BY <1>4, CoveredKept
<1>6. NothingBehindCursor'
  BY <1>1, <1>2, <1>3, <1>5, BehindIsCovered, BehindIsCoveredAfter DEF BglInv
<1>7. ScanCovers'
  <2>1. bglHeight' >= Confirmations /\ bglCursor' <= bglHeight'
    BY <1>1, <1>2, SMT
  <2>2. bgl.pc \in {"next", "dedupe", "store"} => bgl.last <= bglHeight'
    BY <1>1, <1>2, SMT
  <2>3. \A d : InHand(d) <=> InHand(d)'
    BY <1>1 DEF InHand
  <2> QED
    BY <1>1, <1>2, <1>3, <1>5, <2>1, <2>2, <2>3 DEF BglInv, ScanCovers
<1>8. KeysAreIssued' /\ QueuedOnce' /\ ScannerInv'
  BY <1>1, StoreUntouched, ScannerSteady DEF BglInv
<1> QED
  BY <1>6, <1>7, <1>8 DEF BglInv

(* The saved block does not move and no search or store is under way.      *)
LEMMA RestingStep ==
  ASSUME TypeOK, BglInv,
         \/ BglWake \/ BglExit \/ BglList \/ BglListFails \/ BglLookupFails
         \/ SharedReset /\ BglReset
  PROVE  BglInv'
<1>0. /\ bgl \in BglLocals /\ bglHeight \in Nat /\ bglCursor \in Nat
      /\ BglScan \in Workers
  BY ScanBGLAssumption DEF TypeOK, BglTypeOK, BglLocals
<1>1. /\ UNCHANGED <<records, indexed, issued, bound, bglHeight, bglBlock, bglCursor>>
      /\ Kept
  <2>1. /\ UNCHANGED <<records, indexed, issued, bound, bglHeight, bglBlock, bglCursor>>
        /\ redisErrors' = redisErrors \/ redisErrors' = redisErrors + 1
    BY Zenon
       DEF BglWake, BglExit, BglList, BglListFails, BglLookupFails, SharedReset, BglReset,
           CommandFails, sharedVars, keptVars, storeVars
  <2>2. redisErrors \in Nat
    BY SharedAssumption, SMT DEF TypeOK, SharedTypeOK
  <2>3. redisErrors' = 0 => redisErrors = 0
    BY <2>1, <2>2, SMT
  <2> QED
    BY <2>1, <2>3 DEF Kept
<1>2. NothingBehindCursor' /\ KeysAreIssued' /\ QueuedOnce'
  BY <1>1, BehindKept, StoreUntouched DEF BglInv
<1>3. CASE BglWake
  <2>1. /\ bgl'.pc = "list" /\ bgl'.since = bglCursor /\ bgl.pc = "sleep"
        /\ client' = client
    BY <1>0, <1>3, SMT DEF BglWake, BglLocals, sharedVars
  <2>2. ScannerInv'
    BY <2>1, ScannerRests DEF BglInv, ScannerInv, Caller
  <2>3. ScanCovers'
    BY <1>1, <2>1 DEF BglInv, ScanCovers
  <2> QED
    BY <1>2, <2>2, <2>3 DEF BglInv
<1>4. CASE BglExit \/ BglListFails \/ (SharedReset /\ BglReset)
  <2>1. /\ bgl'.pc \in {"exited", "sleep"}
        /\ \/ client' = client /\ bgl.pc \in {"sleep", "list"}
           \/ Caller' = Idle
    <3>1. CASE BglExit
      BY <1>0, <3>1, SMT DEF BglExit, BglAt, BglLocals, sharedVars
    <3>2. CASE BglListFails
      BY <3>2, AsleepFacts DEF BglListFails, sharedVars
    <3>3. CASE SharedReset /\ BglReset
      BY <1>0, <3>3, AsleepFacts DEF SharedReset, BglReset, Caller
    <3> QED
      BY <1>4, <3>1, <3>2, <3>3
  <2>2. ScannerInv'
    BY <2>1, ScannerRests DEF BglInv, ScannerInv, Caller
  <2>3. ScanCovers'
    BY <1>1, <2>1, ScanEnds DEF BglInv, ScanCovers
  <2> QED
    BY <1>2, <2>2, <2>3 DEF BglInv
<1>5. CASE BglList
  <2> DEFINE S == {d \in SinceBlock(bgl.since) : BglConfirmed(d)}
  <2>1. /\ bgl'.pc = "next" /\ bgl'.last = LastBlock /\ bgl'.txs = S
        /\ bgl.pc = "list" /\ client' = client
    <3>1. PICK s, n : s = S /\ n = LastBlock
      OBVIOUS
    <3>2. bgl' = [bgl EXCEPT !.pc = "next", !.last = n, !.txs = s] /\ bgl.pc = "list"
      BY <1>5, <3>1 DEF BglList
    <3>3. bgl'.pc = "next" /\ bgl'.last = n /\ bgl'.txs = s
      BY <1>0, <3>2, SMT DEF BglLocals
    <3> QED
      BY <1>5, <3>1, <3>2, <3>3 DEF BglList, sharedVars
  <2>2. ScannerInv'
    BY <2>1, ScannerRests DEF BglInv, ScannerInv, Caller
  <2>3. LastBlock <= bglHeight
    BY <1>0, ScanBGLAssumption, SMT DEF LastBlock
  <2>4. bgl.since = bglCursor
    BY <2>1 DEF BglInv, ScanCovers
  <2>5. ASSUME NEW d \in BGLDeposits, bglBlock[d] \in 1 .. LastBlock, redisErrors = 0
        PROVE  d \in S \/ Covered(d)
    <3>1. bglBlock[d] \in Nat
      BY DEF TypeOK, BglTypeOK
    <3>2. BglConfirmed(d)
      BY <1>0, <2>5, <3>1, ScanBGLAssumption, SMT DEF BglConfirmed, LastBlock
    <3>3. CASE bglBlock[d] > bgl.since
      BY <3>2, <3>3 DEF SinceBlock
    <3>4. CASE ~ (bglBlock[d] > bgl.since)
      <4>1. bglBlock[d] \in 1 .. bglCursor
        BY <1>0, <2>4, <2>5, <3>1, <3>4, ScanBGLAssumption, SMT DEF LastBlock
      <4> QED
        BY <2>5, <4>1, BehindIsCovered DEF BglInv
    <3> QED
      BY <3>3, <3>4
  <2>6. LastBlock' = LastBlock
    BY <1>1 DEF LastBlock
  <2>7. \A d : Covered(d) => Covered(d)'
    BY <1>1, CoveredKept
  <2> HIDE DEF S
  <2>8. ScanCovers'
    BY <1>1, <2>1, <2>3, <2>5, <2>7 DEF BglInv, ScanCovers, Kept
  <2> QED
    BY <1>2, <2>2, <2>8 DEF BglInv
<1>6. CASE BglLookupFails
  <2>1. bgl.pc = "next" /\ client' = client /\ redisErrors' # 0
    <3>1. redisErrors' = redisErrors + 1 /\ redisErrors \in Nat
      BY <1>6, SharedAssumption, SMT DEF BglLookupFails, CommandFails, TypeOK, SharedTypeOK
    <3>2. redisErrors' # 0
      BY <3>1, SMT
    <3> QED
      BY <1>6, <3>2 DEF BglLookupFails
  <2>2. bgl'.pc = "next" /\ bgl'.last = bgl.last
    <3>1. PICK d \in bgl.txs : BglTake(d, "next")
      BY <1>6 DEF BglLookupFails
    <3>2. PICK s : s = bgl.txs \ {d}
      OBVIOUS
    <3>3. bgl' = [bgl EXCEPT !.pc = "next", !.txs = s, !.tx = d]
      BY <3>1, <3>2 DEF BglTake
    <3> QED
      BY <1>0, <3>3, SMT DEF BglLocals
  <2>3. ScannerInv'
    BY <2>1, <2>2, ScannerRests DEF BglInv, ScannerInv, Caller
  <2>4. ScanCovers'
    BY <1>1, <2>1, <2>2, ScanGoesOn DEF BglInv
  <2> QED
    BY <1>2, <2>3, <2>4 DEF BglInv
<1> QED
  BY <1>3, <1>4, <1>5, <1>6

(* SetBGLScannedBlock: everything up to the block is covered. *)
LEMMA AdvanceStep ==
  ASSUME TypeOK, BglInv, BglAdvance \/ BglAdvanceFails
  PROVE  BglInv'
<1>1. /\ UNCHANGED <<records, indexed, issued, bound, bglHeight, bglBlock, client>>
      /\ bgl' = BglAsleep /\ bgl.pc = "next" /\ bgl.txs = {}
      /\ bglCursor' \in {bglCursor, bgl.last}
      /\ \/ redisErrors' = redisErrors
         \/ redisErrors' = redisErrors + 1
      /\ redisErrors' = redisErrors => bglCursor' = bgl.last
  <2>1. redisErrors \in Nat
    BY SharedAssumption, SMT DEF TypeOK, SharedTypeOK
  <2>2. redisErrors + 1 # redisErrors
    BY <2>1, SMT
  <2> QED
    BY <2>2 DEF BglAdvance, BglAdvanceFails, CommandFails, sharedVars, keptVars, storeVars
<1>2. redisErrors' = 0 => redisErrors = 0 /\ bglCursor' = bgl.last
  <2>1. redisErrors \in Nat
    BY SharedAssumption, SMT DEF TypeOK, SharedTypeOK
  <2> QED
    BY <1>1, <2>1, SMT
<1>3. \A d : Covered(d) => Covered(d)'
  BY <1>1, <1>2, CoveredKept DEF Kept
<1>4. NothingBehindCursor'
  <2>1. ASSUME NEW d \in BGLDeposits, redisErrors' = 0, bglBlock'[d] \in 1 .. bglCursor'
        PROVE  Covered(d)
    <3>1. bglBlock[d] \in 1 .. bgl.last /\ redisErrors = 0
      BY <1>1, <1>2, <2>1
    <3>2. ~ InHand(d)
      BY <1>1 DEF InHand
    <3> QED
      BY <1>1, <3>1, <3>2 DEF BglInv, ScanCovers
  <2> QED
    BY <1>3, <2>1, BehindIsCoveredAfter
<1>5. ScanCovers'
  <2>1. bglCursor' <= bglHeight
    BY <1>1 DEF BglInv, ScanCovers
  <2> QED
    BY <1>1, <2>1, AsleepFacts, ScanEnds DEF BglInv
<1>6. ScannerInv'
  <2>1. Caller' = Idle
    BY <1>1 DEF BglInv, ScannerInv, Caller
  <2> QED
    BY <1>1, <2>1, AsleepFacts, ScannerRests
<1> QED
  BY <1>1, <1>4, <1>5, <1>6, StoreUntouched DEF BglInv

(***************************************************************************)
(* One transaction.                                                        *)
(***************************************************************************)

(* The scanner takes up a deposit, whose block it goes on answering for.   *)
LEMMA TakeFacts ==
  ASSUME TypeOK, BglInv, NEW d \in bgl.txs, NEW pc \in {"dedupe", "store"},
         bgl.pc = "next", BglTake(d, pc), Kept,
         UNCHANGED <<bglHeight, bglBlock, bglCursor>>
  PROVE  /\ bgl'.pc = pc /\ bgl'.tx = d /\ d \in BGLDeposits
         /\ ScanCovers' /\ NothingBehindCursor'
<1>0. bgl \in BglLocals /\ bgl.txs \in SUBSET BGLDeposits
  BY SMT DEF TypeOK, BglTypeOK, BglLocals
<1>1. PICK s : s = bgl.txs \ {d}
  OBVIOUS
<1>2. bgl' = [bgl EXCEPT !.pc = pc, !.txs = s, !.tx = d]
  BY <1>1 DEF BglTake
<1>3. bgl'.pc = pc /\ bgl'.txs = s /\ bgl'.tx = d /\ bgl'.last = bgl.last
  BY <1>0, <1>2, SMT DEF BglLocals
<1>4. ASSUME NEW e \in BGLDeposits
      PROVE  /\ e \in bgl.txs => e \in bgl'.txs \/ InHand(e)'
             /\ ~ InHand(e)
  BY <1>1, <1>3 DEF InHand
<1>5. ScanCovers'
  BY <1>3, <1>4, ScanGoesOn DEF BglInv
<1> QED
  BY <1>0, <1>3, <1>5, BehindKept DEF BglInv

LEMMA KnownStep ==
  ASSUME TypeOK, BglInv, BglKnown
  PROVE  BglInv'
<1>1. PICK d \in bgl.txs \intersect bound :
        /\ BglTake(d, "dedupe")
        /\ Call(BglScan, FindSourceTx(SourceTx[d]))
  BY DEF BglKnown
<1>2. /\ UNCHANGED <<records, indexed, issued, bound, redisErrors,
                     bglHeight, bglBlock, bglCursor>>
      /\ bgl.pc = "next"
  BY DEF BglKnown, keptVars, storeVars
<1>3. Kept
  BY <1>2 DEF Kept
<1>4. /\ bgl'.pc = "dedupe" /\ bgl'.tx = d /\ d \in BGLDeposits
      /\ ScanCovers' /\ NothingBehindCursor'
  BY <1>1, <1>2, <1>3, TakeFacts
<1>5. /\ Caller'.cmd = "sscan" /\ Caller'.op = NoOp
      /\ Caller'.field = "SourceTxHash" /\ Caller'.value = SourceTx[d]
      /\ Caller'.todo = Status /\ Caller'.keys = {}
  <2>1. Caller' = FindSourceTx(SourceTx[d])
    BY <1>1, ScanBGLAssumption DEF Call, Caller, TypeOK, SharedTypeOK
  <2> QED
    BY <1>4, <2>1, FindSourceTxFacts, SharedAssumption
<1>6. Searching(d)'
  <2>1. \A k \in indexed : k[1] \in Status
    BY DEF TypeOK, SharedTypeOK, Keys
  <2> QED
    BY <1>2, <1>5, <2>1 DEF Searching
<1>7. ScannerInv'
  BY <1>1, <1>2, <1>4, <1>5, <1>6 DEF ScannerInv
<1> QED
  BY <1>2, <1>4, <1>7, StoreUntouched DEF BglInv

(* A new operation: nothing on record has its id, or, if it is to be paid, *)
(* its source transaction.                                                 *)
LEMMA CreateStarts ==
  ASSUME TypeOK, KeysAreIssued, NEW d \in BGLDeposits, NEW s \in {"pending", "failed"},
         Create(BglScan, d, s), UNCHANGED <<records, indexed>>,
         s = "pending" => \A k \in indexed : ~ SameHash(k, d)
  PROVE  /\ Storing(d)' /\ Caller'.cmd = "set"
         /\ KeysAreIssued'
<1>1. PICK o \in BridgeOperation :
        /\ o.status = s /\ o.deposit = d
        /\ \A p \in issued : p[1] # o.id
        /\ issued' = issued \union {<<o.id, d>>}
        /\ client' = [client EXCEPT ![BglScan] = UpsertCall(o)]
  BY CreateFacts, SharedAssumption DEF Status
<1>2. Caller' = UpsertCall(o)
  BY <1>1, ScanBGLAssumption DEF Caller, TypeOK, SharedTypeOK
<1>3. Caller'.cmd = "set" /\ Caller'.op = o
  BY <1>2, UpsertCallFacts
<1>4. \A k \in indexed : k[2] # o.id
  BY <1>1 DEF KeysAreIssued
<1>5. \E p \in issued' : p[1] = o.id
  <2>1. <<o.id, d>>[1] = o.id
    OBVIOUS
  <2> QED
    BY <1>1, <2>1
<1>6. \A k : SameHash(k, d)' <=> SameHash(k, d)
  BY DEF SameHash
<1>7. Storing(d)'
  BY <1>1, <1>3, <1>4, <1>5, <1>6 DEF Storing
<1>8. KeysAreIssued'
  BY <1>1 DEF KeysAreIssued
<1> QED
  BY <1>3, <1>7, <1>8

LEMMA UnknownStep ==
  ASSUME TypeOK, BglInv, BglUnknown
  PROVE  BglInv'
<1>1. PICK d \in bgl.txs : BglTake(d, "store") /\ Create(BglScan, d, "failed")
  BY DEF BglUnknown
<1>2. /\ UNCHANGED <<records, indexed, bound, redisErrors, bglHeight, bglBlock, bglCursor>>
      /\ bgl.pc = "next"
  BY DEF BglUnknown, storeVars
<1>3. Kept
  BY <1>2 DEF Kept
<1>4. /\ bgl'.pc = "store" /\ bgl'.tx = d /\ d \in BGLDeposits
      /\ ScanCovers' /\ NothingBehindCursor'
  BY <1>1, <1>2, <1>3, TakeFacts
<1>5. Storing(d)' /\ Caller'.cmd = "set" /\ KeysAreIssued'
  BY <1>1, <1>2, <1>4, CreateStarts DEF BglInv
<1>6. ScannerInv'
  BY <1>4, <1>5 DEF ScannerInv
<1>7. QueuedOnce'
  BY <1>2 DEF BglInv, QueuedOnce, Queued
<1> QED
  BY <1>4, <1>5, <1>6, <1>7 DEF BglInv

LEMMA NewStep ==
  ASSUME TypeOK, BglInv, BglNew
  PROVE  BglInv'
<1>0. bgl \in BglLocals
  BY DEF TypeOK, BglTypeOK, BglLocals
<1>1. PICK d : d = bgl.tx
  OBVIOUS
<1>2. /\ bgl.pc = "dedupe" /\ Caller.cmd \in {"ok", "err"} /\ Caller.cmd # "err"
      /\ Caller.op = NoOp
      /\ bgl' = [bgl EXCEPT !.pc = "store"] /\ Create(BglScan, d, "pending")
      /\ UNCHANGED <<records, indexed, bound, redisErrors, bglHeight, bglBlock, bglCursor>>
  BY <1>1 DEF BglNew, Returned, Failed, Caller, BglAt, storeVars
<1>3. d \in BGLDeposits /\ Searching(d)
  BY <1>1, <1>2 DEF BglInv, ScannerInv
<1>4. \A k \in indexed : ~ SameHash(k, d)
  BY <1>2, <1>3 DEF Searching
<1>5. Storing(d)' /\ Caller'.cmd = "set" /\ KeysAreIssued'
  BY <1>2, <1>3, <1>4, CreateStarts DEF BglInv
<1>6. bgl'.pc = "store" /\ bgl'.tx = d /\ bgl'.txs = bgl.txs /\ bgl'.last = bgl.last
  BY <1>0, <1>1, <1>2, SMT DEF BglLocals
<1>7. ScannerInv'
  BY <1>3, <1>5, <1>6 DEF ScannerInv
<1>8. Kept
  BY <1>2 DEF Kept
<1>9. ScanCovers'
  <2>1. \A e : InHand(e) => InHand(e)'
    BY <1>1, <1>2, <1>6 DEF InHand
  <2> QED
    BY <1>2, <1>6, <1>8, <2>1, ScanGoesOn DEF BglInv
<1>10. NothingBehindCursor' /\ QueuedOnce'
  BY <1>2, <1>8, BehindKept DEF BglInv, QueuedOnce, Queued
<1> QED
  BY <1>5, <1>7, <1>9, <1>10 DEF BglInv

(* An operation on record covers a deposit.                                *)
LEMMA RecordedCovers ==
  ASSUME NEW d \in BGLDeposits, Recorded(d)
  PROVE  Covered(d)
BY DEF Covered, SameTx

(* One with the same hash covers a deposit that has an address record.     *)
LEMMA SameHashCovers ==
  ASSUME KeysAreIssued, NEW d \in BGLDeposits, d \in bound,
         NEW k \in indexed, SameHash(k, d)
  PROVE  Covered(d)
<1>1. records[k].deposit \in SameTx(d) /\ Recorded(records[k].deposit)
  BY DEF SameTx, SameHash, Recorded, KeysAreIssued
<1>2. SameTx(d) = {d} => Recorded(d)
  BY <1>1
<1> QED
  BY <1>1, <1>2 DEF Covered

(* The scanner has its answer and goes on to the next transaction.         *)
LEMMA AnsweredStep ==
  ASSUME TypeOK, BglInv, BglSkip \/ BglStored
  PROVE  BglInv'
<1>0. bgl \in BglLocals
  BY DEF TypeOK, BglTypeOK, BglLocals
<1>1. PICK d : d = bgl.tx
  OBVIOUS
<1>2. /\ UNCHANGED <<records, indexed, issued, bound, redisErrors,
                     bglHeight, bglBlock, bglCursor>>
      /\ Consume(BglScan) /\ bgl.pc \in {"dedupe", "store"}
  BY DEF BglSkip, BglStored, keptVars, storeVars
<1>3. Kept
  BY <1>2 DEF Kept
<1>4. Caller' = Idle
  BY <1>2, ScanBGLAssumption DEF Consume, Call, Caller, TypeOK, SharedTypeOK
<1>5. d \in BGLDeposits
  BY <1>1, <1>2 DEF BglInv, ScannerInv
<1>6. /\ bgl'.pc = "next" /\ bgl'.last = bgl.last
      /\ redisErrors = 0 => bgl'.txs = bgl.txs /\ Covered(d)
  <2>1. redisErrors = 0 => Caller.cmd # "err"
    <3>1. ~ (0 > 0)
      OBVIOUS
    <3> QED
      BY <3>1 DEF BglInv, ScannerInv
  <2>2. CASE BglSkip
    <3>1. bgl' = [bgl EXCEPT !.pc = "next"] /\ bgl.pc = "dedupe"
      BY <2>2 DEF BglSkip, BglAt
    <3>2. bgl'.pc = "next" /\ bgl'.last = bgl.last /\ bgl'.txs = bgl.txs
      BY <1>0, <3>1, SMT DEF BglLocals
    <3>3. ASSUME redisErrors = 0 PROVE Covered(d)
      <4>1. Caller.op # NoOp
        BY <2>1, <2>2, <3>3 DEF BglSkip, Failed, Caller
      <4>2. d \in bound /\ Searching(d)
        BY <1>1, <1>5, <3>1 DEF BglInv, ScannerInv
      <4>3. PICK k \in indexed : SameHash(k, d)
        BY <4>1, <4>2 DEF Searching
      <4> QED
        BY <1>5, <4>2, <4>3, SameHashCovers DEF BglInv
    <3> QED
      BY <3>2, <3>3
  <2>3. CASE BglStored
    <3>1. PICK s : s = IF Failed(BglScan) THEN {} ELSE bgl.txs
      OBVIOUS
    <3>2. bgl' = [bgl EXCEPT !.pc = "next", !.txs = s] /\ bgl.pc = "store"
      BY <2>3, <3>1 DEF BglStored
    <3>3. bgl'.pc = "next" /\ bgl'.last = bgl.last /\ bgl'.txs = s
      BY <1>0, <3>2, SMT DEF BglLocals
    <3>4. ASSUME redisErrors = 0 PROVE s = bgl.txs /\ Covered(d)
      <4>1. ~ Failed(BglScan) /\ Caller.cmd = "ok"
        BY <2>1, <2>3, <3>4 DEF BglStored, Returned, Failed, Caller
      <4>2. Storing(d)
        BY <1>1, <1>5, <3>2 DEF BglInv, ScannerInv
      <4> QED
        BY <1>5, <3>1, <4>1, <4>2, RecordedCovers DEF Storing
    <3> QED
      BY <3>3, <3>4
  <2> QED
    BY <2>2, <2>3
<1>7. ScannerInv'
  BY <1>4, <1>6, ScannerRests
<1>8. ScanCovers'
  <2>1. ASSUME NEW e \in BGLDeposits, redisErrors' = 0
        PROVE  /\ e \in bgl.txs => e \in bgl'.txs
               /\ InHand(e) => Covered(e)'
    <3>1. redisErrors = 0
      BY <1>2, <2>1
    <3>2. Covered(d)'
      BY <1>3, <1>6, <3>1, CoveredKept
    <3> QED
      BY <1>1, <1>6, <3>1, <3>2 DEF InHand
  <2> QED
    BY <1>2, <1>3, <1>6, <2>1, ScanGoesOn DEF BglInv
<1> QED
  BY <1>2, <1>3, <1>7, <1>8, BehindKept, StoreUntouched DEF BglInv

(***************************************************************************)
(* A search: SSCAN and GET.                                                *)
(***************************************************************************)
LEMMA SearchListed ==
  ASSUME TypeOK, NEW d \in BGLDeposits, Searching(d), SScan(BglScan), bound' = bound
  PROVE  Searching(d)' /\ Caller'.cmd # "err"
<1>0. /\ Caller \in Client /\ indexed \subseteq Keys /\ BglScan \in Workers
  BY ScanBGLAssumption DEF TypeOK, SharedTypeOK, Caller
<1>1. PICK s \in Caller.todo : client' = [client EXCEPT ![BglScan] = Listed(Caller, s)]
  BY DEF SScan, Call, Caller
<1>2. Caller.cmd = "sscan" /\ UNCHANGED <<records, indexed>>
  BY DEF SScan, keptVars, storeVars, Caller
<1>3. /\ Caller.op = NoOp /\ Caller.keys = {}
      /\ Caller.field = "SourceTxHash" /\ Caller.value = SourceTx[d]
      /\ \A k \in indexed : SameHash(k, d) => k[1] \in Caller.todo
  BY <1>2 DEF Searching
<1> DEFINE K == {k \in indexed : k[1] = s}
           T == Caller.todo \ {s}
           c == [Caller EXCEPT !.todo = T, !.keys = K]
<1>4. K \in SUBSET Keys /\ K \subseteq indexed /\ T \in SUBSET Status
  BY <1>0, SMT DEF Client
<1>5. \A k \in indexed : SameHash(k, d) => k \in K \/ k[1] \in T
  BY <1>3
<1>6. Caller' = Continue(c)
  BY <1>0, <1>1 DEF Listed, Caller, TypeOK, SharedTypeOK
<1> HIDE DEF K, T
<1>7. /\ c \in Client /\ c.op = NoOp /\ c.todo = T /\ c.keys = K
      /\ c.field = "SourceTxHash" /\ c.value = SourceTx[d]
  <2>1. c \in Client
    BY <1>0, <1>4, Zenon DEF Client
  <2>2. /\ c.op = Caller.op /\ c.todo = T /\ c.keys = K
        /\ c.field = Caller.field /\ c.value = Caller.value
    BY <1>0, SMT DEF Client
  <2> QED
    BY <1>3, <2>1, <2>2
<1> HIDE DEF c
<1>8. /\ Caller'.cmd \in {"get", "sscan", "ok"}
      /\ Caller'.op = NoOp /\ Caller'.todo = T /\ Caller'.keys = K
      /\ Caller'.field = "SourceTxHash" /\ Caller'.value = SourceTx[d]
      /\ Caller'.cmd = "sscan" => K = {}
      /\ Caller'.cmd = "ok" => K = {} /\ T = {}
  BY <1>6, <1>7, ContinuedSearch
<1>9. \A k : SameHash(k, d)' <=> SameHash(k, d)
  BY <1>2 DEF SameHash
<1> QED
  BY <1>2, <1>4, <1>5, <1>8, <1>9 DEF Searching

LEMMA SearchRead ==
  ASSUME TypeOK, KeysAreIssued, NEW d \in BGLDeposits, Searching(d), Get(BglScan)
  PROVE  Searching(d)' /\ Caller'.cmd # "err"
<1>0. /\ Caller \in Client /\ indexed \subseteq Keys /\ BglScan \in Workers
  BY ScanBGLAssumption DEF TypeOK, SharedTypeOK, Caller
<1>1. PICK k \in Caller.keys :
       \/ records[k] = NoOp
       \/ /\ records[k] # NoOp /\ Matches(records[k], Caller)
          /\ Call(BglScan, Found(records[k]))
       \/ /\ ~ Matches(records[k], Caller)
          /\ Call(BglScan, Continue([Caller EXCEPT !.keys = Caller.keys \ {k}]))
  BY DEF Get, Caller
<1>2. Caller.cmd = "get" /\ UNCHANGED <<records, indexed>>
  BY DEF Get, keptVars, storeVars, Caller
<1>3. /\ Caller.op = NoOp /\ Caller.keys \subseteq indexed
      /\ Caller.field = "SourceTxHash" /\ Caller.value = SourceTx[d]
      /\ \A l \in indexed : SameHash(l, d) => l \in Caller.keys \/ l[1] \in Caller.todo
  BY <1>2 DEF Searching
<1>4. \A l : SameHash(l, d)' <=> SameHash(l, d)
  BY <1>2 DEF SameHash
<1>5. k \in indexed /\ records[k] # NoOp /\ records[k] \in BridgeOperation
  BY <1>0, <1>1, <1>3 DEF KeysAreIssued, TypeOK, SharedTypeOK
<1>6. Matches(records[k], Caller) <=> SameHash(k, d)
  <2>1. "SourceTxHash" # "Status" /\ "SourceTxHash" # "DestTxHash"
    OBVIOUS
  <2> QED
    BY <1>3, <2>1 DEF Matches, SameHash
<1>7. CASE Matches(records[k], Caller) /\ Call(BglScan, Found(records[k]))
  <2>1. Caller' = Found(records[k])
    BY <1>0, <1>7 DEF Call, Caller, TypeOK, SharedTypeOK
  <2>2. /\ Caller'.cmd = "ok" /\ Caller'.op = records[k] /\ Caller'.op # NoOp
        /\ Caller'.keys = {} /\ Caller'.todo = {}
    BY <1>5, <2>1, FoundFacts
  <2>3. k \in indexed' /\ records'[k] = Caller'.op /\ SameHash(k, d)'
    BY <1>2, <1>4, <1>5, <1>6, <1>7, <2>2
  <2> QED
    BY <2>2, <2>3 DEF Searching
<1>8. CASE /\ ~ Matches(records[k], Caller)
           /\ Call(BglScan, Continue([Caller EXCEPT !.keys = Caller.keys \ {k}]))
  <2> DEFINE K == Caller.keys \ {k}
             c == [Caller EXCEPT !.keys = K]
  <2>1. Caller' = Continue(c)
    BY <1>0, <1>8 DEF Call, Caller, TypeOK, SharedTypeOK
  <2>2. K \in SUBSET Keys /\ K \subseteq indexed
    BY <1>0, <1>3
  <2>3. \A l \in indexed : SameHash(l, d) => l \in K \/ l[1] \in Caller.todo
    BY <1>3, <1>6, <1>8
  <2> HIDE DEF K
  <2>4. /\ c \in Client /\ c.op = NoOp /\ c.todo = Caller.todo /\ c.keys = K
        /\ c.field = "SourceTxHash" /\ c.value = SourceTx[d]
    <3>1. c \in Client
      BY <1>0, <2>2, SMT DEF Client
    <3>2. /\ c.op = Caller.op /\ c.todo = Caller.todo /\ c.keys = K
          /\ c.field = Caller.field /\ c.value = Caller.value
      BY <1>0, SMT DEF Client
    <3> QED
      BY <1>3, <3>1, <3>2
  <2> HIDE DEF c
  <2>5. /\ Caller'.cmd \in {"get", "sscan", "ok"}
        /\ Caller'.op = NoOp /\ Caller'.todo = Caller.todo /\ Caller'.keys = K
        /\ Caller'.field = "SourceTxHash" /\ Caller'.value = SourceTx[d]
        /\ Caller'.cmd = "sscan" => K = {}
        /\ Caller'.cmd = "ok" => K = {} /\ Caller.todo = {}
    BY <2>1, <2>4, ContinuedSearch
  <2> QED
    BY <1>2, <1>4, <2>2, <2>3, <2>5 DEF Searching
<1> QED
  BY <1>1, <1>5, <1>7, <1>8

(***************************************************************************)
(* A store: SET and SADD.                                                  *)
(***************************************************************************)
NewKey == <<Caller.op.status, Caller.op.id>>

LEMMA EffectKeeps ==
  ASSUME TypeOK, KeysAreIssued, QueuedOnce, NEW d \in BGLDeposits, Storing(d),
         Effect(Caller), UNCHANGED <<issued, bound>>
  PROVE  /\ KeysAreIssued' /\ QueuedOnce'
         /\ \A k \in indexed : k \in indexed' /\ records'[k] = records[k]
         /\ \/ Caller.cmd = "set" /\ records'[NewKey] = Caller.op /\ indexed' = indexed
            \/ Caller.cmd = "sadd" /\ Recorded(d)'
<1>0. /\ Caller \in Client /\ indexed \subseteq Keys /\ BglScan \in Workers
      /\ records \in [Keys -> BridgeOperation \union {NoOp}]
      /\ Caller.cmd \in {"set", "sadd"} => Caller.op # NoOp
  BY ScanBGLAssumption DEF TypeOK, SharedTypeOK, Caller
<1>1. /\ Caller.cmd \in {"set", "sadd"}
      /\ \/ /\ Caller.cmd = "set" /\ indexed' = indexed
            /\ records' = [records EXCEPT ![NewKey] = Caller.op]
         \/ /\ Caller.cmd = "sadd" /\ records' = records
            /\ indexed' = indexed \union {NewKey}
  <2>1. "srem" \notin {"set", "sadd", "ok", "err"} /\ "del" \notin {"set", "sadd", "ok", "err"}
    OBVIOUS
  <2> QED
    BY <2>1 DEF Effect, Storing, NewKey
<1>2. Caller.op \in BridgeOperation /\ Caller.op # NoOp
  BY <1>0, <1>1, SMT DEF Client
<1>3. NewKey \in Keys /\ NewKey[1] = Caller.op.status /\ NewKey[2] = Caller.op.id
  BY <1>2, SMT DEF NewKey, Keys, BridgeOperation
<1>4. /\ Caller.op.deposit = d
      /\ \A k \in indexed : k[2] # Caller.op.id
      /\ \E p \in issued : p[1] = Caller.op.id
      /\ Caller.op.status = "pending" => \A k \in indexed : ~ SameHash(k, d)
      /\ Caller.cmd = "sadd" => records[NewKey] = Caller.op
  BY <1>1 DEF Storing, NewKey
<1>5. NewKey \notin indexed
  BY <1>3, <1>4
<1>6. CASE /\ Caller.cmd = "set" /\ indexed' = indexed
           /\ records' = [records EXCEPT ![NewKey] = Caller.op]
  <2>1. \A k \in indexed : records'[k] = records[k]
    BY <1>0, <1>5, <1>6
  <2>2. KeysAreIssued' /\ QueuedOnce'
    <3>1. KeysAreIssued'
      BY <1>6, <2>1 DEF KeysAreIssued
    <3>2. ASSUME NEW h PROVE Queued(h)' \subseteq Queued(h)
      BY <1>6, <2>1 DEF Queued
    <3>3. QueuedOnce'
      BY <3>2 DEF QueuedOnce
    <3> QED
      BY <3>1, <3>3
  <2>3. records'[NewKey] = Caller.op
    BY <1>0, <1>3, <1>6
  <2> QED
    BY <1>6, <2>1, <2>2, <2>3
<1>7. CASE /\ Caller.cmd = "sadd" /\ records' = records
           /\ indexed' = indexed \union {NewKey}
  <2>1. records'[NewKey] = Caller.op /\ NewKey \in indexed'
    BY <1>4, <1>7
  <2>2. KeysAreIssued'
    BY <1>2, <1>3, <1>4, <1>7, <2>1 DEF KeysAreIssued
  <2>3. QueuedOnce'
    <3> SUFFICES ASSUME NEW h \in {SourceTx[e] : e \in Deposits},
                        NEW k \in Queued(h)', NEW l \in Queued(h)'
                 PROVE  k = l
      BY DEF QueuedOnce
    <3>1. ASSUME NEW m \in Queued(h)', m # NewKey
          PROVE  m \in Queued(h) /\ m \in indexed /\ SourceTx[records[m].deposit] = h
      BY <1>7, <3>1 DEF Queued
    <3>2. ASSUME NewKey \in Queued(h)', NEW m \in Queued(h)', m # NewKey
          PROVE  FALSE
      <4>1. Caller.op.status = "pending" /\ SourceTx[d] = h
        BY <1>3, <1>4, <2>1, <3>2 DEF Queued
      <4>2. m \in indexed /\ SameHash(m, d)
        BY <3>1, <3>2, <4>1 DEF SameHash
      <4> QED
        BY <1>4, <4>1, <4>2
    <3>3. CASE k # NewKey /\ l # NewKey
      BY <3>1, <3>3 DEF QueuedOnce
    <3> QED
      BY <3>2, <3>3
  <2>4. Recorded(d)'
    BY <1>2, <1>4, <2>1 DEF Recorded
  <2> QED
    BY <1>7, <2>2, <2>3, <2>4
<1> QED
  BY <1>1, <1>6, <1>7

(* One Redis command of the scanner.                                       *)
LEMMA CommandStep ==
  ASSUME TypeOK, BglInv, StoreStep(BglScan), UNCHANGED bglVars
  PROVE  BglInv'
<1>0. BglScan \in Workers /\ client \in [Workers -> Client] /\ redisErrors \in Nat
  BY ScanBGLAssumption, SharedAssumption, SMT DEF TypeOK, SharedTypeOK
<1>1. PICK d : d = bgl.tx
  OBVIOUS
<1>2. /\ UNCHANGED <<issued, bound, bgl, bglHeight, bglBlock, bglCursor>>
      /\ Caller.cmd \notin {"ok", "err"}
  <2>1. /\ UNCHANGED <<issued, bound, bgl, bglHeight, bglBlock, bglCursor>>
    BY DEF StoreStep, SScan, Get, Write, RedisFails, keptVars, bglVars
  <2>2. Caller.cmd \in Commands
    BY Zenon DEF StoreStep, SScan, Get, Write, Effect, RedisFails, Commands, Caller
  <2> QED
    BY <2>1, <2>2, SMT DEF Commands
<1>3. /\ bgl.pc \in {"dedupe", "store"} /\ d \in BGLDeposits
      /\ bgl.pc = "dedupe" => d \in bound /\ Searching(d)
      /\ bgl.pc = "store" => Storing(d)
  BY <1>1, <1>2, IdleFacts DEF BglInv, ScannerInv
<1>4. \/ redisErrors' = redisErrors /\ ~ RedisFails(BglScan)
      \/ redisErrors' = redisErrors + 1 /\ RedisFails(BglScan)
  <2>1. redisErrors + 1 # redisErrors
    BY <1>0, SMT
  <2> QED
    BY <2>1 DEF StoreStep, SScan, Get, Write, RedisFails, keptVars
<1>5. redisErrors' = 0 => redisErrors = 0
  BY <1>0, <1>4, SMT
<1>6. ASSUME RedisFails(BglScan)
      PROVE  /\ Caller' = Error /\ redisErrors' > 0
             /\ Effect(Caller) \/ UNCHANGED <<records, indexed>>
  <2>1. redisErrors' > 0
    BY <1>0, <1>6, SMT DEF RedisFails
  <2> QED
    BY <1>0, <1>6, <2>1 DEF RedisFails, Call, Caller, storeVars
(* What the command does to the store.                                     *)
<1>7. /\ KeysAreIssued' /\ QueuedOnce'
      /\ \A k \in indexed : k \in indexed' /\ records'[k] = records[k]
  <2>1. CASE UNCHANGED <<records, indexed>>
    BY <1>2, <2>1, StoreUntouched DEF BglInv
  <2>2. CASE Effect(Caller)
    <3>1. bgl.pc = "store"
      <4>1. Caller.cmd \in {"srem", "del", "set", "sadd"}
        BY <2>2 DEF Effect
      <4>2. Caller.cmd \notin {"sscan", "get", "ok", "err"}
        BY <4>1
      <4> QED
        BY <1>3, <4>2 DEF Searching
    <3> QED
      BY <1>2, <1>3, <2>2, <3>1, EffectKeeps DEF BglInv
  <2>3. Effect(Caller) \/ UNCHANGED <<records, indexed>>
    BY <1>6 DEF StoreStep, SScan, Get, Write, keptVars, storeVars, Caller
  <2> QED
    BY <2>1, <2>2, <2>3
<1>8. Kept
  BY <1>2, <1>5, <1>7 DEF Kept
(* What the scanner knows after it.                                        *)
<1>9. /\ bgl.pc = "dedupe" => Searching(d)'
      /\ bgl.pc = "store" => Storing(d)'
      /\ Caller'.cmd = "err" => redisErrors' > 0
  <2>1. CASE RedisFails(BglScan)
    <3>1. Caller'.cmd = "err" /\ Caller'.op = NoOp /\ Caller'.keys = {}
      BY <1>6, <2>1, ErrorFacts
    <3>2. Searching(d)' /\ Storing(d)'
      BY <3>1 DEF Searching, Storing
    <3> QED
      BY <1>6, <2>1, <3>2
  <2>2. CASE bgl.pc = "dedupe" /\ ~ RedisFails(BglScan)
    <3>1. SScan(BglScan) \/ Get(BglScan)
      <4>1. Caller.cmd \notin {"srem", "del", "set", "sadd"}
        BY <1>3, <2>2 DEF Searching
      <4> QED
        BY <2>2, <4>1 DEF StoreStep, Write, Effect, Caller
    <3>2. Searching(d)' /\ Caller'.cmd # "err"
      BY <1>2, <1>3, <2>2, <3>1, SearchListed, SearchRead DEF BglInv
    <3> QED
      BY <2>2, <3>2
  <2>3. CASE bgl.pc = "store" /\ ~ RedisFails(BglScan)
    <3>1. Write(BglScan) /\ Caller.cmd \in {"set", "sadd"}
      <4>1. Caller.cmd \in {"set", "sadd"}
        BY <1>2, <1>3, <2>3 DEF Storing
      <4> QED
        BY <2>3, <4>1 DEF StoreStep, SScan, Get, Caller
    <3>2. PICK c : c = [Caller EXCEPT !.cmd = Following(Caller.cmd)]
      OBVIOUS
    <3>3. Caller' = c
      BY <1>0, <3>1, <3>2 DEF Write, Call, Caller
    <3>4. c.cmd = Following(Caller.cmd) /\ c.op = Caller.op
      BY <1>0, <3>2, SMT DEF Caller, Client
    <3>5. /\ Caller.cmd = "set" => c.cmd = "sadd"
          /\ Caller.cmd = "sadd" => c.cmd = "ok"
      BY <3>4, SMT DEF Following
    <3>6. Effect(Caller)
      BY <3>1 DEF Write, Caller
    <3>7. CASE /\ Caller.cmd = "set" /\ records'[NewKey] = Caller.op
               /\ indexed' = indexed
      <4>1. Caller'.cmd = "sadd" /\ Caller'.op = Caller.op
        BY <3>3, <3>4, <3>5, <3>7
      <4>2. \A k \in indexed : SameHash(k, d)' <=> SameHash(k, d)
        BY <1>7 DEF SameHash
      <4> QED
        BY <1>2, <1>3, <2>3, <3>1, <3>7, <4>1, <4>2 DEF Storing, NewKey
    <3>8. CASE Caller.cmd = "sadd" /\ Recorded(d)'
      <4>1. Caller'.cmd = "ok"
        BY <3>3, <3>5, <3>8
      <4> QED
        BY <2>3, <3>8, <4>1 DEF Storing
    <3> QED
      BY <1>2, <1>3, <2>3, <3>6, <3>7, <3>8, EffectKeeps DEF BglInv
  <2> QED
    BY <1>3, <2>1, <2>2, <2>3
<1>10. ScannerInv'
  BY <1>1, <1>2, <1>3, <1>9 DEF ScannerInv
<1>11. ScanCovers'
  <2>1. \A e : InHand(e) => InHand(e)'
    BY <1>2 DEF InHand
  <2> QED
    BY <1>2, <1>3, <1>8, <2>1, ScanGoesOn DEF BglInv
<1> QED
  BY <1>2, <1>7, <1>8, <1>10, <1>11, BehindKept DEF BglInv

(***************************************************************************)
(* The inductive invariant.                                                *)
(***************************************************************************)
LEMMA UntouchedStep ==
  ASSUME BglInv, (RaiseShutdown /\ UNCHANGED bglVars) \/ UNCHANGED vars
  PROVE  BglInv'
<1>1. UNCHANGED <<records, indexed, issued, bound, client, redisErrors,
                  bgl, bglHeight, bglBlock, bglCursor>>
  BY DEF RaiseShutdown, vars, sharedVars, keptVars, storeVars, bglVars
<1>2. \A d : Covered(d) <=> Covered(d)'
  BY <1>1 DEF Covered, Recorded, SameTx
<1>3. ScanCovers'
  BY <1>1, <1>2 DEF BglInv, ScanCovers, InHand
<1>4. NothingBehindCursor'
  BY <1>1, <1>2, BehindIsCovered, BehindIsCoveredAfter DEF BglInv
<1> QED
  BY <1>1, <1>3, <1>4, StoreUntouched, ScannerSteady DEF BglInv

LEMMA BglInit0 ==
  Init => TypeOK /\ BglInv
<1> SUFFICES ASSUME Init PROVE TypeOK /\ BglInv
  OBVIOUS
<1>1. SharedTypeOK
  <2>1. /\ client \in [Workers -> Client] /\ \A w \in Workers : client[w].cmd = "ok"
    BY IdleFacts DEF Init, SharedInit
  <2>2. 0 \in 0 .. MaxRedisErrors /\ 0 \in 0 .. MaxRestarts
    BY SharedAssumption, SMT
  <2> QED
    BY <2>1, <2>2, SharedAssumption DEF Init, SharedInit, SharedTypeOK
<1>2. /\ BglTypeOK /\ Confirmations \in Nat /\ 0 <= Confirmations
  BY AsleepFacts, ScanBGLAssumption, SMT DEF Init, BglInit, BglTypeOK, BglLocals
<1>3. KeysAreIssued /\ QueuedOnce
  BY DEF Init, SharedInit, KeysAreIssued, QueuedOnce, Queued
<1>4. ScannerInv
  <2>1. Caller = Idle
    BY ScanBGLAssumption DEF Init, SharedInit, Caller
  <2> QED
    BY <2>1, IdleFacts, AsleepFacts DEF Init, BglInit, ScannerInv
<1>5. ScanCovers /\ NothingBehindCursor
  <2>1. Confirmations >= Confirmations /\ 1 .. 0 = {}
    BY <1>2, SMT
  <2> QED
    BY <1>2, <2>1, AsleepFacts, Zenon DEF Init, BglInit, ScanCovers, NothingBehindCursor
<1> QED
  BY <1>1, <1>2, <1>3, <1>4, <1>5 DEF TypeOK, BglInv

LEMMA BglInvStep ==
  TypeOK /\ BglInv /\ [Next]_vars => TypeOK' /\ BglInv'
<1> SUFFICES ASSUME TypeOK, BglInv, [Next]_vars PROVE TypeOK' /\ BglInv'
  OBVIOUS
<1>1. TypeOK'
  BY BglTypes DEF BglInv
<1> SUFFICES BglInv'
  BY <1>1
<1>2. CASE BglMine
  BY <1>2, MineStep
<1>3. CASE \/ BglWake \/ BglExit \/ BglList \/ BglListFails \/ BglLookupFails
           \/ (SharedReset /\ BglReset)
  BY <1>3, RestingStep
<1>4. CASE BglAdvance \/ BglAdvanceFails
  BY <1>4, AdvanceStep
<1>5. CASE BglKnown
  BY <1>5, KnownStep
<1>6. CASE BglUnknown
  BY <1>6, UnknownStep
<1>7. CASE BglNew
  BY <1>7, NewStep
<1>8. CASE BglSkip \/ BglStored
  BY <1>8, AnsweredStep
<1>9. CASE StoreStep(BglScan) /\ UNCHANGED bglVars
  BY <1>9, CommandStep
<1>10. CASE (RaiseShutdown /\ UNCHANGED bglVars) \/ UNCHANGED vars
  BY <1>10, UntouchedStep
<1> QED
  BY <1>2, <1>3, <1>4, <1>5, <1>6, <1>7, <1>8, <1>9, <1>10 DEF Next, BglStep

(* The scanner's search misses no operation with the hash it looks for,    *)
(* and its scan no confirmed deposit, in every reachable state.            *)
THEOREM ScanHolds == Spec => [](TypeOK /\ BglInv)
BY BglInit0, BglInvStep, PTL DEF Spec

(* The store, the saved block and the scanner's locals keep their types:   *)
(* in particular the block the scanner saves is one of the chain.          *)
THEOREM ScanTypes == Spec => []TypeOK
BY ScanHolds, PTL

(* README.md:8: a deposit up to the saved block is on record, whatever     *)
(* block the process died in, as long as Redis answers.                    *)
THEOREM NoDepositBehindTheCursor == Spec => []NothingBehindCursor
<1>1. TypeOK /\ BglInv => NothingBehindCursor
  BY DEF BglInv
<1> QED
  BY <1>1, ScanHolds, PTL

(* scanBGL.go:44: "never add record if a record present with same source   *)
(* tx hash": while nobody moves operations, of one transaction at most one *)
(* is ever queued, failing commands and restarts included.                 *)
THEOREM NoTransactionQueuedTwice == Spec => []QueuedOnce
<1>1. TypeOK /\ BglInv => QueuedOnce
  BY DEF BglInv
<1> QED
  BY <1>1, ScanHolds, PTL

(* The scanner leaves no key in a set without its record: no search of its *)
(* own is ever ended by one.                                               *)
THEOREM ScanLeavesNoDanglingKey == Spec => []IndexedHaveRecords
<1>1. TypeOK /\ BglInv => IndexedHaveRecords
  BY DEF BglInv, KeysAreIssued, IndexedHaveRecords
<1> QED
  BY <1>1, ScanHolds, PTL

=============================================================================
