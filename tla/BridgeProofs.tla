---------------------------- MODULE BridgeProofs ----------------------------
(***************************************************************************)
(* Proofs about the whole process: TypeOK and the inductive invariant      *)
(* BridgeInv of BridgeInvariants, and from them the safety properties of   *)
(* Bridge, for all workers interleaved, any deposits, and failures, lost   *)
(* answers and restarts at any point; and the account of payments and      *)
(* faults by which the whole process implements PayoutPromise.             *)
(***************************************************************************)
EXTENDS BridgeInvariants, ScanEVMProofs, SharedStateProofs

(***************************************************************************)
(* Types.                                                                  *)
(***************************************************************************)
LEMMA Goroutines ==
  /\ Exec \in Workers /\ BglScan \in Workers /\ EvmScan \in Workers
  /\ Exec # BglScan /\ Exec # EvmScan /\ BglScan # EvmScan
  /\ BGLDeposits \subseteq Deposits /\ NoOp \notin BridgeOperation
  /\ EVMDeposits \subseteq Deposits /\ EVMDeposits \intersect BGLDeposits = {}
BY BridgeAssumption, ExecutorAssumption, ScanBGLAssumption, SharedAssumption, ConstantFacts
   DEF EVMDeposits

(* The state of a goroutine is that of one inside the store. *)
LEMMA ClientType ==
  ASSUME SharedTypeOK, NEW w \in Workers
  PROVE  /\ client[w] \in Client
         /\ client[w].op \in BridgeOperation \union {NoOp}
         /\ client[w].prev \in Status
         /\ client[w].keys \subseteq Keys /\ client[w].todo \subseteq Status
         /\ client[w].cmd \in {"sscan", "get", "srem", "del", "set", "sadd", "ok", "err"}
         /\ client[w].cmd \in {"srem", "del", "set", "sadd"} => client[w].op \in BridgeOperation
<1>1. client[w] \in Client
  BY DEF SharedTypeOK
<1>2. /\ client[w].op \in BridgeOperation \union {NoOp}
      /\ client[w].prev \in Status
      /\ client[w].keys \subseteq Keys /\ client[w].todo \subseteq Status
      /\ client[w].cmd \in {"sscan", "get", "srem", "del", "set", "sadd", "ok", "err"}
  BY <1>1, SMT DEF Client, Commands
<1> QED
  BY <1>1, <1>2 DEF SharedTypeOK

(* An operation stays one when Sent names its payment.                     *)
LEMMA SentFacts ==
  ASSUME NEW o \in BridgeOperation, NEW s \in Status, NEW t \in Nat
  PROVE  /\ Sent(o, t, s) \in BridgeOperation
         /\ Sent(o, t, s).id = o.id /\ Sent(o, t, s).deposit = o.deposit
         /\ Sent(o, t, s).destTx = t /\ Sent(o, t, s).status = s
<1> DEFINE e == [o EXCEPT !.destTx = t]
<1>1. /\ e \in BridgeOperation
      /\ e.id = o.id /\ e.deposit = o.deposit /\ e.destTx = t
  BY SMT DEF BridgeOperation
<1>2. Sent(o, t, s) = [e EXCEPT !.status = s]
  BY SMT DEF Sent, BridgeOperation
<1> HIDE DEF e
<1> QED
  BY <1>1, <1>2, StatusUpdate

(* The payment appended by Accept. *)
LEMMA AcceptFacts ==
  ASSUME SharedTypeOK, ExecutorTypeOK, pc \in PayoutKinds, Accept
  PROVE  \E p \in Payout :
           /\ payouts' = Append(payouts, p)
           /\ p.op = op.id /\ p.deposit = op.deposit
           /\ p.kind = pc /\ p.run = restarts
           /\ payouts' # payouts
<1> DEFINE p == [op |-> op.id, deposit |-> op.deposit, kind |-> pc, run |-> restarts]
<1>1. op \in BridgeOperation /\ restarts \in Nat
  BY SharedAssumption, SMT DEF SharedTypeOK, ExecutorTypeOK, PayoutKinds
<1>2. p \in Payout
  BY <1>1, SMT DEF Payout, BridgeOperation
<1>3. payouts' = Append(payouts, p)
  BY DEF Accept
<1>4. payouts' # payouts
  <2>1. payouts \in Seq(Payout)
    BY DEF ExecutorTypeOK
  <2>2. Len(payouts') = Len(payouts) + 1 /\ Len(payouts) \in Nat
    BY <1>2, <1>3, <2>1, SMT
  <2> QED
    BY <2>2, SMT
<1> QED
  BY <1>2, <1>3, <1>4

(***************************************************************************)
(* The steps of the sending worker outside the store.  Each leaves records *)
(* and sets alone; they differ in what becomes of the operation in hand.   *)
(***************************************************************************)
StoreSame == UNCHANGED <<records, indexed, issued, bound, restarts>>

(* payouts grows by one payment of the operation in hand, or not at all. *)
PaysOnce ==
  \/ payouts' = payouts
  \/ /\ pc \in PayoutKinds
     /\ \E p \in Payout : /\ payouts' = Append(payouts, p)
                          /\ p.op = op.id /\ p.deposit = op.deposit /\ p.kind = pc

(* Nothing is paid, or the answer is lost. *)
Unanswered ==
  \/ UNCHANGED <<payouts, lostAnswers>>
  \/ payouts' # payouts /\ lostAnswers' = lostAnswers + 1

Inside == {"address", "mark", "forward", "return", "sender", "saved"}

Saves(o, next) ==
  /\ StoreSame /\ UNCHANGED workerShutdown
  /\ pc \in {"address", "forward", "return", "sender"}
  /\ o.id = op.id /\ o.deposit = op.deposit
  /\ next \in {"mark", "saved"} /\ Save(o, next)
  /\ redisErrors' \in {redisErrors, redisErrors + 1}
  /\ PaysOnce
  /\ \/ /\ o.status = "executing" /\ next = "mark"
        /\ pc = "address" /\ op.deposit \in BGLDeposits
        /\ o.destTx = op.destTx /\ payouts' = payouts /\ lostAnswers' = lostAnswers
     \/ /\ o.status \in {"failed", "returnfail"} /\ next = "saved"
        /\ Unanswered
     \/ /\ o.status = IF pc = "forward" THEN "executing" ELSE "returning"
        /\ next = "saved" /\ payouts' # payouts /\ lostAnswers' = lostAnswers
        /\ o.destTx = Len(payouts) + 1

GoesOn ==
  /\ StoreSame /\ UNCHANGED <<client, redisErrors, workerShutdown, op>>
  /\ PaysOnce
  /\ Unanswered
  /\ \/ pc = "poll" /\ pc' = "exited" /\ UNCHANGED <<payouts, lostAnswers>>
     \/ /\ pc = "address" /\ pc' = "forward" /\ op.deposit \notin BGLDeposits
        /\ UNCHANGED <<payouts, lostAnswers>>
     \/ {pc, pc'} \subseteq {"forward", "return", "sender"}

(* The worker takes note of how saving the operation ended. *)
TakesNote ==
  /\ StoreSame /\ UNCHANGED <<redisErrors, payouts, lostAnswers>>
  /\ pc \in {"mark", "saved"} /\ Returned(Exec) /\ Consume(Exec)
  /\ workerShutdown' = (workerShutdown \/ Failed(Exec))
  /\ \/ pc = "mark" /\ pc' = "forward" /\ op' = op
     \/ pc = "saved" /\ pc' = "poll" /\ op' = NoOp

LEMMA ExecutorShapes ==
  ASSUME SharedTypeOK, ExecutorTypeOK, ExecutorStep
  PROVE  \/ StoreStep(Exec) /\ UNCHANGED executorVars
         \/ Poll
         \/ Fetch
         \/ TakesNote
         \/ GoesOn
         \/ \E o \in BridgeOperation : \E next : Saves(o, next)
<1> USE SharedAssumption, ExecutorAssumption
<1>0. pc \in Inside => op \in BridgeOperation
  BY SMT DEF ExecutorTypeOK, Inside
<1>1. ASSUME pc \in {"address", "forward", "return", "sender"},
             NEW s \in Status
      PROVE  /\ [op EXCEPT !.status = s] \in BridgeOperation
             /\ [op EXCEPT !.status = s].status = s
             /\ [op EXCEPT !.status = s].id = op.id
             /\ [op EXCEPT !.status = s].deposit = op.deposit
             /\ [op EXCEPT !.status = s].destTx = op.destTx
  BY <1>0, <1>1, StatusUpdate DEF Inside
<1>2. {"failed", "executing", "returning", "returnfail"} \subseteq Status
  BY DEF Status
<1>3. CASE Unroutable
  <2> DEFINE o == [op EXCEPT !.status = "failed"]
  <2>1. /\ o \in BridgeOperation /\ o.status = "failed"
        /\ o.id = op.id /\ o.deposit = op.deposit
    BY <1>1, <1>2, <1>3 DEF Unroutable
  <2>2. Save(o, "saved")
    BY <1>3 DEF Unroutable
  <2> HIDE DEF o
  <2>3. Saves(o, "saved")
    BY <1>3, <2>1, <2>2, Zenon DEF Unroutable, Saves, StoreSame, PaysOnce, Unanswered, CommandFails, storeVars, flags
  <2> QED
    BY <2>1, <2>3
<1>4. CASE MarkExecuting
  <2> DEFINE o == [op EXCEPT !.status = "executing"]
  <2>1. /\ o \in BridgeOperation /\ o.status = "executing" /\ o.destTx = op.destTx
        /\ o.id = op.id /\ o.deposit = op.deposit
    BY <1>1, <1>2, <1>4 DEF MarkExecuting
  <2>2. Save(o, "mark")
    BY <1>4 DEF MarkExecuting
  <2> HIDE DEF o
  <2>3. Saves(o, "mark")
    BY <1>4, <2>1, <2>2
       DEF MarkExecuting, Saves, StoreSame, PaysOnce, Unanswered, keptVars, storeVars, flags
  <2> QED
    BY <2>1, <2>3
<1>5. CASE Paid
  <2>1. PICK s : s = IF pc = "forward" THEN "executing" ELSE "returning"
    OBVIOUS
  <2>2. PICK t : t = Len(payouts) + 1
    OBVIOUS
  <2>3. s \in Status /\ t \in Nat /\ pc \in {"forward", "return"}
    BY <1>2, <1>5, <2>1, <2>2, SMT DEF ExecutorTypeOK, Paid, Paying, PayoutKinds
  <2>4. PICK o : o = Sent(op, t, s)
    OBVIOUS
  <2>5. /\ o \in BridgeOperation /\ o.id = op.id /\ o.deposit = op.deposit
        /\ o.destTx = t /\ o.status = s
    BY <1>0, <2>3, <2>4, SentFacts DEF Inside
  <2>6. Save(o, "saved")
    BY <1>5, <2>1, <2>2, <2>4 DEF Paid
  <2>7. PaysOnce /\ payouts' # payouts
    <3>1. PICK p \in Payout :
            /\ payouts' = Append(payouts, p)
            /\ p.op = op.id /\ p.deposit = op.deposit /\ p.kind = pc
            /\ payouts' # payouts
      BY <1>5, <2>3, AcceptFacts DEF Paid, PayoutKinds
    <3> QED
      BY <2>3, <3>1 DEF PaysOnce, PayoutKinds
  <2>8. Saves(o, "saved")
    BY <1>5, <2>1, <2>2, <2>3, <2>5, <2>6, <2>7
       DEF Paid, Saves, StoreSame, keptVars, storeVars, flags
  <2> QED
    BY <2>5, <2>8
<1>6. ASSUME Paying, AttemptFailed, UNCHANGED <<keptVars, flags>>, PaysOnce,
             Unanswered
      PROVE  GoesOn \/ \E o \in BridgeOperation : \E next : Saves(o, next)
  <2>1. pc \in {"forward", "return"}
    BY <1>6 DEF Paying, PayoutKinds
  <2>2. CASE Save([op EXCEPT !.status = "returnfail"], "saved")
    <3> DEFINE o == [op EXCEPT !.status = "returnfail"]
    <3>1. /\ o \in BridgeOperation /\ o.status = "returnfail"
          /\ o.id = op.id /\ o.deposit = op.deposit
      BY <1>1, <1>2, <2>1
    <3>2. Save(o, "saved")
      BY <2>2
    <3> HIDE DEF o
    <3>3. Saves(o, "saved")
      BY <1>6, <2>1, <3>1, <3>2, Zenon
         DEF Saves, StoreSame, keptVars, storeVars, flags
    <3> QED
      BY <3>1, <3>3
  <2>3. CASE pc' \in {pc, "sender", "return"} /\ UNCHANGED <<op, client>>
    BY <1>6, <2>1, <2>3 DEF GoesOn, StoreSame, keptVars, storeVars, flags
  <2> QED
    BY <1>6, <2>2, <2>3, Zenon DEF AttemptFailed, GiveUp
<1>7. CASE Refused
  BY <1>6, <1>7 DEF Refused, PaysOnce, Unanswered
<1>8. CASE AnswerLost
  <2>1. PaysOnce /\ payouts' # payouts
    BY <1>8, AcceptFacts DEF AnswerLost, PaysOnce, Paying
  <2> QED
    BY <1>6, <1>8, <2>1 DEF AnswerLost, Unanswered
<1>9. CASE SenderUnknown
  <2> DEFINE o == [op EXCEPT !.status = "returnfail"]
  <2>1. /\ o \in BridgeOperation /\ o.status = "returnfail"
        /\ o.id = op.id /\ o.deposit = op.deposit
    BY <1>1, <1>2, <1>9 DEF SenderUnknown
  <2>2. Save(o, "saved")
    BY <1>9 DEF SenderUnknown
  <2> HIDE DEF o
  <2>3. Saves(o, "saved")
    BY <1>9, <2>1, <2>2
       DEF SenderUnknown, Saves, StoreSame, PaysOnce, Unanswered, keptVars, storeVars, flags
  <2> QED
    BY <2>1, <2>3
<1>10. CASE Stop \/ StartPayingBGL \/ SenderFound
  BY <1>10 DEF Stop, StartPayingBGL, SenderFound, GoesOn, StoreSame, PaysOnce, Unanswered,
               sharedVars, keptVars, storeVars, flags
<1>11. CASE Marked \/ Saved
  BY <1>11 DEF Marked, Saved, TakesNote, StoreSame, keptVars, storeVars
<1> QED
  BY <1>3, <1>4, <1>5, <1>7, <1>8, <1>9, <1>10, <1>11 DEF ExecutorStep

(* The worker's own variables. *)
LEMMA ExecutorTypes ==
  ASSUME SharedTypeOK, ExecutorTypeOK, ExecutorStep
  PROVE  SharedTypeOK' /\ ExecutorTypeOK'
<1> USE SharedAssumption, ExecutorAssumption
<1>0. /\ pc \in Inside => op \in BridgeOperation
      /\ tries \in Nat /\ 0 \in 0 .. EvmRetries - 1
  BY SMT DEF ExecutorTypeOK, Inside
<1>1. tries' \in 0 .. EvmRetries - 1
  BY <1>0, SMT
     DEF ExecutorTypeOK, ExecutorStep, Poll, Stop, Fetch, Unroutable, MarkExecuting,
         StartPayingBGL, Marked, Paid, Refused, AnswerLost, SenderFound, SenderUnknown,
         Saved, AttemptFailed, GiveUp, executorVars
<1>2. lostAnswers' \in 0 .. MaxLostAnswers
  BY SMT
     DEF ExecutorTypeOK, ExecutorStep, Poll, Stop, Fetch, Unroutable, MarkExecuting,
         StartPayingBGL, Marked, Paid, Refused, AnswerLost, SenderFound, SenderUnknown,
         Saved, executorVars
<1>3. redisErrors' \in 0 .. MaxRedisErrors /\ workerShutdown' \in BOOLEAN
  <2>1. CASE StoreStep(Exec) /\ UNCHANGED executorVars
    BY <2>1, SScanType, GetType, WriteType, RedisFailsType DEF StoreStep, SharedTypeOK
  <2>2. CASE Unroutable
    BY <2>2, SMT DEF Unroutable, CommandFails, SharedTypeOK, flags
  <2>3. CASE ~ Unroutable /\ ~ (StoreStep(Exec) /\ UNCHANGED executorVars)
    <3>1. redisErrors' = redisErrors
      BY <2>3
         DEF ExecutorStep, Poll, Stop, Fetch, MarkExecuting,
             StartPayingBGL, Marked, Paid, Refused, AnswerLost, SenderFound, SenderUnknown,
             Saved, sharedVars, keptVars
    <3>2. workerShutdown' = workerShutdown \/ workerShutdown' = (workerShutdown \/ Failed(Exec))
      BY <2>3
         DEF ExecutorStep, Poll, Stop, Fetch, MarkExecuting,
             StartPayingBGL, Marked, Paid, Refused, AnswerLost, SenderFound, SenderUnknown,
             Saved, sharedVars, flags
    <3> QED
      BY <3>1, <3>2 DEF SharedTypeOK
  <2> QED
    BY <2>1, <2>2, <2>3
<1>4. payouts \in Seq(Payout) /\ lostAnswers \in Nat
  BY SMT DEF ExecutorTypeOK
<1>5. PaysOnce => payouts' \in Seq(Payout)
  BY <1>4, SMT DEF PaysOnce
<1>6. CASE StoreStep(Exec) /\ UNCHANGED executorVars
  <2>1. SharedTypeOK'
    BY <1>6, SScanType, GetType, WriteType, RedisFailsType DEF StoreStep
  <2> QED
    BY <1>6, <2>1 DEF ExecutorTypeOK, executorVars
<1>7. CASE Poll
  <2>1. FindPending \in Client /\ FindPending.cmd = "sscan"
    BY FindPendingFacts
  <2>2. SharedTypeOK'
    BY <1>7, <2>1, CallType DEF Poll, Call, keptVars, storeVars, SharedTypeOK
  <2> QED
    BY <1>7, <2>2 DEF Poll, ExecutorTypeOK
<1>8. CASE Fetch
  <2>1. SharedTypeOK'
    BY <1>8, ConsumeType DEF Fetch
  <2>2. client[Exec].op \in BridgeOperation \union {NoOp}
    BY ClientType
  <2> QED
    BY <1>8, <2>1, <2>2 DEF Fetch, ExecutorTypeOK
<1>9. CASE TakesNote
  <2>1. client' = [client EXCEPT ![Exec] = Idle] /\ Idle \in Client /\ Idle.cmd = "ok"
    BY <1>9, IdleFacts DEF TakesNote, Consume, Call
  <2>2. SharedTypeOK'
    <3>1. client' \in [Workers -> Client]
      BY <2>1 DEF SharedTypeOK
    <3>2. \A w \in Workers : client'[w].cmd \in {"srem", "del", "set", "sadd"} => client'[w].op # NoOp
      BY <2>1 DEF SharedTypeOK
    <3>3. UNCHANGED <<records, indexed, issued, bound, restarts>>
      BY <1>9 DEF TakesNote, StoreSame
    <3> QED
      BY <1>3, <3>1, <3>2, <3>3, Zenon DEF SharedTypeOK
  <2>3. /\ pc' \in {"forward", "poll"} /\ op' \in BridgeOperation \union {NoOp}
        /\ pc' \notin {"poll", "fetch", "exited"} => op' # NoOp
    BY <1>9 DEF TakesNote, ExecutorTypeOK
  <2>4. payouts' \in Seq(Payout)
    BY <1>4, <1>9 DEF TakesNote
  <2> QED
    BY <1>1, <1>2, <2>2, <2>3, <2>4 DEF ExecutorTypeOK, PayoutKinds
<1>10. CASE GoesOn
  <2>1. SharedTypeOK'
    BY <1>10, Zenon DEF GoesOn, StoreSame, SharedTypeOK
  <2>2. pc' \in {"exited", "forward", "return", "sender"} /\ op' \in BridgeOperation \union {NoOp}
    BY <1>10 DEF GoesOn, ExecutorTypeOK
  <2>3. pc' \notin {"poll", "fetch", "exited"} => op' # NoOp
    BY <1>0, <1>10 DEF GoesOn, Inside
  <2>4. payouts' \in Seq(Payout)
    BY <1>5, <1>10 DEF GoesOn
  <2> QED
    BY <1>1, <1>2, <2>1, <2>2, <2>3, <2>4 DEF ExecutorTypeOK, PayoutKinds
<1>11. ASSUME NEW o \in BridgeOperation, NEW next, Saves(o, next)
       PROVE  SharedTypeOK' /\ ExecutorTypeOK'
  <2>1. /\ ChangeCall(o, "pending") \in Client
        /\ ChangeCall(o, "pending").op = o
    BY ChangeCallFacts DEF Status
  <2>2. SharedTypeOK'
    <3>1. client' = [client EXCEPT ![Exec] = ChangeCall(o, "pending")]
      BY <1>11 DEF Saves, Save, Call
    <3>2. UNCHANGED <<records, indexed, issued, bound, flags>>
      BY <1>11 DEF Saves, StoreSame, flags
    <3> QED
      BY <1>3, <2>1, <3>1, <3>2, CallType DEF SharedTypeOK
  <2>3. op' = o /\ pc' \in {"mark", "saved"}
    BY <1>11 DEF Saves, Save
  <2>4. payouts' \in Seq(Payout)
    BY <1>5, <1>11 DEF Saves
  <2> QED
    BY <1>1, <1>2, <2>2, <2>3, <2>4 DEF ExecutorTypeOK, PayoutKinds
<1> QED
  BY <1>6, <1>7, <1>8, <1>9, <1>10, <1>11, ExecutorShapes

(* The locals of the BGL scanner. *)
BglLocals ==
  [pc : {"sleep", "list", "next", "dedupe", "store", "exited"},
   since : Nat, last : Nat, txs : SUBSET BGLDeposits, tx : BGLDeposits \union {0}]

LEMMA BglLocalsAre ==
  ASSUME BglTypeOK
  PROVE  /\ bgl \in BglLocals /\ bgl.since \in Nat /\ bgl.last \in Nat
         /\ bgl.txs \subseteq BGLDeposits
         /\ bglHeight \in Nat /\ bglCursor \in Nat /\ bglBlock \in [BGLDeposits -> Nat]
<1>1. bgl \in BglLocals
  BY DEF BglTypeOK, BglLocals
<1>2. bgl.since \in Nat /\ bgl.last \in Nat /\ bgl.txs \subseteq BGLDeposits
  BY <1>1, SMT DEF BglLocals
<1> QED
  BY <1>1, <1>2 DEF BglTypeOK

LEMMA BglAsleepFacts ==
  BglAsleep \in BglLocals /\ BglAsleep.pc = "sleep"
BY SMT DEF BglAsleep, BglLocals

(* The BGL scanner goes on with well typed locals. *)
LEMMA BglLocalsStep ==
  ASSUME BglTypeOK, Confirmations <= bglHeight, BglStep
  PROVE  /\ bgl' \in BglLocals /\ UNCHANGED <<bglHeight, bglBlock>>
         /\ bglCursor' \in {bglCursor, bgl.last}
<1>0. bgl \in BglLocals /\ bglHeight \in Nat /\ bgl.txs \subseteq BGLDeposits /\ bglCursor \in Nat
  BY BglLocalsAre
<1>1. UNCHANGED <<bglHeight, bglBlock>> /\ bglCursor' \in {bglCursor, bgl.last}
  BY Zenon
     DEF BglStep, BglWake, BglExit, BglList, BglListFails, BglKnown, BglUnknown,
         BglLookupFails, BglNew, BglSkip, BglStored, BglAdvance, BglAdvanceFails, bglVars
<1> SUFFICES bgl' \in BglLocals
  BY <1>1
<1>2. CASE BglWake
  BY <1>0, <1>2, Zenon DEF BglWake, BglLocals
<1>3. CASE BglExit \/ BglNew \/ BglSkip
  <2>1. PICK next \in {"exited", "store", "next"} : bgl' = [bgl EXCEPT !.pc = next]
    BY <1>3 DEF BglExit, BglNew, BglSkip, BglAt
  <2> QED
    BY <1>0, <2>1, SMT DEF BglLocals
<1>4. CASE BglList
  <2>1. LastBlock \in Nat
    BY <1>0, ScanBGLAssumption, SMT DEF LastBlock
  <2>2. {d \in SinceBlock(bgl.since) : BglConfirmed(d)} \in SUBSET BGLDeposits
    BY DEF SinceBlock
  <2>3. PICK S \in SUBSET BGLDeposits, n \in Nat :
          bgl' = [bgl EXCEPT !.pc = "next", !.last = n, !.txs = S]
    BY <1>4, <2>1, <2>2 DEF BglList
  <2> QED
    BY <1>0, <2>3, Zenon DEF BglLocals
<1>5. CASE BglKnown \/ BglUnknown \/ BglLookupFails
  <2>1. PICK d \in bgl.txs, next \in {"dedupe", "store", "next"} :
          bgl' = [bgl EXCEPT !.pc = next, !.txs = bgl.txs \ {d}, !.tx = d]
    BY <1>5 DEF BglKnown, BglUnknown, BglLookupFails, BglTake
  <2>2. PICK S : S = bgl.txs \ {d}
    OBVIOUS
  <2>3. S \in SUBSET BGLDeposits /\ d \in BGLDeposits
    BY <1>0, <2>2
  <2>4. bgl' = [bgl EXCEPT !.pc = next, !.txs = S, !.tx = d]
    BY <2>1, <2>2
  <2> QED
    BY <1>0, <2>3, <2>4, Zenon DEF BglLocals
<1>6. CASE BglStored
  <2>1. PICK S \in SUBSET BGLDeposits : bgl' = [bgl EXCEPT !.pc = "next", !.txs = S]
    BY <1>0, <1>6 DEF BglStored
  <2> QED
    BY <1>0, <2>1, Zenon DEF BglLocals
<1>7. CASE BglListFails \/ BglAdvance \/ BglAdvanceFails
  BY <1>7, BglAsleepFacts DEF BglListFails, BglAdvance, BglAdvanceFails
<1>8. CASE UNCHANGED bglVars
  BY <1>0, <1>8 DEF bglVars
<1> QED
  BY <1>2, <1>3, <1>4, <1>5, <1>6, <1>7, <1>8 DEF BglStep

LEMMA BglTypes ==
  ASSUME SharedTypeOK, BglTypeOK, BglAgrees, Confirmations <= bglHeight, BglStep
  PROVE  SharedTypeOK' /\ BglTypeOK'
<1>1. BglTypeOK'
  BY BglLocalsStep, BglLocalsAre, Zenon DEF BglTypeOK, BglLocals
<1> SUFFICES SharedTypeOK'
  BY <1>1
<1>0. /\ BGLDeposits \subseteq Deposits /\ {"pending", "failed"} \subseteq Status
      /\ BglScan \in Workers /\ bgl.txs \subseteq Deposits
  BY Goroutines, BglLocalsAre DEF Status
<1>2. CASE UNCHANGED sharedVars
  BY <1>2 DEF sharedVars, keptVars, storeVars, flags, SharedTypeOK
<1>3. CASE BglKnown
  <2>1. PICK d \in bgl.txs : Call(BglScan, FindSourceTx(SourceTx[d]))
    BY <1>3 DEF BglKnown
  <2>2. FindSourceTx(SourceTx[d]) \in Client /\ FindSourceTx(SourceTx[d]).cmd = "sscan"
    BY <1>0, FindSourceTxFacts
  <2> QED
    BY <1>0, <1>3, <2>1, <2>2, CallType
       DEF BglKnown, Call, keptVars, storeVars, SharedTypeOK
<1>4. CASE BglUnknown
  <2>1. PICK d \in bgl.txs : Create(BglScan, d, "failed")
    BY <1>4 DEF BglUnknown
  <2>2. d \in Deposits
    BY <1>0
  <2> QED
    BY <1>0, <1>4, <2>1, <2>2, CreateType DEF BglUnknown
<1>5. CASE BglNew
  <2>1. bgl.tx \in Deposits
    BY <1>0, <1>5 DEF BglAgrees, BglNew
  <2> QED
    BY <1>0, <1>5, <2>1, CreateType DEF BglNew
<1>6. CASE BglLookupFails \/ BglAdvanceFails
  BY <1>6, CommandFailsType DEF BglLookupFails, BglAdvanceFails
<1>7. CASE BglSkip \/ BglStored
  BY <1>0, <1>7, ConsumeType DEF BglSkip, BglStored
<1>8. CASE StoreStep(BglScan)
  BY <1>0, <1>8, SScanType, GetType, WriteType, RedisFailsType DEF StoreStep
<1> QED
  BY <1>2, <1>3, <1>4, <1>5, <1>6, <1>7, <1>8, Zenon
     DEF BglStep, BglWake, BglExit, BglList, BglListFails, BglAdvance

(* What the EVM scanner writes when it has found a payment's operation. *)
LEMMA SettleFacts ==
  ASSUME SharedTypeOK, EvmSettle
  PROVE  LET found == client[EvmScan].op
         IN  /\ found \in BridgeOperation
             /\ found.status \in {"executing", "returning"}
             /\ \E o \in BridgeOperation :
                  /\ o.id = found.id /\ o.deposit = found.deposit
                  /\ o.destTx = found.destTx
                  /\ \/ found.status = "executing" /\ o.status = "success"
                     \/ found.status = "returning" /\ o.status = "returnsuccess"
                  /\ client' = [client EXCEPT ![EvmScan] = ChangeCall(o, found.status)]
<1>1. PICK found : found = client[EvmScan].op
  OBVIOUS
<1>2. found \in BridgeOperation
  BY <1>1, Goroutines, ClientType DEF EvmSettle
<1>3. found.status \in {"executing", "returning"}
  BY <1>1 DEF EvmSettle, Unsettled
<1>4. PICK s : s = Settled(found.status)
  OBVIOUS
<1>5. \/ found.status = "executing" /\ s = "success"
      \/ found.status = "returning" /\ s = "returnsuccess"
  BY <1>3, <1>4 DEF Settled
<1>6. s \in Status
  BY <1>5 DEF Status
<1>7. PICK o : o = [found EXCEPT !.status = s]
  OBVIOUS
<1>8. /\ o \in BridgeOperation /\ o.status = s
      /\ o.id = found.id /\ o.deposit = found.deposit /\ o.destTx = found.destTx
  BY <1>2, <1>6, <1>7, StatusUpdate
<1>9. client' = [client EXCEPT ![EvmScan] = ChangeCall(o, found.status)]
  BY <1>1, <1>4, <1>7 DEF EvmSettle, Call
<1> QED
  BY <1>1, <1>2, <1>3, <1>5, <1>8, <1>9

LEMMA EvmTypes ==
  ASSUME SharedTypeOK, EvmTypeOK, ScanBounds, EvmAgrees, EvmStep
  PROVE  SharedTypeOK' /\ EvmTypeOK'
<1>1. EvmTypeOK'
  <2>1. evm.to \in Nat
    BY LocalsAre
  <2>2. evmCursor' \in {evmCursor, evm.to}
    BY Zenon
       DEF EvmStep, EvmWake, EvmExit, EvmLatest, EvmFilter, EvmCallFails, EvmIncoming,
           EvmNew, EvmOutgoing, EvmSettle, EvmBreak, EvmSkip, EvmStored, EvmAdvance,
           EvmAdvanceFails, EvmDone, evmVars
  <2>3. evmHeight \in Nat /\ evmLogs \in Seq(Log) /\ evmCursor \in Nat \union {NoCursor}
    BY DEF EvmTypeOK
  <2>4. evm' \in EvmLocals /\ UNCHANGED <<evmHeight, evmLogs>>
    BY LocalsStep
  <2>5. evmHeight' \in Nat /\ evmLogs' \in Seq(Log)
    BY <2>3, <2>4
  <2>6. evmCursor' \in Nat \union {NoCursor}
    BY <2>1, <2>2, <2>3
  <2> QED
    BY <2>4, <2>5, <2>6, Zenon DEF EvmTypeOK, EvmLocals
<1> SUFFICES SharedTypeOK'
  BY <1>1
<1>0. /\ EvmScan \in Workers /\ EVMDeposits \subseteq Deposits
      /\ {"pending", "executing", "returning"} \subseteq Status
  BY Goroutines DEF Status
<1>2. CASE UNCHANGED sharedVars
  BY <1>2 DEF sharedVars, keptVars, storeVars, flags, SharedTypeOK
<1>3. CASE EvmIncoming
  <2>1. Transfer \in Deposits
    BY <1>0, <1>3 DEF EvmIncoming
  <2>2. FindSourceTx(SourceTx[Transfer]) \in Client
        /\ FindSourceTx(SourceTx[Transfer]).cmd = "sscan"
    BY <2>1, FindSourceTxFacts
  <2> QED
    BY <1>0, <1>3, <2>2, CallType DEF EvmIncoming, Call, keptVars, storeVars, SharedTypeOK
<1>4. CASE EvmOutgoing
  <2>1. Transfer \in Nat
    BY <1>4, HeadFacts DEF EvmOutgoing
  <2>2. FindDestTx(Transfer) \in Client /\ FindDestTx(Transfer).cmd = "sscan"
    BY <2>1, FindDestTxFacts
  <2> QED
    BY <1>0, <1>4, <2>2, CallType DEF EvmOutgoing, Call, keptVars, storeVars, SharedTypeOK
<1>5. CASE EvmNew
  <2>1. Transfer \in Deposits
    BY <1>0, <1>5 DEF EvmAgrees, EvmNew
  <2> QED
    BY <1>0, <1>5, <2>1, CreateType DEF EvmNew
<1>6. CASE EvmSettle
  <2>1. PICK found : found = client[EvmScan].op
    OBVIOUS
  <2>2. PICK o \in BridgeOperation :
          client' = [client EXCEPT ![EvmScan] = ChangeCall(o, found.status)]
    BY <1>6, <2>1, SettleFacts
  <2>3. found.status \in Status
    BY <1>0, <1>6, <2>1, SettleFacts
  <2>4. PICK c \in Client : c = ChangeCall(o, found.status) /\ c.op = o
    BY <2>3, ChangeCallFacts
  <2>5. o # NoOp
    BY SharedAssumption
  <2>6. client' = [client EXCEPT ![EvmScan] = c]
    BY <2>2, <2>4
  <2>7. UNCHANGED <<keptVars, flags>>
    BY <1>6 DEF EvmSettle
  <2> QED
    BY <1>0, <2>4, <2>5, <2>6, <2>7, CallType DEF keptVars, storeVars, SharedTypeOK
<1>7. CASE EvmSkip \/ EvmBreak \/ EvmStored
  BY <1>0, <1>7, ConsumeType DEF EvmSkip, EvmBreak, EvmStored
<1>8. CASE EvmAdvanceFails
  BY <1>8, CommandFailsType DEF EvmAdvanceFails, EvmDone
<1>9. CASE EvmAdvance
  BY <1>9 DEF EvmAdvance, EvmDone, storeVars, flags, SharedTypeOK
<1>10. CASE StoreStep(EvmScan)
  BY <1>0, <1>10, SScanType, GetType, WriteType, RedisFailsType DEF StoreStep
<1> QED
  BY <1>2, <1>3, <1>4, <1>5, <1>6, <1>7, <1>8, <1>9, <1>10, Zenon
     DEF EvmStep, EvmWake, EvmExit, EvmLatest, EvmFilter, EvmCallFails

(* Transfers that a block may bring. *)
LEMMA NewTransfers ==
  ASSUME ExecutorTypeOK
  PROVE  {t \in EVMDeposits \union EvmPayouts : ~ Mined(t)} \in SUBSET Transfers
<1>1. payouts \in Seq(Payout)
  BY DEF ExecutorTypeOK
<1>2. DOMAIN payouts = 1 .. Len(payouts) /\ Len(payouts) \in Nat
  BY <1>1, LenProperties
<1>3. EvmPayouts \subseteq Nat \ {0}
  BY <1>2, SMT DEF EvmPayouts
<1> QED
  BY <1>3 DEF Transfers

LEMMA BridgeTypes ==
  ASSUME TypeOK, ScanBounds, Confirmations <= bglHeight, BglAgrees, EvmAgrees, [Next]_vars
  PROVE  TypeOK'
<1> USE DEF TypeOK
<1>1. CASE ExecutorStep /\ UNCHANGED <<bglVars, evmVars>>
  BY <1>1, ExecutorTypes DEF bglVars, evmVars, BglTypeOK, EvmTypeOK
<1>2. CASE BglStep /\ UNCHANGED <<executorVars, evmVars>>
  BY <1>2, BglTypes DEF executorVars, evmVars, ExecutorTypeOK, EvmTypeOK
<1>3. CASE EvmStep /\ UNCHANGED <<executorVars, bglVars>>
  BY <1>3, EvmTypes DEF executorVars, bglVars, ExecutorTypeOK, BglTypeOK
<1>4. CASE BglMine /\ UNCHANGED <<executorVars, evmVars>>
  <2>1. bglHeight' \in Nat /\ bglBlock' \in [BGLDeposits -> Nat]
    <3>1. bglHeight + 1 \in Nat /\ bglBlock \in [BGLDeposits -> Nat]
      BY BglLocalsAre, SMT
    <3> QED
      BY <1>4, <3>1 DEF BglMine
  <2>2. BglTypeOK'
    BY <1>4, <2>1 DEF BglMine, BglTypeOK
  <2>3. SharedTypeOK'
    BY <1>4 DEF BglMine, sharedVars, keptVars, storeVars, flags, SharedTypeOK
  <2> QED
    BY <1>4, <2>2, <2>3 DEF executorVars, evmVars, ExecutorTypeOK, EvmTypeOK
<1>5. CASE EvmMine({t \in EVMDeposits \union EvmPayouts : ~ Mined(t)})
           /\ UNCHANGED <<executorVars, bglVars>>
  <2>1. PICK new : new = {t \in EVMDeposits \union EvmPayouts : ~ Mined(t)}
    OBVIOUS
  <2>2. new \in SUBSET Transfers /\ EvmMine(new)
    BY <1>5, <2>1, NewTransfers
  <2>3. evmHeight' \in Nat /\ evmLogs' \in Seq(Log) /\ UNCHANGED <<sharedVars, evmCursor, evm>>
    BY <2>2, MineFacts
  <2>4. SharedTypeOK' /\ EvmTypeOK'
    BY <2>3 DEF sharedVars, keptVars, storeVars, flags, SharedTypeOK, EvmTypeOK
  <2> QED
    BY <1>5, <2>4 DEF executorVars, bglVars, ExecutorTypeOK, BglTypeOK
<1>6. CASE SharedReset /\ ExecutorReset /\ BglReset /\ EvmReset
  <2>1. SharedTypeOK'
    BY <1>6, ResetType
  <2>2. ExecutorTypeOK'
    BY <1>6, ExecutorAssumption, SMT DEF ExecutorReset, ExecutorTypeOK
  <2>3. BglTypeOK'
    BY <1>6, BglAsleepFacts DEF BglReset, BglTypeOK, BglLocals
  <2>4. EvmTypeOK'
    BY <1>6, AsleepFacts DEF EvmReset, evmChain, EvmTypeOK, EvmLocals
  <2> QED
    BY <2>1, <2>2, <2>3, <2>4
<1>7. CASE UNCHANGED vars
  BY <1>7 DEF vars, sharedVars, keptVars, storeVars, flags, executorVars, bglVars, evmVars,
              SharedTypeOK, ExecutorTypeOK, BglTypeOK, EvmTypeOK
<1> QED
  BY <1>1, <1>2, <1>3, <1>4, <1>5, <1>6, <1>7 DEF Next

LEMMA InitTypes == Init => TypeOK
<1> SUFFICES ASSUME Init PROVE TypeOK
  OBVIOUS
<1>1. SharedTypeOK
  <2>1. client = [w \in Workers |-> Idle] /\ \A w \in Workers : client[w] = Idle
    BY DEF Init, SharedInit
  <2>2. client \in [Workers -> Client]
    BY <2>1, IdleFacts
  <2>3. \A w \in Workers : client[w].cmd = "ok"
    BY <2>1, IdleFacts
  <2>4. records \in [Keys -> BridgeOperation \union {NoOp}]
    BY DEF Init, SharedInit
  <2>5. bound \subseteq Deposits /\ indexed \subseteq Keys /\ issued \subseteq OpIds \X Deposits
    BY SharedAssumption DEF Init, SharedInit
  <2>6. redisErrors \in 0 .. MaxRedisErrors /\ restarts \in 0 .. MaxRestarts
    BY SharedAssumption, SMT DEF Init, SharedInit
  <2>7. workerShutdown \in BOOLEAN
    BY DEF Init, SharedInit
  <2> QED
    BY <2>2, <2>3, <2>4, <2>5, <2>6, <2>7 DEF SharedTypeOK
<1>2. ExecutorTypeOK
  BY ExecutorAssumption, SMT DEF Init, ExecutorInit, ExecutorTypeOK
<1>3. BglTypeOK
  BY BglAsleepFacts, ScanBGLAssumption DEF Init, BglInit, BglTypeOK, BglLocals
<1>4. EvmTypeOK
  <2>1. <<>> \in Seq(Log) /\ FirstHeight \in Nat
    BY EmptySeq, ConstantFacts, SMT
  <2> QED
    BY <2>1, AsleepFacts DEF Init, EvmTypeOK, EvmLocals
<1> QED
  BY <1>1, <1>2, <1>3, <1>4 DEF TypeOK

(***************************************************************************)
(* The blocks of a scan.                                                   *)
(***************************************************************************)
LEMMA EvmScanBounds ==
  ASSUME EvmTypeOK, ScanBounds, EvmStep
  PROVE  ScanBounds'
<1>0. /\ evmHeight \in Nat /\ evmCursor \in Nat \union {NoCursor}
      /\ evm \in EvmLocals /\ evm.from \in Int /\ evm.to \in Nat /\ evm.latest \in Nat
      /\ SafetyWindow \in Nat /\ SafetyWindow >= 1 /\ BlockBatch \in Nat
      /\ SafetyWindow <= BlockBatch
  BY LocalsAre, ConstantFacts DEF EvmTypeOK
<1>1. evmHeight' = evmHeight
  BY LocalsStep
<1>2. FirstHeight' <= evmHeight'
  BY <1>1 DEF ScanBounds, FirstHeight
<1>3. ASSUME NEW f \in Int, NEW latest \in Nat, f >= 1,
             SafetyWindow <= latest, latest <= evmHeight, evm' = Batch(f, latest),
             evmCursor' # NoCursor => evmCursor' \in SafetyWindow .. evmHeight
      PROVE  ScanBounds'
  <2>1. PICK e : e = Batch(f, latest)
    OBVIOUS
  <2>2. /\ e.pc \in {"sleep", "filter"}
        /\ e.pc = "filter" =>
             /\ e.from = f /\ e.latest = latest
             /\ f <= e.to /\ e.to <= latest /\ e.to <= f + BlockBatch - 1
             /\ e.to = latest \/ e.to = f + BlockBatch - 1
    BY <1>3, <2>1, BatchFacts
  <2>3. evm' = e
    BY <1>3, <2>1
  <2>4. Scanning' => BatchBounds'
    BY <1>1, <1>3, <2>2, <2>3 DEF Scanning, AtLog, BatchBounds
  <2> QED
    BY <1>1, <1>2, <1>3, <2>2, <2>3, <2>4 DEF ScanBounds, AtLog
<1>4. ASSUME evmCursor' = evmCursor, evm'.pc # "latest", AtLog' => evm'.logs # <<>>,
             evm'.from = evm.from, evm'.to = evm.to, evm'.latest = evm.latest,
             Scanning' => Scanning
      PROVE  ScanBounds'
  <2>1. Scanning' => BatchBounds'
    BY <1>1, <1>4 DEF ScanBounds, BatchBounds
  <2> QED
    BY <1>1, <1>2, <1>4, <2>1 DEF ScanBounds
<1>5. ASSUME NEW next \in {"exited", "dedupe", "settle", "store", "next"}, NEW s \in Seq(Log),
             evm' = [evm EXCEPT !.pc = next, !.logs = s]
      PROVE  /\ evm'.pc = next /\ evm'.logs = s
             /\ evm'.from = evm.from /\ evm'.to = evm.to /\ evm'.latest = evm.latest
  BY <1>0, <1>5, SMT DEF EvmLocals
<1>6. ASSUME NEW next \in {"exited", "dedupe", "settle", "store"}, evm' = [evm EXCEPT !.pc = next]
      PROVE  /\ evm'.pc = next /\ evm'.logs = evm.logs
             /\ evm'.from = evm.from /\ evm'.to = evm.to /\ evm'.latest = evm.latest
  BY <1>0, <1>6, SMT DEF EvmLocals
<1>7. CASE EvmWake
  <2>1. evm'.pc = "latest" /\ evm'.from = evmCursor
    BY <1>0, <1>7, SMT DEF EvmWake, EvmLocals
  <2>2. ~ Scanning' /\ ~ AtLog' /\ evmCursor' = evmCursor
    BY <1>7, <2>1 DEF EvmWake, Scanning, AtLog
  <2> QED
    BY <1>1, <1>2, <2>1, <2>2 DEF ScanBounds
<1>8. CASE EvmExit
  <2>1. evm'.pc = "exited" /\ evmCursor' = evmCursor
    BY <1>6, <1>8 DEF EvmExit, EvmAt
  <2>2. ~ Scanning' /\ ~ AtLog'
    BY <2>1 DEF Scanning, AtLog
  <2> QED
    BY <1>1, <1>2, <2>1, <2>2 DEF ScanBounds
<1>9. CASE EvmLatest
  <2>1. PICK latest \in Nat, f \in Int :
          /\ SafetyWindow <= latest /\ latest <= evmHeight /\ f >= 1 /\ evm' = Batch(f, latest)
    BY <1>9, LatestFacts
  <2>2. evmCursor' # NoCursor => evmCursor' \in SafetyWindow .. evmHeight
    BY <1>9 DEF EvmLatest, ScanBounds
  <2> QED
    BY <1>3, <2>1, <2>2
<1>10. CASE EvmFilter
  <2>1. PICK s \in Seq(Log) : evm' = [evm EXCEPT !.pc = "next", !.logs = s]
    BY <1>10, FilterFacts
  <2>2. evm'.pc = "next" /\ evm'.from = evm.from /\ evm'.to = evm.to /\ evm'.latest = evm.latest
    BY <1>5, <2>1
  <2> QED
    BY <1>4, <1>10, <2>2 DEF EvmFilter, Scanning, AtLog
<1>11. CASE EvmCallFails
  <2>1. evm'.pc = "sleep" /\ evmCursor' = evmCursor
    BY <1>11, AsleepFacts DEF EvmCallFails
  <2>2. ~ Scanning' /\ ~ AtLog'
    BY <2>1 DEF Scanning, AtLog
  <2> QED
    BY <1>1, <1>2, <2>1, <2>2 DEF ScanBounds
<1>12. CASE EvmIncoming \/ EvmOutgoing \/ EvmNew \/ EvmSettle
  <2>1. PICK next \in {"dedupe", "settle", "store"} : evm' = [evm EXCEPT !.pc = next]
    BY <1>12 DEF EvmIncoming, EvmOutgoing, EvmNew, EvmSettle, EvmAt
  <2>2. /\ evm'.pc = next /\ evm'.logs = evm.logs
        /\ evm'.from = evm.from /\ evm'.to = evm.to /\ evm'.latest = evm.latest
    BY <1>6, <2>1
  <2>3. evm.logs # <<>> /\ evmCursor' = evmCursor /\ Scanning
    BY <1>12 DEF EvmIncoming, EvmOutgoing, EvmNew, EvmSettle, ScanBounds, AtLog, Scanning
  <2> QED
    BY <1>4, <2>2, <2>3
<1>13. CASE EvmBreak \/ EvmSkip \/ EvmStored
  <2>1. evm.logs # <<>> /\ evmCursor' = evmCursor /\ Scanning
    BY <1>13 DEF ScanBounds, AtLog, EvmBreak, EvmSkip, EvmStored, Scanning
  <2>2. Tail(evm.logs) \in Seq(Log) /\ <<>> \in Seq(Log)
    BY <2>1, TailFacts, EmptySeq
  <2>3. PICK s \in Seq(Log) : evm' = [evm EXCEPT !.pc = "next", !.logs = s]
    BY <1>13, <2>2 DEF EvmBreak, EvmSkip, EvmStored, NextLog, BreakOut
  <2>4. /\ evm'.pc = "next"
        /\ evm'.from = evm.from /\ evm'.to = evm.to /\ evm'.latest = evm.latest
    BY <1>5, <2>3
  <2> QED
    BY <1>4, <2>1, <2>4 DEF AtLog
<1>14. CASE EvmAdvance \/ EvmAdvanceFails
  <2>1. /\ evm' = Batch(evm.from + BlockBatch, evm.latest) /\ evm.pc = "next"
        /\ evmCursor' \in {evm.to, evmCursor}
    BY <1>14 DEF EvmAdvance, EvmAdvanceFails, EvmDone
  <2>2. BatchBounds
    BY <2>1 DEF ScanBounds, Scanning
  <2>3. evm.from + BlockBatch \in Int /\ evm.from + BlockBatch >= 1
    BY <1>0, <2>2, SMT DEF BatchBounds
  <2>4. SafetyWindow <= evm.to /\ evm.to <= evmHeight
    BY <1>0, <2>2, SMT DEF BatchBounds
  <2>5. evmCursor' # NoCursor => evmCursor' \in SafetyWindow .. evmHeight
    BY <1>0, <2>1, <2>4 DEF ScanBounds
  <2> QED
    BY <1>0, <1>3, <2>1, <2>2, <2>3, <2>5 DEF BatchBounds
<1>15. CASE UNCHANGED evmVars
  BY <1>1, <1>2, <1>15 DEF evmVars, ScanBounds, Scanning, AtLog, BatchBounds
<1> QED
  BY <1>7, <1>8, <1>9, <1>10, <1>11, <1>12, <1>13, <1>14, <1>15 DEF EvmStep

LEMMA BoundsStep ==
  ASSUME TypeOK, ScanBounds, Confirmations <= bglHeight, [Next]_vars
  PROVE  ScanBounds' /\ Confirmations <= bglHeight'
<1> USE DEF TypeOK
<1>1. ASSUME UNCHANGED evmVars PROVE ScanBounds'
  BY <1>1 DEF evmVars, ScanBounds, Scanning, AtLog, BatchBounds, FirstHeight
<1>2. ASSUME BglStep PROVE Confirmations <= bglHeight'
  BY <1>2, BglLocalsStep
<1>3. CASE ExecutorStep /\ UNCHANGED <<bglVars, evmVars>>
  BY <1>1, <1>3 DEF bglVars
<1>4. CASE BglStep /\ UNCHANGED <<executorVars, evmVars>>
  BY <1>1, <1>2, <1>4
<1>5. CASE EvmStep /\ UNCHANGED <<executorVars, bglVars>>
  BY <1>5, EvmScanBounds DEF bglVars
<1>6. CASE BglMine /\ UNCHANGED <<executorVars, evmVars>>
  <2>1. Confirmations <= bglHeight'
    BY <1>6, BglLocalsAre, ScanBGLAssumption, SMT DEF BglMine
  <2> QED
    BY <1>1, <1>6, <2>1
<1>7. CASE EvmMine({t \in EVMDeposits \union EvmPayouts : ~ Mined(t)})
           /\ UNCHANGED <<executorVars, bglVars>>
  <2>1. /\ evmHeight' = evmHeight + 1 /\ evmHeight \in Nat
        /\ evmCursor' = evmCursor /\ evm' = evm
    BY <1>7 DEF EvmMine, EvmTypeOK
  <2>2. evmCursor \in Nat \union {NoCursor} /\ evm.latest \in Nat
        /\ SafetyWindow \in Nat /\ FirstHeight = SafetyWindow + Lag /\ Lag \in Nat
    BY LocalsAre, ConstantFacts DEF EvmTypeOK
  <2>3. FirstHeight' = FirstHeight
    BY DEF FirstHeight
  <2>4. evmCursor' # NoCursor => evmCursor' \in SafetyWindow .. evmHeight'
    BY <2>1, <2>2, SMT DEF ScanBounds
  <2>5. FirstHeight' <= evmHeight'
    BY <2>1, <2>2, <2>3, SMT DEF ScanBounds
  <2>6. Scanning' => BatchBounds'
    <3>1. Scanning' => Scanning
      BY <2>1 DEF Scanning, AtLog
    <3>2. evm.latest <= evmHeight => evm.latest <= evmHeight'
      BY <2>1, <2>2, SMT
    <3> QED
      BY <2>1, <3>1, <3>2 DEF ScanBounds, BatchBounds
  <2> QED
    BY <1>7, <2>1, <2>4, <2>5, <2>6 DEF ScanBounds, AtLog, bglVars
<1>8. CASE SharedReset /\ ExecutorReset /\ BglReset /\ EvmReset
  <2>1. evm' = EvmAsleep /\ UNCHANGED <<evmHeight, evmCursor, bglHeight>>
    BY <1>8 DEF EvmReset, evmChain, BglReset
  <2>2. ~ Scanning' /\ ~ AtLog' /\ evm'.pc # "latest"
    BY <2>1, AsleepFacts DEF Scanning, AtLog
  <2> QED
    BY <2>1, <2>2 DEF ScanBounds, FirstHeight
<1>9. CASE UNCHANGED vars
  BY <1>1, <1>9 DEF vars, bglVars
<1> QED
  BY <1>3, <1>4, <1>5, <1>6, <1>7, <1>8, <1>9 DEF Next

(***************************************************************************)
(* Copies of operations.  A step copies an operation that is there, or it  *)
(* brings a new one, whose truth is shown where it is made.                *)
(***************************************************************************)
OldCopy(o) ==
  \/ o = NoOp \/ o = op
  \/ \E k \in Keys : o = records[k]
  \/ \E w \in Workers : o = client[w].op

GoodCopy(o) == o # NoOp => Truthful(o) /\ <<o.id, o.deposit>> \in issued

(* What is true of an operation stays true. *)
Grows ==
  /\ issued \subseteq issued'
  /\ \A i \in DOMAIN payouts : i \in DOMAIN payouts' /\ payouts'[i] = payouts[i]
  /\ \A t : Mined(t) => Mined(t)'

LEMMA TruthfulStays ==
  ASSUME Grows, NEW o, Truthful(o)
  PROVE  Truthful(o)'
BY Zenon DEF Grows, Truthful, NamesPayout

LEMMA OldCopiesAreGood ==
  ASSUME Traced, CopiesTruthful, Grows, NEW o, OldCopy(o)
  PROVE  GoodCopy(o) /\ GoodCopy(o)'
<1>1. GoodCopy(o)
  BY DEF OldCopy, GoodCopy, Traced, IsIssued, CopiesTruthful
<1>2. GoodCopy(o)'
  BY <1>1, TruthfulStays DEF GoodCopy, Grows
<1> QED
  BY <1>1, <1>2

(* The only copies are old ones and good ones. *)
OnlyGoodCopies ==
  /\ \A k \in Keys : OldCopy(records'[k])
  /\ \A o : o = op' => OldCopy(o) \/ GoodCopy(o)'
  /\ \A w \in Workers : \A o : o = client'[w].op => OldCopy(o) \/ GoodCopy(o)'

(* Keys that a step reads or writes belong to operations created before.   *)
OnlyOldKeys ==
  /\ \A k \in indexed' :
       k \in indexed \/ \E w \in Workers : client[w].op # NoOp /\ k[2] = client[w].op.id
  /\ \A w \in Workers : \A k \in client'[w].keys : k \in indexed \union client[w].keys

LEMMA TracedStep ==
  ASSUME Traced, CopiesTruthful, Grows, OnlyGoodCopies, OnlyOldKeys,
         \A p, q \in issued' : p[1] = q[1] => p = q,
         \A i \in DOMAIN payouts' :
           \/ i \in DOMAIN payouts /\ payouts'[i] = payouts[i]
           \/ op # NoOp /\ payouts'[i].op = op.id /\ payouts'[i].deposit = op.deposit
  PROVE  Traced' /\ CopiesTruthful'
<1>1. ASSUME NEW o, OldCopy(o) \/ GoodCopy(o)'
      PROVE  GoodCopy(o)'
  BY <1>1, OldCopiesAreGood
<1>2. ASSUME NEW k \in Keys PROVE IsIssued(records[k])' /\ (records[k] # NoOp => Truthful(records[k]))'
  <2>1. PICK o : o = records'[k]
    OBVIOUS
  <2>2. GoodCopy(o)'
    BY <1>1, <2>1 DEF OnlyGoodCopies
  <2> QED
    BY <2>1, <2>2 DEF GoodCopy, IsIssued, Truthful, NamesPayout
<1>3. IsIssued(op)' /\ (op # NoOp => Truthful(op))'
  <2>1. PICK o : o = op'
    OBVIOUS
  <2>2. GoodCopy(o)'
    BY <1>1, <2>1 DEF OnlyGoodCopies
  <2> QED
    BY <2>1, <2>2 DEF GoodCopy, IsIssued, Truthful, NamesPayout
<1>4. ASSUME NEW w \in Workers
      PROVE  IsIssued(client[w].op)' /\ (client[w].op # NoOp => Truthful(client[w].op))'
  <2>1. PICK o : o = client'[w].op
    OBVIOUS
  <2>2. GoodCopy(o)'
    BY <1>1, <2>1 DEF OnlyGoodCopies
  <2> QED
    BY <2>1, <2>2 DEF GoodCopy, IsIssued, Truthful, NamesPayout
<1>5. IssuedIds \subseteq IssuedIds'
  BY DEF Grows, IssuedIds
<1>6. ASSUME NEW k \in indexed' PROVE k[2] \in IssuedIds'
  <2>1. CASE k \in indexed
    BY <1>5, <2>1 DEF Traced
  <2>2. ASSUME NEW w \in Workers, client[w].op # NoOp, k[2] = client[w].op.id
        PROVE  k[2] \in IssuedIds'
    <3>1. PICK p \in issued : p = <<k[2], client[w].op.deposit>>
      BY <2>2 DEF Traced, IsIssued
    <3>2. p[1] = k[2]
      BY <3>1
    <3>3. p[1] \in IssuedIds
      BY DEF IssuedIds
    <3> QED
      BY <1>5, <3>2, <3>3
  <2> QED
    BY <2>1, <2>2 DEF OnlyOldKeys
<1>7. \A w \in Workers : \A k \in client'[w].keys : k[2] \in IssuedIds'
  BY <1>5 DEF OnlyOldKeys, Traced
<1>8. \A i \in DOMAIN payouts' : <<payouts'[i].op, payouts'[i].deposit>> \in issued'
  BY DEF Grows, Traced, IsIssued
<1> QED
  BY <1>2, <1>3, <1>4, <1>6, <1>7, <1>8 DEF Traced, CopiesTruthful

(* Nothing is paid, mined or created. *)
LEMMA GrowsSteady ==
  ASSUME UNCHANGED <<issued, payouts, evmLogs>>
  PROVE  Grows
BY DEF Grows, Mined

(***************************************************************************)
(* Workers that do not move.                                               *)
(***************************************************************************)
LEMMA ExecSteady ==
  ASSUME ExecutorAgrees, FetchedArePending, client'[Exec] = client[Exec],
         UNCHANGED <<pc, op, workerShutdown>>
  PROVE  ExecutorAgrees' /\ FetchedArePending'
BY DEF ExecutorAgrees, FetchedArePending, Writing

LEMMA BglSteady ==
  ASSUME BglAgrees, client'[BglScan] = client[BglScan], bgl' = bgl
  PROVE  BglAgrees'
BY DEF BglAgrees, Writing

LEMMA EvmSteady ==
  ASSUME EvmAgrees, client'[EvmScan] = client[EvmScan], evm' = evm
  PROVE  EvmAgrees'
BY DEF EvmAgrees, Writing, Settlement, AtLog, Transfer

(* What of BridgeInv holds whatever fails. *)
Always == CopiesInv /\ NewAreUntouched /\ Moved

(* A goroutine that reads is in one of its searches. *)
LEMMA Readers ==
  ASSUME TypeOK, CopiesInv
  PROVE  /\ client[Exec].cmd \in {"sscan", "get"} => pc = "fetch"
         /\ client[BglScan].cmd \in {"sscan", "get"} => bgl.pc = "dedupe"
         /\ client[EvmScan].cmd \in {"sscan", "get"} => evm.pc \in {"dedupe", "settle"}
<1>1. client[Exec].cmd \in {"sscan", "get"} => pc = "fetch"
  BY IdleFacts DEF CopiesInv, ExecutorAgrees, Writing, TypeOK, ExecutorTypeOK, PayoutKinds
<1>2. client[BglScan].cmd \in {"sscan", "get"} => bgl.pc = "dedupe"
  BY IdleFacts DEF CopiesInv, BglAgrees
<1>3. client[EvmScan].cmd \in {"sscan", "get"} => evm.pc \in {"dedupe", "settle"}
  BY IdleFacts DEF CopiesInv, EvmAgrees, AtLog
<1> QED
  BY <1>1, <1>2, <1>3

(* A goroutine that writes is saving an operation. *)
LEMMA Writers ==
  ASSUME TypeOK, CopiesInv
  PROVE  /\ Writing(client[Exec]) =>
              /\ pc \in {"mark", "saved"} /\ client[Exec].op = op /\ op \in BridgeOperation
              /\ client[Exec].prev = "pending" /\ client[Exec].keys = {}
              /\ op.status # "pending"
         /\ Writing(client[BglScan]) =>
              /\ bgl.pc = "store" /\ client[BglScan].cmd \in {"set", "sadd"}
              /\ client[BglScan].op \in BridgeOperation
              /\ client[BglScan].op.status \in {"pending", "failed"}
         /\ Writing(client[EvmScan]) =>
              /\ evm.pc = "store" /\ client[EvmScan].op \in BridgeOperation
              /\ \/ Settlement(client[EvmScan])
                 \/ /\ client[EvmScan].cmd \in {"set", "sadd"}
                    /\ client[EvmScan].prev = "pending"
                    /\ client[EvmScan].op.status = "pending"
<1>0. \A w \in {Exec, BglScan, EvmScan} :
        Writing(client[w]) => client[w].op \in BridgeOperation /\ client[w].op # NoOp
  BY Goroutines, ClientType DEF TypeOK, Writing
<1>1. Writing(client[Exec]) =>
        /\ pc \in {"mark", "saved"} /\ client[Exec].op = op
        /\ client[Exec].prev = "pending" /\ client[Exec].keys = {}
        /\ op.status # "pending"
  BY IdleFacts DEF CopiesInv, ExecutorAgrees, Writing, TypeOK, ExecutorTypeOK, PayoutKinds
<1>2. Writing(client[BglScan]) =>
        /\ bgl.pc = "store" /\ client[BglScan].cmd \in {"set", "sadd"}
        /\ client[BglScan].op.status \in {"pending", "failed"}
  BY IdleFacts DEF CopiesInv, BglAgrees, Writing, SearchReturns
<1>3. Writing(client[EvmScan]) =>
        /\ evm.pc = "store"
        /\ \/ Settlement(client[EvmScan])
           \/ /\ client[EvmScan].cmd \in {"set", "sadd"}
              /\ client[EvmScan].prev = "pending"
              /\ client[EvmScan].op.status = "pending"
  BY IdleFacts DEF CopiesInv, EvmAgrees, AtLog, Writing, SearchReturns
<1> QED
  BY <1>0, <1>1, <1>2, <1>3

(***************************************************************************)
(* A command of a search.                                                  *)
(***************************************************************************)
LEMMA ReadAlways ==
  ASSUME TypeOK, Always, NEW w \in {Exec, BglScan, EvmScan}, SScan(w) \/ Get(w),
         UNCHANGED <<executorVars, bglVars, evmVars>>
  PROVE  Always'
<1> USE Goroutines DEF Always, CopiesInv
<1>0. SharedTypeOK /\ w \in Workers
  BY DEF TypeOK
<1> DEFINE b == client[w]
<1>1. /\ b.cmd \in {"sscan", "get"}
      /\ UNCHANGED <<records, indexed, issued, workerShutdown,
                     pc, op, payouts, bgl, evm, evmLogs>>
  BY <1>0, ReadStep, Zenon DEF executorVars, bglVars, evmVars
<1>2. PICK c \in Client :
        /\ client' = [client EXCEPT ![w] = c]
        /\ c.cmd \in {"sscan", "get", "ok", "err"}
        /\ c.todo \subseteq b.todo
        /\ \A k \in c.keys : k \in b.keys \/ (k \in indexed /\ k[1] \in b.todo)
        /\ c.cmd \in {"sscan", "get"} => c.field = b.field /\ c.value = b.value
        /\ \/ c.op = b.op \/ c.op = NoOp
           \/ \E k \in b.keys : records[k] # NoOp /\ c.op = records[k] /\ Matches(records[k], b)
  BY <1>0, ReadStep
<1>3. client'[w] = c /\ \A v \in Workers : v # w => client'[v] = client[v]
  BY <1>0, <1>2 DEF SharedTypeOK
<1>4. b.keys \subseteq Keys
  BY <1>0, ClientType
<1>5. Filed'
  BY <1>1 DEF Filed
<1>6. Traced' /\ CopiesTruthful'
  <2>1. Grows
    BY <1>1, GrowsSteady
  <2>2. OnlyGoodCopies
    BY <1>1, <1>2, <1>3, <1>4 DEF OnlyGoodCopies, OldCopy
  <2>3. OnlyOldKeys
    BY <1>1, <1>2, <1>3 DEF OnlyOldKeys
  <2> QED
    BY <1>1, <2>1, <2>2, <2>3, TracedStep DEF Traced
<1>7. ExecutorAgrees' /\ FetchedArePending'
  <2>1. CASE w # Exec
    BY <1>1, <1>3, <2>1, ExecSteady
  <2>2. CASE w = Exec
    <3>1. pc = "fetch"
      BY <1>1, <2>2, Readers
    <3>2. /\ b.todo \subseteq {"pending"} /\ \A k \in b.keys : k[1] = "pending"
          /\ ~ workerShutdown /\ op = NoOp
      BY <2>2, <3>1 DEF ExecutorAgrees
    <3>3. \A k \in c.keys : k[1] = "pending"
      BY <1>2, <3>2
    <3>4. c.op # NoOp => c.op.status = "pending"
      BY <1>2, <1>4, <2>2, <3>1, <3>2 DEF Filed, FetchedArePending
    <3>5. client'[Exec] = c /\ pc' = "fetch" /\ op' = NoOp /\ ~ workerShutdown'
      BY <1>1, <1>3, <2>2, <3>1, <3>2
    <3> QED
      BY <1>2, <3>2, <3>3, <3>4, <3>5 DEF ExecutorAgrees, FetchedArePending
  <2> QED
    BY <2>1, <2>2
<1>8. BglAgrees'
  <2>1. CASE w # BglScan
    BY <1>1, <1>3, <2>1, BglSteady
  <2>2. CASE w = BglScan
    BY <1>1, <1>2, <1>3, <2>2, Readers DEF BglAgrees, SearchReturns
  <2> QED
    BY <2>1, <2>2
<1>9. EvmAgrees'
  <2>1. CASE w # EvmScan
    BY <1>1, <1>3, <2>1, EvmSteady
  <2>2. CASE w = EvmScan
    <3>1. evm.pc \in {"dedupe", "settle"} /\ evm' = evm /\ client'[EvmScan] = c
      BY <1>1, <1>3, <2>2, Readers
    <3>2. Transfer' = Transfer
      BY <3>1 DEF Transfer
    <3>3. evm.pc = "settle" /\ c.op # NoOp => c.op.destTx = Transfer
      BY <1>1, <1>2, <2>2 DEF EvmAgrees, Matches
    <3> QED
      BY <1>1, <1>2, <2>2, <3>1, <3>2, <3>3 DEF EvmAgrees, SearchReturns, AtLog
  <2> QED
    BY <2>1, <2>2
<1>10. LogsAreMined'
  BY <1>1 DEF LogsAreMined, Mined
<1>11. NewAreUntouched'
  <2> SUFFICES ASSUME NEW v \in Scanners, Creating(v)'
               PROVE  Untouched(v, client[v].op.id)'
    BY DEF NewAreUntouched
  <2>1. v # w
    BY <1>2, <1>3 DEF Creating
  <2>2. v \in Workers /\ client'[v] = client[v]
    BY <1>3, <2>1 DEF Scanners
  <2>3. PICK id : id = client[v].op.id
    OBVIOUS
  <2>4. Untouched(v, id)
    BY <2>2, <2>3 DEF Creating, NewAreUntouched
  <2>5. \A k \in c.keys : k[2] # id
    BY <1>2, <1>0, <2>4 DEF Untouched
  <2>6. c.op # NoOp => c.op.id # id
    BY <1>0, <1>2, <1>4, <2>1, <2>4 DEF Untouched, Filed
  <2>7. Untouched(v, id)'
    BY <1>1, <1>3, <2>4, <2>5, <2>6 DEF Untouched
  <2> QED
    BY <2>2, <2>3, <2>7 DEF Untouched
<1>12. Moved'
  <2>1. CASE w # Exec
    BY <1>1, <1>3, <2>1 DEF Moved
  <2>2. CASE w = Exec
    BY <1>1, <2>2, Readers DEF Moved
  <2> QED
    BY <2>1, <2>2
<1> QED
  BY <1>5, <1>6, <1>7, <1>8, <1>9, <1>10, <1>11, <1>12

(***************************************************************************)
(* A command of a write, or a command that fails.                          *)
(***************************************************************************)

(* The write commands, one by one; c is where the goroutine is afterwards. *)
Writes(b, c) ==
  /\ c.op = b.op /\ c.prev = b.prev /\ c.keys = b.keys
  /\ \/ /\ b.cmd = "srem" /\ c.cmd = "del"
        /\ indexed' = indexed \ {<<b.prev, b.op.id>>} /\ records' = records
     \/ /\ b.cmd = "del" /\ c.cmd = "set" /\ indexed' = indexed
        /\ records' = [records EXCEPT ![<<b.prev, b.op.id>>] = NoOp]
     \/ /\ b.cmd = "set" /\ c.cmd = "sadd" /\ indexed' = indexed
        /\ records' = [records EXCEPT ![<<b.op.status, b.op.id>>] = b.op]
     \/ /\ b.cmd = "sadd" /\ c.cmd = "ok" /\ records' = records
        /\ indexed' = indexed \union {<<b.op.status, b.op.id>>}

LEMMA WriteFacts ==
  ASSUME SharedTypeOK, NEW w \in Workers, Write(w)
  PROVE  /\ Writing(client[w])
         /\ \E c \in Client : client' = [client EXCEPT ![w] = c] /\ Writes(client[w], c)
         /\ UNCHANGED <<issued, bound, redisErrors, workerShutdown, restarts>>
<1> DEFINE b == client[w]
           c == [b EXCEPT !.cmd = Following(b.cmd)]
<1>1. b \in Client /\ Writing(b) /\ Effect(b)
  BY SMT DEF SharedTypeOK, Write, Effect, Writing
<1>2. Following(b.cmd) \in {"del", "set", "sadd", "ok"}
  BY <1>1, SMT DEF Following, Writing
<1>3. /\ c \in Client /\ c.cmd = Following(b.cmd)
      /\ c.op = b.op /\ c.prev = b.prev /\ c.keys = b.keys
  BY <1>1, <1>2, SMT DEF Client, Commands
<1>4. client' = [client EXCEPT ![w] = c]
  BY DEF Write, Call
<1> HIDE DEF c
<1>5. Writes(b, c)
  BY <1>1, <1>3 DEF Effect, Following, Writes
<1> QED
  BY <1>1, <1>3, <1>4, <1>5 DEF Write, flags

LEMMA FailFacts ==
  ASSUME SharedTypeOK, NEW w \in Workers, RedisFails(w)
  PROVE  /\ client[w].cmd \in {"sscan", "get"} \/ Writing(client[w])
         /\ client' = [client EXCEPT ![w] = Error]
         /\ \/ UNCHANGED <<records, indexed>>
            \/ \E c \in Client : Writes(client[w], c)
         /\ redisErrors' = redisErrors + 1
         /\ UNCHANGED <<issued, bound, workerShutdown, restarts>>
<1> DEFINE b == client[w]
           c == [b EXCEPT !.cmd = Following(b.cmd)]
<1>1. b \in Client /\ (b.cmd \in {"sscan", "get"} \/ Writing(b))
  BY SMT DEF SharedTypeOK, RedisFails, Commands, Writing
<1>2. ASSUME Effect(b) PROVE Writes(b, c) /\ c \in Client
  <2>1. Following(b.cmd) \in {"del", "set", "sadd", "ok"} /\ Writing(b)
    BY <1>2, SMT DEF Following, Effect, Writing
  <2>2. /\ c \in Client /\ c.cmd = Following(b.cmd)
        /\ c.op = b.op /\ c.prev = b.prev /\ c.keys = b.keys
    BY <1>1, <2>1, SMT DEF Client, Commands
  <2> HIDE DEF c
  <2> QED
    BY <1>2, <2>1, <2>2 DEF Effect, Following, Writes
<1> HIDE DEF c
<1> QED
  BY <1>1, <1>2, Zenon DEF RedisFails, Call, flags, storeVars

(* A write leaves every record under its own status and id. *)
LEMMA WritesFiled ==
  ASSUME SharedTypeOK, Filed, NEW w \in Workers, NEW c, Writes(client[w], c)
  PROVE  Filed' /\ \A k \in Keys : records'[k] \in {records[k], NoOp, client[w].op}
<1> DEFINE b == client[w]
<1>1. b.op \in BridgeOperation /\ b.prev \in Status
  BY ClientType DEF Writes
<1>2. b.op.id \in OpIds /\ b.op.status \in Status /\ b.op # NoOp
  BY <1>1, SharedAssumption, SMT DEF BridgeOperation
<1>3. records \in [Keys -> BridgeOperation \union {NoOp}]
  BY DEF SharedTypeOK
<1>4. <<b.prev, b.op.id>> \in Keys /\ <<b.op.status, b.op.id>> \in Keys
  BY <1>1, <1>2 DEF Keys
<1> QED
  BY <1>2, <1>3, <1>4 DEF Writes, Filed

LEMMA WriteAlways ==
  ASSUME TypeOK, Always, NEW w \in {Exec, BglScan, EvmScan}, Write(w) \/ RedisFails(w),
         UNCHANGED <<executorVars, bglVars, evmVars>>
  PROVE  Always'
<1> USE Goroutines DEF Always, CopiesInv
<1>0. SharedTypeOK /\ w \in Workers
  BY DEF TypeOK
<1> DEFINE b == client[w]
<1>1. UNCHANGED <<issued, workerShutdown, pc, op, payouts, bgl, evm, evmLogs>>
  BY <1>0, WriteFacts, FailFacts DEF executorVars, bglVars, evmVars
<1>2. PICK c \in Client :
        /\ client' = [client EXCEPT ![w] = c]
        /\ \/ Writes(b, c)
           \/ /\ c = Error /\ (UNCHANGED <<records, indexed>> \/ \E d \in Client : Writes(b, d))
              /\ b.cmd \in {"sscan", "get"} \/ Writing(b)
  BY <1>0, WriteFacts, FailFacts, ErrorFacts
<1>3. client'[w] = c /\ \A v \in Workers : v # w => client'[v] = client[v]
  BY <1>0, <1>2 DEF SharedTypeOK
<1>4. /\ c.op \in {b.op, NoOp} /\ c.keys \subseteq b.keys
      /\ c.cmd \in {"del", "set", "sadd", "ok", "err"}
      /\ Writing(c) => Writing(b) /\ c.op = b.op /\ c.prev = b.prev
      /\ b.cmd \in {"sscan", "get"} \/ Writing(b)
      /\ c.cmd \in {"set", "sadd"} => b.cmd \in {"del", "set"}
      /\ c.cmd = "del" => b.cmd = "srem"
      /\ c.cmd = "ok" => b.cmd = "sadd"
  BY <1>2, ErrorFacts DEF Writes, Writing
<1>5. \/ UNCHANGED <<records, indexed>>
      \/ \E d \in Client : Writes(b, d)
  BY <1>2
<1>6. Filed' /\ \A k \in Keys : records'[k] \in {records[k], NoOp, b.op}
  BY <1>0, <1>5, WritesFiled DEF Filed
<1>7. /\ Writing(b) => b.op \in BridgeOperation /\ b.op # NoOp
      /\ \/ indexed' \subseteq indexed
         \/ /\ b.cmd = "sadd" /\ Writing(b)
            /\ indexed' = indexed \union {<<b.op.status, b.op.id>>}
  BY <1>0, <1>5, ClientType DEF Writes, Writing, SharedTypeOK
<1>8. Traced' /\ CopiesTruthful'
  <2>1. Grows
    BY <1>1, GrowsSteady
  <2>2. OnlyGoodCopies
    BY <1>0, <1>1, <1>3, <1>4, <1>6 DEF OnlyGoodCopies, OldCopy
  <2>3. OnlyOldKeys
    <3>1. \A k \in indexed' : k \in indexed \/ (b.op # NoOp /\ k[2] = b.op.id)
      BY <1>7
    <3> QED
      BY <1>0, <1>3, <1>4, <3>1 DEF OnlyOldKeys
  <2> QED
    BY <1>1, <2>1, <2>2, <2>3, TracedStep DEF Traced
<1>9. ExecutorAgrees' /\ FetchedArePending'
  <2>1. CASE w # Exec
    BY <1>1, <1>3, <2>1, ExecSteady
  <2>2. CASE w = Exec /\ b.cmd \in {"sscan", "get"}
    <3>1. pc = "fetch" /\ c = Error
      BY <1>2, <2>2, Readers DEF Writes
    <3> QED
      BY <1>1, <1>3, <2>2, <3>1, ErrorFacts DEF ExecutorAgrees, FetchedArePending
  <2>3. CASE w = Exec /\ Writing(b)
    <3>1. /\ pc \in {"mark", "saved"} /\ b.op = op /\ op.status # "pending"
          /\ b.prev = "pending" /\ b.keys = {}
      BY <2>3, Writers
    <3>2. /\ c.keys = {}
          /\ Writing(c) => c.op = op /\ c.prev = "pending"
          /\ Writing(c) \/ c.cmd \in {"ok", "err"}
      BY <1>4, <3>1 DEF Writing
    <3> QED
      BY <1>1, <1>3, <2>3, <3>1, <3>2 DEF ExecutorAgrees, FetchedArePending, Writing
  <2> QED
    BY <1>4, <2>1, <2>2, <2>3
<1>10. BglAgrees'
  <2>1. CASE w # BglScan
    BY <1>1, <1>3, <2>1, BglSteady
  <2>2. CASE w = BglScan
    <3>1. bgl.pc = "store" \/ (bgl.pc = "dedupe" /\ c.cmd = "err")
      BY <1>2, <1>4, <2>2, Readers, Writers, ErrorFacts DEF Writes, Writing
    <3> QED
      BY <1>1, <1>3, <1>4, <2>2, <3>1 DEF BglAgrees, SearchReturns, Writing
  <2> QED
    BY <2>1, <2>2
<1>11. EvmAgrees'
  <2>1. CASE w # EvmScan
    BY <1>1, <1>3, <2>1, EvmSteady
  <2>2. CASE w = EvmScan
    <3>0. evm' = evm /\ client'[EvmScan] = c /\ Transfer' = Transfer
      BY <1>1, <1>3, <2>2 DEF Transfer
    <3>1. CASE b.cmd \in {"sscan", "get"}
      <4>1. evm.pc \in {"dedupe", "settle"} /\ c = Error
        BY <1>2, <2>2, <3>1, Readers DEF Writes
      <4> QED
        BY <2>2, <3>0, <4>1, ErrorFacts DEF EvmAgrees, SearchReturns, AtLog
    <3>2. CASE Writing(b)
      <4>1. evm.pc = "store"
        BY <2>2, <3>2, Writers
      <4>2. Settlement(b) /\ Writing(c) => Settlement(c)
        BY <1>4 DEF Settlement
      <4> QED
        BY <1>4, <2>2, <3>0, <3>2, <4>1, <4>2 DEF EvmAgrees, AtLog, Writing
    <3> QED
      BY <1>4, <3>1, <3>2
  <2> QED
    BY <2>1, <2>2
<1>12. LogsAreMined'
  BY <1>1 DEF LogsAreMined, Mined
<1>13. NewAreUntouched'
  <2> SUFFICES ASSUME NEW v \in Scanners, Creating(v)'
               PROVE  Untouched(v, client[v].op.id)'
    BY DEF NewAreUntouched
  <2>0. v \in Workers /\ v # Exec
    BY DEF Scanners
  <2>1. PICK id : id = client[v].op.id
    OBVIOUS
  <2>2. Creating(v) /\ client'[v].op = client[v].op
    <3>1. CASE v # w
      BY <1>3, <2>0, <3>1 DEF Creating
    <3>2. CASE v = w
      <4>1. c.op = b.op /\ Writing(b) /\ b.op.status \in {"pending", "failed"}
        BY <1>3, <1>4, <3>2 DEF Creating, Writing
      <4>2. b.cmd \in {"set", "sadd"}
        BY <2>0, <3>2, <4>1, Writers DEF Settlement
      <4> QED
        BY <1>3, <3>2, <4>1, <4>2 DEF Creating
    <3> QED
      BY <3>1, <3>2
  <2>3. Untouched(v, id)
    BY <2>1, <2>2 DEF NewAreUntouched
  <2>4. \A k \in indexed' : k[2] # id
    <3>1. CASE v # w
      BY <1>0, <1>7, <2>3, <3>1 DEF Untouched
    <3>2. CASE v = w
      <4>1. b.cmd # "sadd"
        BY <1>3, <1>4, <2>2, <3>2 DEF Creating, Writes
      <4> QED
        BY <1>7, <2>3, <4>1 DEF Untouched
    <3> QED
      BY <3>1, <3>2
  <2>5. \A u \in Workers : /\ \A k \in client'[u].keys : k[2] # id
                           /\ u # v /\ client'[u].op # NoOp => client'[u].op.id # id
    BY <1>0, <1>3, <1>4, <2>3 DEF Untouched
  <2>6. Untouched(v, id)'
    BY <1>1, <2>3, <2>4, <2>5 DEF Untouched
  <2> QED
    BY <2>1, <2>2, <2>6 DEF Untouched
<1>14. Moved'
  <2> SUFFICES ASSUME pc \in {"mark", "saved"},
                      client'[Exec].cmd \in {"del", "set", "sadd", "ok"}
               PROVE  PendingKey(op.id) \notin indexed'
    BY <1>1 DEF Moved, PendingKey
  <2>1. CASE w = Exec
    <3>1. Writing(b) /\ b.op = op /\ b.prev = "pending" /\ op.status # "pending"
      BY <1>2, <1>3, <1>4, <2>1, Readers, Writers
    <3>2. Writes(b, c)
      BY <1>2, <1>3, <2>1, ErrorFacts
    <3>3. b.cmd # "srem" => PendingKey(op.id) \notin indexed
      BY <2>1, <3>1 DEF Moved, Writing
    <3> QED
      BY <3>1, <3>2, <3>3 DEF Writes, PendingKey
  <2>2. CASE w # Exec
    <3>1. PendingKey(op.id) \notin indexed
      BY <1>3, <2>2 DEF Moved
    <3>2. CASE b.cmd = "sadd" /\ Writing(b) /\ indexed' = indexed \union {<<b.op.status, b.op.id>>}
      <4>1. b.op.status = "pending" => Creating(w)
        BY <3>2 DEF Creating
      <4>2. op # NoOp
        BY DEF TypeOK, ExecutorTypeOK
      <4>3. b.op.status = "pending" => b.op.id # op.id
        BY <2>2, <4>1, <4>2 DEF NewAreUntouched, Untouched, Scanners
      <4> QED
        BY <3>1, <3>2, <4>3 DEF PendingKey
    <3> QED
      BY <1>7, <3>1, <3>2
  <2> QED
    BY <2>1, <2>2
<1> QED
  BY <1>6, <1>8, <1>9, <1>10, <1>11, <1>12, <1>13, <1>14

(***************************************************************************)
(* The sending worker outside the store.                                   *)
(***************************************************************************)

(* An operation in hand, or given to the store, is one the worker had.     *)
Stems(o) == o # NoOp => \E p \in {op, client[Exec].op} :
                          p # NoOp /\ o.id = p.id /\ o.deposit = p.deposit

LEMMA Payments ==
  ASSUME TypeOK, PaysOnce
  PROVE  /\ \A i \in DOMAIN payouts : i \in DOMAIN payouts' /\ payouts'[i] = payouts[i]
         /\ \A i \in DOMAIN payouts' \ DOMAIN payouts :
              /\ i = Len(payouts) + 1 /\ op # NoOp
              /\ payouts'[i].op = op.id /\ payouts'[i].deposit = op.deposit
              /\ payouts'[i].kind = pc
         /\ payouts' # payouts => Len(payouts) + 1 \in DOMAIN payouts' \ DOMAIN payouts
<1>1. payouts \in Seq(Payout) /\ DOMAIN payouts = 1 .. Len(payouts) /\ Len(payouts) \in Nat
  BY LenProperties DEF TypeOK, ExecutorTypeOK
<1>2. CASE payouts' = payouts
  BY <1>2
<1>3. ASSUME NEW p \in Payout, payouts' = Append(payouts, p)
      PROVE  /\ DOMAIN payouts' = 1 .. Len(payouts) + 1
             /\ payouts'[Len(payouts) + 1] = p
             /\ \A i \in DOMAIN payouts : payouts'[i] = payouts[i]
  BY <1>1, <1>3, SMT
<1>4. ASSUME pc \in PayoutKinds, NEW p \in Payout, payouts' = Append(payouts, p),
             p.op = op.id, p.deposit = op.deposit, p.kind = pc
      PROVE  /\ \A i \in DOMAIN payouts : i \in DOMAIN payouts' /\ payouts'[i] = payouts[i]
             /\ \A i \in DOMAIN payouts' \ DOMAIN payouts :
                  /\ i = Len(payouts) + 1 /\ op # NoOp
                  /\ payouts'[i].op = op.id /\ payouts'[i].deposit = op.deposit
                  /\ payouts'[i].kind = pc
             /\ Len(payouts) + 1 \in DOMAIN payouts' \ DOMAIN payouts
  <2>1. op # NoOp
    BY <1>4 DEF TypeOK, ExecutorTypeOK, PayoutKinds
  <2>2. /\ DOMAIN payouts' = 1 .. Len(payouts) + 1 /\ payouts'[Len(payouts) + 1] = p
        /\ \A i \in DOMAIN payouts : payouts'[i] = payouts[i]
    BY <1>3, <1>4
  <2>3. /\ \A i \in DOMAIN payouts : i \in DOMAIN payouts'
        /\ \A i \in DOMAIN payouts' \ DOMAIN payouts : i = Len(payouts) + 1
        /\ Len(payouts) + 1 \in DOMAIN payouts' \ DOMAIN payouts
    BY <1>1, <2>2, SMT
  <2> QED
    BY <1>4, <2>1, <2>2, <2>3
<1> QED
  BY <1>2, <1>4, Zenon DEF PaysOnce

LEMMA ExecutorGrows ==
  ASSUME TypeOK, PaysOnce, UNCHANGED <<issued, evmLogs>>
  PROVE  Grows
BY Payments DEF Grows, Mined

LEMMA ExecutorControl ==
  ASSUME TypeOK, Always, NEW c \in Client, client' = [client EXCEPT ![Exec] = c],
         UNCHANGED <<records, indexed, issued, bglVars, evmVars>>,
         c.keys = {}, c.op \in {NoOp, op'}, Stems(op'), PaysOnce,
         \A o : o = op' => OldCopy(o) \/ GoodCopy(o)',
         ExecutorAgrees', FetchedArePending', Moved'
  PROVE  Always'
<1> USE Goroutines DEF Always, CopiesInv
<1>0. SharedTypeOK
  BY DEF TypeOK
<1>1. UNCHANGED <<bgl, evm, evmLogs>>
  BY DEF bglVars, evmVars
<1>2. client'[Exec] = c /\ \A v \in Workers : v # Exec => client'[v] = client[v]
  BY <1>0 DEF SharedTypeOK
<1>3. Filed'
  BY DEF Filed
<1>4. Traced' /\ CopiesTruthful'
  <2>1. Grows
    BY <1>1, ExecutorGrows
  <2>2. OnlyGoodCopies
    <3>1. \A o : o = NoOp => OldCopy(o)
      BY DEF OldCopy
    <3>2. \A k \in Keys : OldCopy(records'[k])
      BY DEF OldCopy
    <3>3. \A w \in Workers : w # Exec => OldCopy(client'[w].op)
      BY <1>2 DEF OldCopy
    <3> QED
      BY <1>2, <3>1, <3>2, <3>3 DEF OnlyGoodCopies
  <2>3. OnlyOldKeys
    BY <1>2 DEF OnlyOldKeys
  <2> QED
    BY <2>1, <2>2, <2>3, TracedStep, Payments DEF Traced
<1>5. BglAgrees' /\ EvmAgrees'
  BY <1>1, <1>2, BglSteady, EvmSteady
<1>6. LogsAreMined'
  BY <1>1 DEF LogsAreMined, Mined
<1>7. NewAreUntouched'
  <2> SUFFICES ASSUME NEW v \in Scanners, Creating(v)'
               PROVE  Untouched(v, client[v].op.id)'
    BY DEF NewAreUntouched
  <2>1. v \in Workers /\ v # Exec /\ client'[v] = client[v]
    BY <1>2 DEF Scanners
  <2>2. PICK id : id = client[v].op.id
    OBVIOUS
  <2>3. Untouched(v, id)
    BY <2>1, <2>2 DEF Creating, NewAreUntouched
  <2>4. op' # NoOp => op'.id # id
    BY <2>1, <2>3 DEF Untouched, Stems
  <2>5. \A i \in DOMAIN payouts' : payouts'[i].op # id
    BY <2>3, Payments DEF Untouched
  <2>6. Untouched(v, id)'
    BY <1>2, <2>3, <2>4, <2>5 DEF Untouched
  <2> QED
    BY <2>1, <2>2, <2>6 DEF Untouched
<1> QED
  BY <1>3, <1>4, <1>5, <1>6, <1>7

(* Saving an operation that has been paid, or that is given up. *)
LEMMA SaveAlways ==
  ASSUME TypeOK, Always, NEW o \in BridgeOperation, NEW next, Saves(o, next),
         UNCHANGED <<bglVars, evmVars>>
  PROVE  Always'
<1> USE DEF Always, CopiesInv
<1>1. /\ op' = o /\ pc' = next /\ next \in {"mark", "saved"}
      /\ client' = [client EXCEPT ![Exec] = ChangeCall(o, "pending")]
      /\ UNCHANGED <<records, indexed, issued>>
      /\ PaysOnce /\ o.id = op.id /\ o.deposit = op.deposit
      /\ pc \in {"address", "forward", "return", "sender"}
  BY DEF Saves, Save, Call, StoreSame
<1>2. PICK c \in Client :
        /\ c = ChangeCall(o, "pending") /\ c.cmd = "srem"
        /\ c.op = o /\ c.prev = "pending" /\ c.keys = {}
  BY ChangeCallFacts DEF Status
<1>3. op \in BridgeOperation /\ op # NoOp /\ OldCopy(op)
  BY <1>1 DEF TypeOK, ExecutorTypeOK, OldCopy
<1>4. Grows
  BY <1>1, ExecutorGrows DEF evmVars
<1>5. GoodCopy(op)
  BY <1>3, <1>4, OldCopiesAreGood
<1>6. GoodCopy(o)'
  <2>1. <<o.id, o.deposit>> \in issued'
    BY <1>1, <1>3, <1>5 DEF GoodCopy
  <2>2. Truthful(o)'
    <3>1. CASE /\ o.status = "executing" /\ next = "mark" /\ pc = "address"
               /\ o.destTx = op.destTx
      <4>1. op.destTx = 0
        BY <1>3, <1>5, <3>1 DEF FetchedArePending, GoodCopy, Truthful
      <4> QED
        BY <3>1, <4>1 DEF Truthful
    <3>2. CASE o.status \in {"failed", "returnfail"}
      BY <3>2 DEF Truthful
    <3>3. CASE /\ o.status = IF pc = "forward" THEN "executing" ELSE "returning"
               /\ payouts' # payouts /\ o.destTx = Len(payouts) + 1
      <4>1. PICK t : t = Len(payouts) + 1
        OBVIOUS
      <4>2. /\ t \in DOMAIN payouts' /\ payouts'[t].op = o.id /\ payouts'[t].kind = pc
        BY <1>1, <3>3, <4>1, Payments
      <4>3. pc \in {"forward", "return"}
        BY <1>1, <3>3 DEF PaysOnce, PayoutKinds
      <4> QED
        BY <3>3, <4>1, <4>2, <4>3 DEF Truthful, NamesPayout
    <3> QED
      BY <3>1, <3>2, <3>3, Zenon DEF Saves
  <2> QED
    BY <2>1, <2>2 DEF GoodCopy
<1>7. o.status # "pending"
  BY DEF Saves
<1>8. client'[Exec] = c
  BY <1>1, <1>2, Goroutines DEF TypeOK, SharedTypeOK
<1>9. ExecutorAgrees' /\ FetchedArePending' /\ Moved'
  BY <1>1, <1>2, <1>7, <1>8 DEF ExecutorAgrees, FetchedArePending, Moved, Writing
<1>10. Stems(o)
  BY <1>1, <1>3 DEF Stems
<1> QED
  BY <1>1, <1>2, <1>6, <1>9, <1>10, ExecutorControl

LEMMA ExecutorAlways ==
  ASSUME TypeOK, Always, ExecutorStep, UNCHANGED <<bglVars, evmVars>>
  PROVE  Always'
<1> USE DEF Always, CopiesInv
<1>0. /\ \A o : o \in {NoOp, op, client[Exec].op} => OldCopy(o) /\ Stems(o)
      /\ client \in [Workers -> Client] /\ Exec \in Workers
  BY Goroutines DEF OldCopy, Stems, TypeOK, SharedTypeOK
<1>1. CASE StoreStep(Exec) /\ UNCHANGED executorVars
  BY <1>1, ReadAlways, WriteAlways DEF StoreStep
<1>2. CASE Poll
  <2>1. PICK c \in Client :
          c = FindPending /\ c.cmd = "sscan" /\ c.op = NoOp /\ c.todo = {"pending"} /\ c.keys = {}
    BY FindPendingFacts
  <2>2. /\ client' = [client EXCEPT ![Exec] = c] /\ pc' = "fetch"
        /\ UNCHANGED <<records, indexed, issued, op, payouts, workerShutdown>>
        /\ ~ workerShutdown /\ pc = "poll"
    BY <1>2, <2>1 DEF Poll, Call, keptVars, storeVars, flags
  <2>3. client'[Exec] = c /\ op = NoOp
    BY <1>0, <2>2 DEF ExecutorAgrees
  <2>4. ExecutorAgrees' /\ FetchedArePending' /\ Moved'
    BY <2>1, <2>2, <2>3 DEF ExecutorAgrees, FetchedArePending, Moved
  <2> QED
    BY <1>0, <2>1, <2>2, <2>4, ExecutorControl DEF PaysOnce
<1>3. CASE Fetch
  <2>1. /\ client' = [client EXCEPT ![Exec] = Idle]
        /\ op' = client[Exec].op /\ pc = "fetch"
        /\ pc' = IF client[Exec].op = NoOp THEN "poll" ELSE "address"
        /\ UNCHANGED <<records, indexed, issued, payouts, workerShutdown>>
    BY <1>3 DEF Fetch, Consume, Call, keptVars, storeVars, flags
  <2>2. client'[Exec] = Idle
    BY <1>0, <2>1
  <2>3. ExecutorAgrees' /\ FetchedArePending' /\ Moved'
    BY <2>1, <2>2 DEF ExecutorAgrees, FetchedArePending, Moved
  <2> QED
    BY <1>0, <2>1, <2>3, IdleFacts, ExecutorControl DEF PaysOnce
<1>4. CASE TakesNote
  <2>1. /\ client' = [client EXCEPT ![Exec] = Idle]
        /\ UNCHANGED <<records, indexed, issued, payouts>>
        /\ \/ pc = "mark" /\ pc' = "forward" /\ op' = op
           \/ pc = "saved" /\ pc' = "poll" /\ op' = NoOp
    BY <1>4 DEF TakesNote, StoreSame, Consume, Call
  <2>2. client'[Exec] = Idle
    BY <1>0, <2>1
  <2>3. ExecutorAgrees' /\ FetchedArePending' /\ Moved'
    BY <2>1, <2>2 DEF ExecutorAgrees, FetchedArePending, Moved
  <2> QED
    BY <1>0, <2>1, <2>3, IdleFacts, ExecutorControl DEF PaysOnce
<1>5. CASE GoesOn
  <2>1. /\ UNCHANGED <<records, indexed, issued, op, client, workerShutdown>>
        /\ PaysOnce
        /\ \/ pc = "poll" /\ pc' = "exited"
           \/ /\ pc \in {"address", "forward", "return", "sender"}
              /\ pc' \in {"forward", "return", "sender"}
    BY <1>5 DEF GoesOn, StoreSame
  <2>2. client[Exec] = Idle
    BY <2>1 DEF ExecutorAgrees
  <2>3. client' = [client EXCEPT ![Exec] = Idle] /\ client'[Exec] = Idle
    BY <1>0, <2>1, <2>2
  <2>4. ExecutorAgrees' /\ FetchedArePending' /\ Moved'
    BY <2>1, <2>2, <2>3 DEF ExecutorAgrees, FetchedArePending, Moved
  <2> QED
    BY <1>0, <2>1, <2>3, <2>4, IdleFacts, ExecutorControl
<1>6. ASSUME NEW o \in BridgeOperation, NEW next, Saves(o, next) PROVE Always'
  BY <1>6, SaveAlways
<1> QED
  BY <1>1, <1>2, <1>3, <1>4, <1>5, <1>6, ExecutorShapes DEF TypeOK


(***************************************************************************)
(* A scanner outside the store.                                            *)
(***************************************************************************)

(* It turns to the store, or away from it, and creates nothing.            *)
LEMMA ScannerControl ==
  ASSUME TypeOK, Always, NEW w \in Scanners, NEW c \in Client,
         client' = [client EXCEPT ![w] = c],
         UNCHANGED <<records, indexed, issued, executorVars, workerShutdown, evmLogs>>,
         c.keys = {},
         c.cmd \in {"set", "sadd"} => c.op # NoOp,
         c.op # NoOp => /\ client[w].op # NoOp /\ c.op.id = client[w].op.id
                        /\ c.op.status \notin {"pending", "failed"},
         \A o : o = c.op => OldCopy(o) \/ GoodCopy(o)',
         BglAgrees', EvmAgrees', LogsAreMined'
  PROVE  Always'
<1> USE Goroutines DEF Always, CopiesInv
<1>0. SharedTypeOK /\ w \in Workers /\ w # Exec
  BY DEF TypeOK, Scanners
<1>1. UNCHANGED <<pc, op, payouts>>
  BY DEF executorVars
<1>2. client'[w] = c /\ \A v \in Workers : v # w => client'[v] = client[v]
  BY <1>0 DEF SharedTypeOK
<1>3. Filed'
  BY DEF Filed
<1>4. Traced' /\ CopiesTruthful'
  <2>1. Grows
    BY <1>1, GrowsSteady
  <2>2. OnlyGoodCopies
    <3>1. \A k \in Keys : OldCopy(records'[k])
      BY DEF OldCopy
    <3>2. \A v \in Workers : v # w => OldCopy(client'[v].op)
      BY <1>2 DEF OldCopy
    <3>3. OldCopy(op')
      BY <1>1 DEF OldCopy
    <3> QED
      BY <1>2, <3>1, <3>2, <3>3 DEF OnlyGoodCopies
  <2>3. OnlyOldKeys
    BY <1>2 DEF OnlyOldKeys
  <2> QED
    BY <1>1, <2>1, <2>2, <2>3, TracedStep DEF Traced
<1>5. ExecutorAgrees' /\ FetchedArePending'
  BY <1>0, <1>1, <1>2, ExecSteady
<1>6. NewAreUntouched'
  <2> SUFFICES ASSUME NEW v \in Scanners, Creating(v)'
               PROVE  Untouched(v, client[v].op.id)'
    BY DEF NewAreUntouched
  <2>0. v \in Workers /\ v # Exec
    BY DEF Scanners
  <2>2. CASE v = w
    BY <1>2, <2>2 DEF Creating
  <2>3. CASE v # w
    <3>1. client'[v] = client[v]
      BY <1>2, <2>0, <2>3
    <3>2. PICK id : id = client[v].op.id
      OBVIOUS
    <3>3. Untouched(v, id)
      BY <3>1, <3>2 DEF Creating, NewAreUntouched
    <3>4. c.op # NoOp => c.op.id # id
      BY <1>0, <2>3, <3>3 DEF Untouched
    <3>5. Untouched(v, id)'
      BY <1>1, <1>2, <3>3, <3>4 DEF Untouched
    <3> QED
      BY <3>1, <3>2, <3>5 DEF Untouched
  <2> QED
    BY <2>2, <2>3
<1>7. Moved'
  BY <1>0, <1>1, <1>2 DEF Moved
<1> QED
  BY <1>3, <1>4, <1>5, <1>6, <1>7

(* It stores an operation under an id that nobody has seen.                *)
LEMMA CreateAlways ==
  ASSUME TypeOK, Always, NEW w \in Scanners, NEW o \in BridgeOperation,
         o.status \in {"pending", "failed"}, o.destTx = 0,
         \A p \in issued : p[1] # o.id,
         issued' = issued \union {<<o.id, o.deposit>>},
         client' = [client EXCEPT ![w] = UpsertCall(o)],
         UNCHANGED <<records, indexed, executorVars, workerShutdown, evmLogs>>,
         BglAgrees', EvmAgrees', LogsAreMined'
  PROVE  Always'
<1> USE Goroutines DEF Always, CopiesInv
<1>0. SharedTypeOK /\ w \in Workers /\ w # Exec /\ o # NoOp
  BY DEF TypeOK, Scanners
<1>1. UNCHANGED <<pc, op, payouts>>
  BY DEF executorVars
<1>2. PICK c \in Client : c = UpsertCall(o) /\ c.cmd = "set" /\ c.op = o /\ c.keys = {}
  BY UpsertCallFacts
<1>3. client'[w] = c /\ \A v \in Workers : v # w => client'[v] = client[v]
  BY <1>0, <1>2 DEF SharedTypeOK
<1>4. PICK id : id = o.id
  OBVIOUS
<1>5. id \notin IssuedIds
  BY <1>4 DEF IssuedIds
<1>6. \A p : p # NoOp /\ IsIssued(p) => p.id # id
  BY <1>4 DEF IsIssued
<1>7. Filed'
  BY DEF Filed
<1>8. Traced' /\ CopiesTruthful'
  <2>1. Grows
    BY <1>1 DEF Grows, Mined
  <2>2. GoodCopy(o)'
    BY DEF GoodCopy, Truthful
  <2>3. OnlyGoodCopies
    <3>1. \A k \in Keys : OldCopy(records'[k])
      BY DEF OldCopy
    <3>2. \A v \in Workers : v # w => OldCopy(client'[v].op)
      BY <1>3 DEF OldCopy
    <3>3. OldCopy(op')
      BY <1>1 DEF OldCopy
    <3> QED
      BY <1>2, <1>3, <2>2, <3>1, <3>2, <3>3 DEF OnlyGoodCopies
  <2>4. OnlyOldKeys
    BY <1>2, <1>3 DEF OnlyOldKeys
  <2>5. \A p, q \in issued' : p[1] = q[1] => p = q
    BY DEF Traced
  <2> QED
    BY <1>1, <2>1, <2>3, <2>4, <2>5, TracedStep
<1>9. ExecutorAgrees' /\ FetchedArePending'
  BY <1>0, <1>1, <1>3, ExecSteady
<1>10. NewAreUntouched'
  <2> SUFFICES ASSUME NEW v \in Scanners, Creating(v)'
               PROVE  Untouched(v, client[v].op.id)'
    BY DEF NewAreUntouched
  <2>0. v \in Workers /\ v # Exec
    BY DEF Scanners
  <2>1. CASE v = w
    <3>1. /\ \A k \in indexed : k[2] # id
          /\ op # NoOp => op.id # id
          /\ \A u \in Workers : /\ \A k \in client[u].keys : k[2] # id
                                /\ client[u].op # NoOp => client[u].op.id # id
      BY <1>5, <1>6 DEF Traced
    <3>2. \A i \in DOMAIN payouts : payouts[i].op # id
      BY <1>4 DEF Traced
    <3>3. Untouched(v, id)'
      BY <1>1, <1>2, <1>3, <2>1, <3>1, <3>2 DEF Untouched
    <3> QED
      BY <1>2, <1>3, <1>4, <2>1, <3>3 DEF Untouched
  <2>2. CASE v # w
    <3>1. client'[v] = client[v] /\ client[v].op # NoOp
      BY <1>0, <1>3, <2>0, <2>2, ClientType DEF Creating
    <3>2. PICK j : j = client[v].op.id
      OBVIOUS
    <3>3. Untouched(v, j) /\ j # id
      BY <1>6, <2>0, <3>1, <3>2 DEF Creating, NewAreUntouched, Traced
    <3>4. Untouched(v, j)'
      BY <1>1, <1>2, <1>3, <1>4, <3>3 DEF Untouched
    <3> QED
      BY <3>1, <3>2, <3>4 DEF Untouched
  <2> QED
    BY <2>1, <2>2
<1>11. Moved'
  BY <1>0, <1>1, <1>3 DEF Moved
<1> QED
  BY <1>7, <1>8, <1>9, <1>10, <1>11

(***************************************************************************)
(* The BGL scanner outside the store: it listens to the node and the saved *)
(* block, it starts a search, or it creates an operation.                  *)
(***************************************************************************)
BglAway ==
  /\ client' = [client EXCEPT ![BglScan] = Idle]
  /\ UNCHANGED <<issued, bglHeight, bglBlock>>
  /\ \/ redisErrors' = redisErrors + 1 /\ bgl'.pc \in {"sleep", "next"}
     \/ /\ redisErrors' = redisErrors
        /\ \/ bgl.pc \in {"sleep", "list"} /\ bgl'.pc \in {"sleep", "exited"}
              /\ bglCursor' = bglCursor
           \/ bgl.pc = "sleep" /\ bgl'.pc = "list" /\ bgl'.since = bglCursor
              /\ bglCursor' = bglCursor
           \/ bgl.pc = "list" /\ bgl'.pc = "next" /\ bgl'.last = LastBlock
              /\ bgl'.txs = {d \in SinceBlock(bgl.since) : BglConfirmed(d)}
              /\ bglCursor' = bglCursor
           \/ BglScanning /\ bgl'.pc = "next" /\ bgl'.last = bgl.last
              /\ bgl'.txs \subseteq bgl.txs /\ bglCursor' = bglCursor
           \/ bgl.pc = "next" /\ bgl'.pc = "sleep" /\ bglCursor' = bgl.last

BglSearches ==
  /\ bgl.pc = "next" /\ bgl'.pc = "dedupe" /\ bgl'.last = bgl.last
  /\ \E d \in bgl.txs : bgl'.tx = d /\ bgl'.txs = bgl.txs \ {d}
  /\ \E c \in Client : /\ client' = [client EXCEPT ![BglScan] = c]
                       /\ c.cmd = "sscan" /\ c.op = NoOp /\ c.keys = {}
  /\ UNCHANGED <<issued, bglHeight, bglBlock, bglCursor, redisErrors>>

BglCreates ==
  /\ bgl'.pc = "store" /\ bgl'.last = bgl.last
  /\ \E o \in BridgeOperation :
       /\ o.status \in {"pending", "failed"} /\ o.destTx = 0
       /\ \A p \in issued : p[1] # o.id
       /\ issued' = issued \union {<<o.id, o.deposit>>}
       /\ client' = [client EXCEPT ![BglScan] = UpsertCall(o)]
       /\ \/ bgl.pc = "next" /\ o.deposit \in bgl.txs /\ bgl'.txs = bgl.txs \ {o.deposit}
          \/ bgl.pc = "dedupe" /\ o.deposit = bgl.tx /\ bgl'.txs = bgl.txs
  /\ UNCHANGED <<bglHeight, bglBlock, bglCursor, redisErrors>>

LEMMA BglShapes ==
  ASSUME SharedTypeOK, BglTypeOK, BglAgrees, BglStep
  PROVE  \/ StoreStep(BglScan) /\ UNCHANGED bglVars
         \/ /\ BglAway \/ BglSearches \/ BglCreates
            /\ Returned(BglScan)
            /\ UNCHANGED <<records, indexed, bound, workerShutdown, restarts>>
<1>0. /\ bgl \in BglLocals /\ bgl.txs \subseteq BGLDeposits /\ BGLDeposits \subseteq Deposits
      /\ BglScan \in Workers /\ {"pending", "failed"} \subseteq Status
  BY Goroutines, BglLocalsAre DEF Status
<1>1. bgl.pc \notin {"dedupe", "store"} =>
        client = [client EXCEPT ![BglScan] = Idle] /\ Returned(BglScan)
  BY <1>0, IdleFacts DEF SharedTypeOK, BglAgrees, Returned
<1>2. CASE BglWake \/ BglExit
  <2>1. client' = client /\ bgl.pc = "sleep" /\ bglCursor' = bglCursor
        /\ UNCHANGED <<issued, bglHeight, bglBlock, redisErrors>>
        /\ UNCHANGED <<records, indexed, bound, workerShutdown, restarts>>
    BY <1>2 DEF BglWake, BglExit, sharedVars, keptVars, storeVars, flags
  <2>2. \/ bgl'.pc = "list" /\ bgl'.since = bglCursor
        \/ bgl'.pc = "exited"
    <3>1. PICK n : n = bglCursor
      OBVIOUS
    <3>2. CASE bgl' = [bgl EXCEPT !.pc = "list", !.since = n]
      BY <1>0, <3>1, <3>2, SMT DEF BglLocals
    <3>3. CASE bgl' = [bgl EXCEPT !.pc = "exited"]
      BY <1>0, <3>3, SMT DEF BglLocals
    <3> QED
      BY <1>2, <3>1, <3>2, <3>3 DEF BglWake, BglExit, BglAt
  <2> QED
    BY <1>1, <2>1, <2>2 DEF BglAway
<1>3. CASE BglList
  <2>1. /\ client' = client /\ bgl.pc = "list" /\ bglCursor' = bglCursor
        /\ UNCHANGED <<issued, bglHeight, bglBlock, redisErrors>>
        /\ UNCHANGED <<records, indexed, bound, workerShutdown, restarts>>
    BY <1>3 DEF BglList, sharedVars, keptVars, storeVars, flags
  <2>2. PICK S, n : /\ S = {d \in SinceBlock(bgl.since) : BglConfirmed(d)} /\ n = LastBlock
    OBVIOUS
  <2>3. bgl' = [bgl EXCEPT !.pc = "next", !.last = n, !.txs = S]
    BY <1>3, <2>2 DEF BglList
  <2>4. bgl'.pc = "next" /\ bgl'.last = n /\ bgl'.txs = S
    BY <1>0, <2>3, SMT DEF BglLocals
  <2> QED
    BY <1>1, <2>1, <2>2, <2>4 DEF BglAway
<1>4. CASE BglListFails \/ BglAdvance
  <2>1. client' = client /\ bgl'.pc = "sleep"
        /\ \/ bgl.pc = "list" /\ bglCursor' = bglCursor
           \/ bgl.pc = "next" /\ bglCursor' = bgl.last
        /\ UNCHANGED <<issued, bglHeight, bglBlock, redisErrors>>
        /\ UNCHANGED <<records, indexed, bound, workerShutdown, restarts>>
    BY <1>4, BglAsleepFacts DEF BglListFails, BglAdvance, sharedVars, keptVars, storeVars, flags
  <2> QED
    BY <1>1, <2>1 DEF BglAway
<1>5. CASE BglLookupFails \/ BglAdvanceFails
  <2>1. client' = client /\ bgl.pc = "next" /\ redisErrors' = redisErrors + 1
        /\ UNCHANGED <<issued, bglHeight, bglBlock>>
        /\ UNCHANGED <<records, indexed, bound, workerShutdown, restarts>>
    BY <1>5 DEF BglLookupFails, BglAdvanceFails, CommandFails, storeVars, flags
  <2>2. bgl'.pc \in {"sleep", "next"}
    <3>1. CASE bgl' = BglAsleep
      BY <3>1, BglAsleepFacts
    <3>2. ASSUME NEW d, bgl' = [bgl EXCEPT !.pc = "next", !.txs = @ \ {d}, !.tx = d]
          PROVE  bgl'.pc = "next"
      BY <1>0, <3>2, SMT DEF BglLocals
    <3> QED
      BY <1>5, <3>1, <3>2, Zenon DEF BglLookupFails, BglAdvanceFails, BglTake
  <2> QED
    BY <1>1, <2>1, <2>2 DEF BglAway
<1>6. CASE BglSkip \/ BglStored
  <2>1. client' = [client EXCEPT ![BglScan] = Idle] /\ BglScanning /\ bglCursor' = bglCursor
        /\ UNCHANGED <<issued, bglHeight, bglBlock, redisErrors>>
        /\ UNCHANGED <<records, indexed, bound, workerShutdown, restarts>>
    BY <1>6 DEF BglSkip, BglStored, Consume, Call, BglScanning, keptVars, storeVars, flags
  <2>2. bgl'.pc = "next" /\ bgl'.last = bgl.last /\ bgl'.txs \subseteq bgl.txs
    <3>1. CASE bgl' = [bgl EXCEPT !.pc = "next"]
      BY <1>0, <3>1, SMT DEF BglLocals
    <3>2. ASSUME NEW S \in SUBSET bgl.txs, bgl' = [bgl EXCEPT !.pc = "next", !.txs = S]
          PROVE  bgl'.pc = "next" /\ bgl'.last = bgl.last /\ bgl'.txs \subseteq bgl.txs
      BY <1>0, <3>2, SMT DEF BglLocals
    <3>3. CASE BglStored
      <4>1. PICK S : S = IF Failed(BglScan) THEN {} ELSE bgl.txs
        OBVIOUS
      <4>2. bgl' = [bgl EXCEPT !.pc = "next", !.txs = S] /\ S \in SUBSET bgl.txs
        BY <3>3, <4>1 DEF BglStored
      <4> QED
        BY <3>2, <4>2
    <3> QED
      BY <1>6, <3>1, <3>3 DEF BglSkip, BglAt
  <2> QED
    BY <1>6, <2>1, <2>2 DEF BglAway, BglSkip, BglStored
<1>7. CASE BglKnown
  <2>1. PICK d \in bgl.txs : BglTake(d, "dedupe") /\ Call(BglScan, FindSourceTx(SourceTx[d]))
    BY <1>7 DEF BglKnown
  <2>2. PICK S : S = bgl.txs \ {d}
    OBVIOUS
  <2>3. bgl' = [bgl EXCEPT !.pc = "dedupe", !.txs = S, !.tx = d]
    BY <2>1, <2>2 DEF BglTake
  <2>4. bgl'.pc = "dedupe" /\ bgl'.last = bgl.last /\ bgl'.tx = d /\ bgl'.txs = S
    BY <1>0, <2>3, SMT DEF BglLocals
  <2>5. PICK c \in Client : /\ client' = [client EXCEPT ![BglScan] = c]
                            /\ c.cmd = "sscan" /\ c.op = NoOp /\ c.keys = {}
    BY <1>0, <2>1, FindSourceTxFacts DEF Call
  <2> QED
    BY <1>7, <2>2, <2>4, <2>5, <1>1 DEF BglSearches, BglKnown, keptVars, storeVars, flags
<1>8. CASE BglUnknown
  <2>1. PICK d \in bgl.txs : BglTake(d, "store") /\ Create(BglScan, d, "failed")
    BY <1>8 DEF BglUnknown
  <2>2. PICK S : S = bgl.txs \ {d}
    OBVIOUS
  <2>3. bgl' = [bgl EXCEPT !.pc = "store", !.txs = S, !.tx = d]
    BY <2>1, <2>2 DEF BglTake
  <2>4. bgl'.pc = "store" /\ bgl'.last = bgl.last /\ bgl'.txs = S
    BY <1>0, <2>3, SMT DEF BglLocals
  <2>5. PICK e : e = d
    OBVIOUS
  <2>7. e \in Deposits /\ "failed" \in Status
    BY <1>0, <2>1, <2>5
  <2>8. Create(BglScan, e, "failed")
    BY <2>1, <2>5
  <2>6. PICK o \in BridgeOperation :
          /\ o.status = "failed" /\ o.deposit = e /\ o.destTx = 0
          /\ \A p \in issued : p[1] # o.id
          /\ issued' = issued \union {<<o.id, e>>}
          /\ client' = [client EXCEPT ![BglScan] = UpsertCall(o)]
    BY <2>7, <2>8, CreateFacts
  <2> QED
    BY <1>8, <2>2, <2>4, <2>5, <2>6, <1>1 DEF BglCreates, BglUnknown, storeVars, flags
<1>9. CASE BglNew
  <2>1. PICK d : d = bgl.tx
    OBVIOUS
  <2>2. d \in Deposits /\ "pending" \in Status
    BY <1>0, <1>9, <2>1 DEF BglNew, BglAgrees
  <2>3. Create(BglScan, d, "pending")
    BY <1>9, <2>1 DEF BglNew
  <2>4. PICK o \in BridgeOperation :
          /\ o.status = "pending" /\ o.deposit = d /\ o.destTx = 0
          /\ \A p \in issued : p[1] # o.id
          /\ issued' = issued \union {<<o.id, d>>}
          /\ client' = [client EXCEPT ![BglScan] = UpsertCall(o)]
    BY <2>2, <2>3, CreateFacts
  <2>5. bgl'.pc = "store" /\ bgl'.last = bgl.last /\ bgl'.txs = bgl.txs
    BY <1>0, <1>9, SMT DEF BglNew, BglAt, BglLocals
  <2> QED
    BY <1>9, <2>1, <2>4, <2>5 DEF BglCreates, BglNew, storeVars, flags
<1> QED
  BY <1>2, <1>3, <1>4, <1>5, <1>6, <1>7, <1>8, <1>9 DEF BglStep

LEMMA BglAlways ==
  ASSUME TypeOK, Always, BglStep, UNCHANGED <<executorVars, evmVars>>
  PROVE  Always'
<1> USE Goroutines DEF Always, CopiesInv
<1>0. /\ SharedTypeOK /\ BglTypeOK /\ BglScan \in Scanners /\ BglScan \in Workers
      /\ client \in [Workers -> Client] /\ bgl.txs \subseteq BGLDeposits
      /\ \A o : o = NoOp => OldCopy(o)
  BY BglLocalsAre DEF TypeOK, SharedTypeOK, Scanners, OldCopy
<1>1. UNCHANGED <<evm, evmLogs, payouts, pc, op>>
  BY DEF evmVars, executorVars
<1>2. LogsAreMined'
  BY <1>1 DEF LogsAreMined, Mined
<1>3. CASE StoreStep(BglScan) /\ UNCHANGED bglVars
  BY <1>3, ReadAlways, WriteAlways DEF StoreStep
<1> SUFFICES ASSUME BglAway \/ BglSearches \/ BglCreates,
                    UNCHANGED <<records, indexed, bound, workerShutdown, restarts>>
             PROVE  Always'
  BY <1>0, <1>3, BglShapes
<1>4. ASSUME NEW c \in Client, client' = [client EXCEPT ![BglScan] = c]
      PROVE  client'[BglScan] = c /\ EvmAgrees'
  BY <1>0, <1>1, <1>4, EvmSteady
<1>5. CASE BglAway
  <2>1. /\ client' = [client EXCEPT ![BglScan] = Idle] /\ UNCHANGED issued
        /\ bgl'.pc \notin {"dedupe", "store"}
    BY <1>5 DEF BglAway
  <2>2. client'[BglScan] = Idle /\ EvmAgrees'
    BY <1>4, <2>1, IdleFacts
  <2>3. BglAgrees'
    BY <2>1, <2>2 DEF BglAgrees
  <2> QED
    BY <1>0, <1>1, <1>2, <2>1, <2>2, <2>3, IdleFacts, ScannerControl
<1>6. CASE BglSearches
  <2>1. /\ bgl'.pc = "dedupe" /\ bgl'.tx \in BGLDeposits /\ UNCHANGED issued
    BY <1>0, <1>6 DEF BglSearches
  <2>2. PICK c \in Client : /\ client' = [client EXCEPT ![BglScan] = c]
                            /\ c.cmd = "sscan" /\ c.op = NoOp /\ c.keys = {}
    BY <1>6 DEF BglSearches
  <2>3. client'[BglScan] = c /\ EvmAgrees'
    BY <1>4, <2>2
  <2>4. BglAgrees'
    BY <2>1, <2>2, <2>3 DEF BglAgrees, SearchReturns
  <2> QED
    BY <1>0, <1>1, <1>2, <2>1, <2>2, <2>3, <2>4, ScannerControl
<1>7. CASE BglCreates
  <2>1. PICK o \in BridgeOperation :
          /\ o.status \in {"pending", "failed"} /\ o.destTx = 0
          /\ \A p \in issued : p[1] # o.id
          /\ issued' = issued \union {<<o.id, o.deposit>>}
          /\ client' = [client EXCEPT ![BglScan] = UpsertCall(o)]
    BY <1>7 DEF BglCreates
  <2>2. PICK c \in Client : c = UpsertCall(o) /\ c.cmd = "set" /\ c.op = o
    BY UpsertCallFacts
  <2>3. client'[BglScan] = c /\ EvmAgrees' /\ bgl'.pc = "store"
    BY <1>4, <1>7, <2>1, <2>2 DEF BglCreates
  <2>4. BglAgrees'
    BY <2>1, <2>2, <2>3 DEF BglAgrees
  <2> QED
    BY <1>0, <1>1, <1>2, <2>1, <2>3, <2>4, CreateAlways
<1> QED
  BY <1>5, <1>6, <1>7

(***************************************************************************)
(* The EVM scanner outside the store.                                      *)
(***************************************************************************)

(* A batch starts without logs. *)
LEMMA BatchLogs ==
  ASSUME NEW f, NEW latest
  PROVE  Batch(f, latest).logs = <<>> /\ Batch(f, latest).pc \in {"sleep", "filter"}
<1>1. EvmAsleep.logs = <<>> /\ EvmAsleep.pc = "sleep"
  BY SMT DEF EvmAsleep
<1>2. CASE ~ (f < latest)
  BY <1>1, <1>2 DEF Batch
<1>3. CASE f < latest
  <2>1. PICK to : to = IF f + BlockBatch - 1 > latest THEN latest ELSE f + BlockBatch - 1
    OBVIOUS
  <2>2. Batch(f, latest) =
          [pc |-> "filter", from |-> f, latest |-> latest, logs |-> <<>>, to |-> to]
    BY <1>3, <2>1, Zenon DEF Batch
  <2> QED
    BY <2>2, SMT
<1> QED
  BY <1>2, <1>3

(* The logs in the hands of the scanner stay logs of the chain. *)
LEMMA MinedLogs ==
  ASSUME EvmTypeOK, ScanBounds, LogsAreMined, EvmStep
  PROVE  LogsAreMined'
<1>0. evm \in EvmLocals /\ evmLogs \in Seq(Log) /\ evmLogs' = evmLogs
  BY LocalsAre, LocalsStep DEF EvmTypeOK
<1>1. ASSUME evm'.logs = evm.logs PROVE LogsAreMined'
  BY <1>0, <1>1 DEF LogsAreMined, Mined
<1>2. ASSUME evm'.logs = <<>> PROVE LogsAreMined'
  BY <1>2 DEF LogsAreMined
<1>3. CASE EvmWake
  <2>1. evm'.logs = evm.logs
    BY <1>0, <1>3, SMT DEF EvmWake, EvmLocals
  <2> QED
    BY <1>1, <2>1
<1>4. CASE EvmExit \/ EvmIncoming \/ EvmNew \/ EvmOutgoing \/ EvmSettle
  <2>1. PICK next : evm' = [evm EXCEPT !.pc = next]
    BY <1>4 DEF EvmExit, EvmIncoming, EvmNew, EvmOutgoing, EvmSettle, EvmAt
  <2>2. evm'.logs = evm.logs
    BY <1>0, <2>1, SMT DEF EvmLocals
  <2> QED
    BY <1>1, <2>2
<1>5. CASE EvmLatest \/ EvmAdvance \/ EvmAdvanceFails \/ EvmCallFails
  <2>1. evm' = EvmAsleep \/ \E f, latest : evm' = Batch(f, latest)
    BY <1>5 DEF EvmLatest, EvmAdvance, EvmAdvanceFails, EvmCallFails, EvmDone
  <2>2. CASE evm' = EvmAsleep
    <3>1. EvmAsleep.logs = <<>>
      BY SMT DEF EvmAsleep
    <3> QED
      BY <1>2, <2>2, <3>1
  <2>3. ASSUME NEW f, NEW latest, evm' = Batch(f, latest) PROVE LogsAreMined'
    BY <1>2, <2>3, BatchLogs
  <2> QED
    BY <2>1, <2>2, <2>3
<1>6. CASE EvmFilter
  <2>1. PICK m \in 0 .. Len(evmLogs), s \in Seq(Log) :
          /\ m + Len(s) <= Len(evmLogs)
          /\ \A j \in 1 .. Len(s) : s[j] = evmLogs[m + j]
          /\ evm' = [evm EXCEPT !.pc = "next", !.logs = s]
    BY <1>6, FilterFacts
  <2>2. evm'.logs = s
    BY <1>0, <2>1, SMT DEF EvmLocals
  <2>3. /\ Len(s) \in Nat /\ DOMAIN s = 1 .. Len(s)
        /\ Len(evmLogs) \in Nat /\ DOMAIN evmLogs = 1 .. Len(evmLogs)
    BY <1>0, LenProperties
  <2>4. ASSUME NEW j \in DOMAIN s PROVE m + j \in DOMAIN evmLogs /\ s[j] = evmLogs[m + j]
    BY <2>1, <2>3
  <2> QED
    BY <1>0, <2>2, <2>4 DEF LogsAreMined, Mined
<1>7. CASE EvmSkip \/ EvmBreak \/ EvmStored
  <2>1. PICK s : /\ evm' = [evm EXCEPT !.pc = "next", !.logs = s]
                 /\ s = <<>> \/ s = Tail(evm.logs)
    BY <1>7 DEF EvmBreak, EvmSkip, EvmStored, NextLog, BreakOut
  <2>2. evm'.logs = s
    BY <1>0, <2>1, SMT DEF EvmLocals
  <2>3. CASE s = Tail(evm.logs) /\ evm.logs # <<>>
    <3>1. /\ DOMAIN s = 1 .. Len(evm.logs) - 1 /\ \A j \in DOMAIN s : s[j] = evm.logs[j + 1]
      BY <2>3, TailFacts
    <3>2. evm.logs \in Seq(Log) /\ Len(evm.logs) \in Nat /\ DOMAIN evm.logs = 1 .. Len(evm.logs)
      BY LocalsAre
    <3>3. \A j \in DOMAIN s : j + 1 \in DOMAIN evm.logs
      BY <3>1, <3>2
    <3> QED
      BY <1>0, <2>2, <3>1, <3>3 DEF LogsAreMined, Mined
  <2>4. CASE s = <<>>
    BY <1>2, <2>2, <2>4
  <2>5. evm.logs # <<>>
    BY <1>7 DEF EvmSkip, EvmBreak, EvmStored, ScanBounds, AtLog
  <2> QED
    BY <2>1, <2>3, <2>4, <2>5
<1>8. CASE UNCHANGED evmVars
  BY <1>1, <1>8 DEF evmVars
<1> QED
  BY <1>3, <1>4, <1>5, <1>6, <1>7, <1>8 DEF EvmStep

EvmAway ==
  /\ client' = [client EXCEPT ![EvmScan] = Idle]
  /\ ~ AtLog'
  /\ UNCHANGED issued
  /\ redisErrors' \in {redisErrors, redisErrors + 1}

EvmSearches ==
  /\ \E c \in Client :
       /\ client' = [client EXCEPT ![EvmScan] = c]
       /\ c.cmd = "sscan" /\ c.op = NoOp /\ c.keys = {}
       /\ \/ evm'.pc = "dedupe" /\ Transfer' \in EVMDeposits
          \/ /\ evm'.pc = "settle" /\ Transfer' \notin EVMDeposits
             /\ c.field = "DestTxHash" /\ c.value = Transfer'
  /\ UNCHANGED <<issued, redisErrors>>

EvmSettles ==
  /\ evm.pc = "settle" /\ evm'.pc = "store"
  /\ \E o, found \in BridgeOperation :
       /\ found = client[EvmScan].op
       /\ o.id = found.id /\ o.deposit = found.deposit /\ o.destTx = found.destTx
       /\ \/ found.status = "executing" /\ o.status = "success"
          \/ found.status = "returning" /\ o.status = "returnsuccess"
       /\ client' = [client EXCEPT ![EvmScan] = ChangeCall(o, found.status)]
  /\ UNCHANGED <<issued, redisErrors>>

EvmCreates ==
  /\ evm'.pc = "store"
  /\ \E o \in BridgeOperation :
       /\ o.status = "pending" /\ o.destTx = 0 /\ o.deposit \in EVMDeposits
       /\ \A p \in issued : p[1] # o.id
       /\ issued' = issued \union {<<o.id, o.deposit>>}
       /\ client' = [client EXCEPT ![EvmScan] = UpsertCall(o)]
  /\ UNCHANGED redisErrors

LEMMA EvmShapes ==
  ASSUME SharedTypeOK, EvmTypeOK, ScanBounds, EvmAgrees, EvmStep
  PROVE  \/ StoreStep(EvmScan) /\ UNCHANGED evmVars
         \/ /\ EvmAway \/ EvmSearches \/ EvmSettles \/ EvmCreates
            /\ Returned(EvmScan)
            /\ UNCHANGED <<records, indexed, bound, workerShutdown, restarts>>
<1>0. /\ evm \in EvmLocals /\ EVMDeposits \subseteq Deposits /\ "pending" \in Status
      /\ EvmScan \in Workers /\ client \in [Workers -> Client]
  BY Goroutines, LocalsAre DEF Status, SharedTypeOK
<1>1. ~ AtLog => client = [client EXCEPT ![EvmScan] = Idle] /\ Returned(EvmScan)
  BY <1>0, IdleFacts DEF EvmAgrees, Returned
<1>2. ASSUME NEW next, evm' = [evm EXCEPT !.pc = next]
      PROVE  evm'.pc = next /\ Transfer' = Transfer
  <2>1. evm'.pc = next /\ evm'.logs = evm.logs
    BY <1>0, <1>2, SMT DEF EvmLocals
  <2> QED
    BY <2>1 DEF Transfer
<1>3. CASE EvmWake \/ EvmExit \/ EvmLatest \/ EvmFilter \/ EvmCallFails
  <2>1. client' = client /\ ~ AtLog /\ UNCHANGED <<issued, redisErrors>>
        /\ UNCHANGED <<records, indexed, bound, workerShutdown, restarts>>
    BY <1>3 DEF EvmWake, EvmExit, EvmLatest, EvmFilter, EvmCallFails, AtLog,
                sharedVars, keptVars, storeVars, flags
  <2>2. ~ AtLog'
    <3>1. CASE EvmWake
      BY <1>0, <3>1, SMT DEF EvmWake, EvmLocals, AtLog
    <3>2. CASE EvmExit
      BY <1>2, <3>2 DEF EvmExit, EvmAt, AtLog
    <3>3. CASE EvmLatest
      BY <3>3, BatchLogs DEF EvmLatest, AtLog
    <3>4. CASE EvmFilter
      <4>1. PICK s : evm' = [evm EXCEPT !.pc = "next", !.logs = s]
        BY <3>4 DEF EvmFilter
      <4> QED
        BY <1>0, <4>1, SMT DEF EvmLocals, AtLog
    <3>5. CASE EvmCallFails
      BY <3>5, AsleepFacts DEF EvmCallFails, AtLog
    <3> QED
      BY <1>3, <3>1, <3>2, <3>3, <3>4, <3>5
  <2> QED
    BY <1>1, <2>1, <2>2 DEF EvmAway
<1>4. CASE EvmAdvance \/ EvmAdvanceFails
  <2>1. client' = client /\ ~ AtLog /\ UNCHANGED issued
        /\ redisErrors' \in {redisErrors, redisErrors + 1}
        /\ UNCHANGED <<records, indexed, bound, workerShutdown, restarts>>
    BY <1>4 DEF EvmAdvance, EvmAdvanceFails, EvmDone, CommandFails, AtLog, storeVars, flags
  <2>2. ~ AtLog'
    BY <1>4, BatchLogs DEF EvmAdvance, EvmAdvanceFails, EvmDone, AtLog
  <2> QED
    BY <1>1, <2>1, <2>2 DEF EvmAway
<1>5. CASE EvmSkip \/ EvmBreak \/ EvmStored
  <2>1. client' = [client EXCEPT ![EvmScan] = Idle] /\ UNCHANGED <<issued, redisErrors>>
        /\ UNCHANGED <<records, indexed, bound, workerShutdown, restarts>>
    BY <1>5 DEF EvmSkip, EvmBreak, EvmStored, Consume, Call, keptVars, storeVars, flags
  <2>2. PICK s : evm' = [evm EXCEPT !.pc = "next", !.logs = s]
    BY <1>5 DEF EvmBreak, EvmSkip, EvmStored, NextLog, BreakOut
  <2>3. ~ AtLog'
    BY <1>0, <2>2, SMT DEF EvmLocals, AtLog
  <2> QED
    BY <1>5, <2>1, <2>3 DEF EvmAway, EvmSkip, EvmBreak, EvmStored
<1>6. CASE EvmIncoming
  <2>1. Transfer \in Deposits /\ Transfer \in EVMDeposits
    BY <1>0, <1>6 DEF EvmIncoming
  <2>2. PICK c \in Client : /\ client' = [client EXCEPT ![EvmScan] = c]
                            /\ c.cmd = "sscan" /\ c.op = NoOp /\ c.keys = {}
    BY <1>6, <2>1, FindSourceTxFacts DEF EvmIncoming, Call
  <2>3. evm'.pc = "dedupe" /\ Transfer' = Transfer
    BY <1>2, <1>6 DEF EvmIncoming, EvmAt
  <2> QED
    BY <1>1, <1>6, <2>1, <2>2, <2>3 DEF AtLog, EvmSearches, EvmIncoming, keptVars, storeVars, flags
<1>7. CASE EvmOutgoing
  <2>1. Transfer \in Nat /\ Transfer \notin EVMDeposits
    BY <1>7, HeadFacts DEF EvmOutgoing
  <2>2. PICK c \in Client : /\ client' = [client EXCEPT ![EvmScan] = c]
                            /\ c.cmd = "sscan" /\ c.op = NoOp /\ c.keys = {}
                            /\ c.field = "DestTxHash" /\ c.value = Transfer
    BY <1>7, <2>1, FindDestTxFacts DEF EvmOutgoing, Call
  <2>3. evm'.pc = "settle" /\ Transfer' = Transfer
    BY <1>2, <1>7 DEF EvmOutgoing, EvmAt
  <2> QED
    BY <1>1, <1>7, <2>1, <2>2, <2>3 DEF AtLog, EvmSearches, EvmOutgoing, keptVars, storeVars, flags
<1>8. CASE EvmNew
  <2>1. PICK d : d = Transfer
    OBVIOUS
  <2>2. d \in Deposits /\ d \in EVMDeposits
    BY <1>0, <1>8, <2>1 DEF EvmNew, EvmAgrees
  <2>3. Create(EvmScan, d, "pending")
    BY <1>8, <2>1 DEF EvmNew
  <2>4. PICK o \in BridgeOperation :
          /\ o.status = "pending" /\ o.deposit = d /\ o.destTx = 0
          /\ \A p \in issued : p[1] # o.id
          /\ issued' = issued \union {<<o.id, d>>}
          /\ client' = [client EXCEPT ![EvmScan] = UpsertCall(o)]
    BY <1>0, <2>2, <2>3, CreateFacts
  <2>5. evm'.pc = "store"
    BY <1>2, <1>8 DEF EvmNew, EvmAt
  <2> QED
    BY <1>8, <2>2, <2>4, <2>5 DEF EvmCreates, EvmNew, storeVars, flags
<1>9. CASE EvmSettle
  <2>1. PICK found : found = client[EvmScan].op
    OBVIOUS
  <2>2. /\ found \in BridgeOperation
        /\ \E o \in BridgeOperation :
             /\ o.id = found.id /\ o.deposit = found.deposit /\ o.destTx = found.destTx
             /\ \/ found.status = "executing" /\ o.status = "success"
                \/ found.status = "returning" /\ o.status = "returnsuccess"
             /\ client' = [client EXCEPT ![EvmScan] = ChangeCall(o, found.status)]
    BY <1>9, <2>1, SettleFacts
  <2>3. evm.pc = "settle" /\ evm'.pc = "store"
    BY <1>2, <1>9 DEF EvmSettle, EvmAt
  <2> QED
    BY <1>9, <2>1, <2>2, <2>3 DEF EvmSettles, EvmSettle, keptVars, storeVars, flags
<1> QED
  BY <1>3, <1>4, <1>5, <1>6, <1>7, <1>8, <1>9 DEF EvmStep

LEMMA EvmAlways ==
  ASSUME TypeOK, ScanBounds, Always, EvmStep, UNCHANGED <<executorVars, bglVars>>
  PROVE  Always'
<1> USE Goroutines DEF Always, CopiesInv
<1>0. /\ SharedTypeOK /\ EvmTypeOK /\ EvmScan \in Scanners /\ EvmScan \in Workers
      /\ client \in [Workers -> Client] /\ UNCHANGED evmLogs
      /\ \A o : o = NoOp => OldCopy(o)
  BY LocalsStep DEF TypeOK, SharedTypeOK, Scanners, OldCopy
<1>1. UNCHANGED <<bgl, payouts, pc, op>>
  BY DEF bglVars, executorVars
<1>2. LogsAreMined'
  BY <1>0, MinedLogs
<1>3. CASE StoreStep(EvmScan) /\ UNCHANGED evmVars
  BY <1>3, ReadAlways, WriteAlways DEF StoreStep
<1> SUFFICES ASSUME EvmAway \/ EvmSearches \/ EvmSettles \/ EvmCreates,
                    UNCHANGED <<records, indexed, bound, workerShutdown, restarts>>
             PROVE  Always'
  BY <1>0, <1>3, EvmShapes
<1>4. ASSUME NEW c \in Client, client' = [client EXCEPT ![EvmScan] = c]
      PROVE  client'[EvmScan] = c /\ BglAgrees'
  BY <1>0, <1>1, <1>4, BglSteady
<1>5. CASE EvmAway
  <2>1. /\ client' = [client EXCEPT ![EvmScan] = Idle] /\ UNCHANGED issued /\ ~ AtLog'
    BY <1>5 DEF EvmAway
  <2>2. client'[EvmScan] = Idle /\ BglAgrees'
    BY <1>4, <2>1, IdleFacts
  <2>3. EvmAgrees'
    BY <2>1, <2>2 DEF EvmAgrees, AtLog
  <2> QED
    BY <1>0, <1>2, <2>1, <2>2, <2>3, IdleFacts, ScannerControl
<1>6. CASE EvmSearches
  <2>1. PICK c \in Client :
          /\ client' = [client EXCEPT ![EvmScan] = c]
          /\ c.cmd = "sscan" /\ c.op = NoOp /\ c.keys = {}
          /\ \/ evm'.pc = "dedupe" /\ Transfer' \in EVMDeposits
             \/ /\ evm'.pc = "settle" /\ Transfer' \notin EVMDeposits
                /\ c.field = "DestTxHash" /\ c.value = Transfer'
    BY <1>6 DEF EvmSearches
  <2>2. client'[EvmScan] = c /\ BglAgrees' /\ UNCHANGED issued
    BY <1>4, <1>6, <2>1 DEF EvmSearches
  <2>3. EvmAgrees'
    BY <2>1, <2>2 DEF EvmAgrees, SearchReturns, AtLog
  <2> QED
    BY <1>0, <1>2, <2>1, <2>2, <2>3, ScannerControl
<1>7. CASE EvmSettles
  <2>1. PICK o \in BridgeOperation, found \in BridgeOperation :
          /\ found = client[EvmScan].op
          /\ o.id = found.id /\ o.deposit = found.deposit /\ o.destTx = found.destTx
          /\ \/ found.status = "executing" /\ o.status = "success"
             \/ found.status = "returning" /\ o.status = "returnsuccess"
          /\ client' = [client EXCEPT ![EvmScan] = ChangeCall(o, found.status)]
    BY <1>7 DEF EvmSettles
  <2>2. found.status \in Status
    BY <2>1 DEF Status
  <2>3. PICK c \in Client :
          /\ c = ChangeCall(o, found.status)
          /\ c.cmd = "srem" /\ c.op = o /\ c.prev = found.status /\ c.keys = {}
    BY <2>2, ChangeCallFacts
  <2>4. /\ client' = [client EXCEPT ![EvmScan] = c]
        /\ evm.pc = "settle" /\ evm'.pc = "store" /\ UNCHANGED issued
    BY <1>7, <2>1, <2>3 DEF EvmSettles
  <2>5. client'[EvmScan] = c /\ BglAgrees'
    BY <1>4, <2>4
  <2>6. EvmAgrees'
    <3>1. Settlement(c)
      BY <2>1, <2>3 DEF Settlement, Writing
    <3> QED
      BY <2>3, <2>4, <2>5, <3>1, Zenon DEF EvmAgrees, AtLog, Settlement
  <2>7. found # NoOp /\ found.destTx = Transfer /\ Transfer \in Nat \ {0}
        /\ Mined(Transfer)
    <3>1. evm.logs # <<>> /\ Transfer \notin EVMDeposits
      BY <2>4 DEF ScanBounds, AtLog, EvmAgrees
    <3>2. 1 \in DOMAIN evm.logs /\ Transfer = evm.logs[1].transfer /\ Transfer \in Nat \ {0}
      BY <1>0, <3>1, HeadFacts
    <3> QED
      BY <2>1, <2>4, <3>2 DEF EvmAgrees, LogsAreMined
  <2>8. GoodCopy(o)'
    <3>1. Truthful(found) /\ <<found.id, found.deposit>> \in issued
      BY <1>0, <2>1, <2>7 DEF CopiesTruthful, Traced, IsIssued
    <3>2. Truthful(o)
      BY <2>1, <2>7, <3>1 DEF Truthful, NamesPayout
    <3>3. Grows
      BY <1>0, <1>1, <2>4, GrowsSteady
    <3>4. Truthful(o)'
      BY <3>2, <3>3, TruthfulStays
    <3> QED
      BY <2>1, <2>4, <3>1, <3>4 DEF GoodCopy
  <2>9. \A p : p = c.op => OldCopy(p) \/ GoodCopy(p)'
    BY <2>3, <2>8
  <2>10. /\ c.op # NoOp => /\ client[EvmScan].op # NoOp /\ c.op.id = client[EvmScan].op.id
                           /\ c.op.status \notin {"pending", "failed"}
         /\ c.cmd \notin {"set", "sadd"}
    BY <2>1, <2>3, <2>7
  <2> QED
    BY <1>0, <1>2, <2>3, <2>4, <2>5, <2>6, <2>9, <2>10, ScannerControl
<1>8. CASE EvmCreates
  <2>1. PICK o \in BridgeOperation :
          /\ o.status = "pending" /\ o.destTx = 0
          /\ \A p \in issued : p[1] # o.id
          /\ issued' = issued \union {<<o.id, o.deposit>>}
          /\ client' = [client EXCEPT ![EvmScan] = UpsertCall(o)]
    BY <1>8 DEF EvmCreates
  <2>2. PICK c \in Client :
          c = UpsertCall(o) /\ c.cmd = "set" /\ c.op = o /\ c.prev = "pending"
    BY UpsertCallFacts
  <2>3. client'[EvmScan] = c /\ BglAgrees' /\ evm'.pc = "store"
    BY <1>4, <1>8, <2>1, <2>2 DEF EvmCreates
  <2>4. EvmAgrees'
    BY <2>1, <2>2, <2>3 DEF EvmAgrees, AtLog
  <2> QED
    BY <1>0, <1>2, <2>1, <2>3, <2>4, CreateAlways
<1> QED
  BY <1>5, <1>6, <1>7, <1>8

(***************************************************************************)
(* The chains, and the end of the process.                                 *)
(***************************************************************************)

(* A block does not touch the bridge; what was mined stays mined.          *)
LEMMA MineAlways ==
  ASSUME TypeOK, Always, UNCHANGED <<sharedVars, executorVars, bgl, evm>>,
         \A t : Mined(t) => Mined(t)'
  PROVE  Always'
<1> USE DEF Always, CopiesInv
<1>1. UNCHANGED <<records, indexed, issued, client, workerShutdown, pc, op, payouts>>
  BY DEF sharedVars, keptVars, storeVars, flags, executorVars
<1>2. Traced' /\ CopiesTruthful'
  <2>1. Grows
    BY <1>1 DEF Grows
  <2>2. OnlyGoodCopies
    BY <1>1 DEF OnlyGoodCopies, OldCopy
  <2>3. OnlyOldKeys
    BY <1>1 DEF OnlyOldKeys
  <2> QED
    BY <1>1, <2>1, <2>2, <2>3, TracedStep DEF Traced
<1>3. ExecutorAgrees' /\ FetchedArePending' /\ BglAgrees' /\ EvmAgrees'
  BY <1>1, ExecSteady, BglSteady, EvmSteady
<1>4. Filed' /\ Moved' /\ LogsAreMined'
  BY <1>1 DEF Filed, Moved, LogsAreMined
<1>5. NewAreUntouched'
  BY <1>1, Zenon DEF NewAreUntouched, Creating, Untouched
<1> QED
  BY <1>2, <1>3, <1>4, <1>5

LEMMA ResetAlways ==
  ASSUME TypeOK, Always, SharedReset, ExecutorReset, BglReset, EvmReset
  PROVE  Always'
<1> USE DEF Always, CopiesInv
<1>1. /\ UNCHANGED <<records, indexed, issued, payouts, evmLogs>>
      /\ pc' = "poll" /\ op' = NoOp
      /\ bgl' = BglAsleep /\ evm' = EvmAsleep
      /\ client' = [w \in Workers |-> Idle]
  BY DEF SharedReset, ExecutorReset, BglReset, EvmReset, keptVars, storeVars, evmChain
<1>2. \A w \in Workers : client'[w] = Idle
  BY <1>1
<1>3. Traced' /\ CopiesTruthful'
  <2>1. Grows
    BY <1>1, GrowsSteady
  <2>2. OnlyGoodCopies
    BY <1>1, <1>2, IdleFacts DEF OnlyGoodCopies, OldCopy
  <2>3. OnlyOldKeys
    BY <1>1, <1>2, IdleFacts DEF OnlyOldKeys
  <2> QED
    BY <1>1, <2>1, <2>2, <2>3, TracedStep DEF Traced
<1>4. ExecutorAgrees' /\ FetchedArePending' /\ BglAgrees' /\ EvmAgrees'
  BY <1>1, <1>2, Goroutines, BglAsleepFacts, AsleepFacts
     DEF ExecutorAgrees, FetchedArePending, BglAgrees, EvmAgrees, AtLog
<1>5. Filed' /\ Moved'
  BY <1>1 DEF Filed, Moved
<1>6. LogsAreMined'
  <2>1. EvmAsleep.logs = <<>>
    BY SMT DEF EvmAsleep
  <2> QED
    BY <1>1, <2>1 DEF LogsAreMined
<1>7. NewAreUntouched'
  BY <1>2, IdleFacts, Goroutines DEF NewAreUntouched, Creating, Scanners
<1> QED
  BY <1>3, <1>4, <1>5, <1>6, <1>7

LEMMA AlwaysStep ==
  ASSUME TypeOK, ScanBounds, Always, [Next]_vars
  PROVE  Always'
<1>1. CASE ExecutorStep /\ UNCHANGED <<bglVars, evmVars>>
  BY <1>1, ExecutorAlways
<1>2. CASE BglStep /\ UNCHANGED <<executorVars, evmVars>>
  BY <1>2, BglAlways
<1>3. CASE EvmStep /\ UNCHANGED <<executorVars, bglVars>>
  BY <1>3, EvmAlways
<1>4. CASE BglMine /\ UNCHANGED <<executorVars, evmVars>>
  BY <1>4, MineAlways DEF BglMine, evmVars, Mined
<1>5. CASE /\ EvmMine({t \in EVMDeposits \union EvmPayouts : ~ Mined(t)})
           /\ UNCHANGED <<executorVars, bglVars>>
  <2>1. PICK new : new = {t \in EVMDeposits \union EvmPayouts : ~ Mined(t)}
    OBVIOUS
  <2>2. new \in SUBSET Transfers /\ EvmMine(new)
    BY <1>5, <2>1, NewTransfers DEF TypeOK
  <2>3. /\ \A i \in DOMAIN evmLogs : i \in DOMAIN evmLogs' /\ evmLogs'[i] = evmLogs[i]
        /\ UNCHANGED <<sharedVars, evm>>
    BY <2>2, MineFacts DEF TypeOK
  <2>4. \A t : Mined(t) => Mined(t)'
    BY <2>3 DEF Mined
  <2> QED
    BY <1>5, <2>3, <2>4, MineAlways DEF bglVars
<1>6. CASE SharedReset /\ ExecutorReset /\ BglReset /\ EvmReset
  BY <1>6, ResetAlways
<1>7. CASE UNCHANGED vars
  BY <1>7, MineAlways DEF vars, bglVars, evmVars, Mined
<1> QED
  BY <1>1, <1>2, <1>3, <1>4, <1>5, <1>6, <1>7 DEF Next

LEMMA InitAlways == Init => ScanBounds /\ Confirmations <= bglHeight /\ Always
<1> SUFFICES ASSUME Init PROVE ScanBounds /\ Confirmations <= bglHeight /\ Always
  OBVIOUS
<1>1. /\ records = [k \in Keys |-> NoOp] /\ indexed = {} /\ issued = {}
      /\ client = [w \in Workers |-> Idle] /\ pc = "poll" /\ op = NoOp /\ payouts = <<>>
      /\ bglHeight = Confirmations /\ bgl = BglAsleep
      /\ evmHeight = FirstHeight /\ evmCursor = FirstHeight /\ evm = EvmAsleep
  BY DEF Init, SharedInit, ExecutorInit, BglInit
<1>2. \A w \in Workers : client[w] = Idle
  BY <1>1
<1>3. ScanBounds
  BY <1>1, AsleepFacts, ConstantFacts, SMT DEF ScanBounds, AtLog, Scanning, NoCursor
<1>4. Confirmations <= bglHeight
  BY <1>1, ScanBGLAssumption, SMT
<1>5. \A k \in Keys : records[k] = NoOp
  BY <1>1
<1>6. DOMAIN payouts = {}
  BY <1>1, SMT
<1>7. Traced /\ CopiesTruthful /\ Filed
  BY <1>1, <1>2, <1>5, <1>6, IdleFacts DEF Traced, IsIssued, CopiesTruthful, Filed
<1>8. ExecutorAgrees /\ FetchedArePending /\ BglAgrees /\ EvmAgrees /\ Moved
  BY <1>1, <1>2, Goroutines, BglAsleepFacts, AsleepFacts
     DEF ExecutorAgrees, FetchedArePending, BglAgrees, EvmAgrees, AtLog, Moved
<1>9. LogsAreMined
  <2>1. EvmAsleep.logs = <<>>
    BY SMT DEF EvmAsleep
  <2> QED
    BY <1>1, <2>1 DEF LogsAreMined
<1>10. NewAreUntouched
  BY <1>2, IdleFacts, Goroutines DEF NewAreUntouched, Creating, Scanners
<1> QED
  BY <1>3, <1>4, <1>7, <1>8, <1>9, <1>10 DEF Always, CopiesInv

(***************************************************************************)
(* As long as nothing fails.  First: an operation that the worker is done  *)
(* with does not come back to it.                                          *)
(***************************************************************************)

(* What BridgeInv says besides CalmInv. *)
Steady == TypeOK /\ ScanBounds /\ Confirmations <= bglHeight /\ Always

(* No scanner is about to add the first key of operation id. *)
NotNew(id) == \A w \in Scanners : Creating(w) => client[w].op.id # id

(* A command, answered or failed. *)
LEMMA ClosedOfStore ==
  ASSUME Steady, NEW w \in {Exec, BglScan, EvmScan},
         StoreStep(w), UNCHANGED <<executorVars, bglVars, evmVars>>,
         NEW id \in OpIds, Closed(id), NotNew(id)
  PROVE  Closed(id)'
<1> USE Goroutines DEF Steady, Always, CopiesInv
<1>0. SharedTypeOK /\ w \in Workers /\ PendingKey(id) = <<"pending", id>>
  BY DEF TypeOK, PendingKey
<1> DEFINE b == client[w]
<1>1. UNCHANGED <<pc, op>>
  BY DEF executorVars
<1>2. CASE SScan(w) \/ Get(w)
  <2>1. PICK c \in Client :
          /\ client' = [client EXCEPT ![w] = c]
          /\ \A k \in c.keys : k \in b.keys \/ (k \in indexed /\ k[1] \in b.todo)
          /\ \/ c.op = b.op \/ c.op = NoOp
             \/ \E k \in b.keys : records[k] # NoOp /\ c.op = records[k] /\ Matches(records[k], b)
    BY <1>0, <1>2, ReadStep
  <2>2. client'[w] = c /\ \A v \in Workers : v # w => client'[v] = client[v]
    BY <1>0, <2>1 DEF SharedTypeOK
  <2>3. indexed' = indexed
    BY <1>0, <1>2, ReadStep
  <2>4. CASE w # Exec
    BY <1>1, <2>2, <2>3, <2>4 DEF Closed, PendingKey
  <2>5. CASE w = Exec
    <3>1. pc = "fetch"
      BY <1>0, <1>2, <2>5, ReadStep, Readers
    <3>2. PendingKey(id) \notin c.keys
      BY <2>1, <2>5 DEF Closed
    <3>3. c.op # NoOp => c.op.id # id
      <4>1. CASE c.op = b.op
        BY <2>5, <3>1, <4>1 DEF Closed
      <4>2. ASSUME NEW k \in b.keys, records[k] # NoOp, c.op = records[k]
            PROVE  c.op.id # id
        <5>1. k \in Keys /\ k[1] = "pending"
          BY <1>0, <2>5, <3>1, <4>2, ClientType DEF ExecutorAgrees
        <5>2. k = <<"pending", k[2]>> /\ c.op.id = k[2]
          BY <4>2, <5>1 DEF Filed, Keys
        <5>3. k # <<"pending", id>>
          BY <1>0, <2>5, <4>2 DEF Closed
        <5> QED
          BY <5>2, <5>3
      <4> QED
        BY <2>1, <4>1, <4>2
    <3> QED
      BY <1>1, <2>2, <2>3, <2>5, <3>1, <3>2, <3>3 DEF Closed, PendingKey
  <2> QED
    BY <2>4, <2>5
(* A write may only add the key of an operation about to be created. *)
<1>3. ASSUME NEW c, Writes(b, c) PROVE PendingKey(id) \notin indexed'
  <2>1. CASE b.cmd = "sadd"
    <3>1. b.op.status = "pending" => b.op.id # id
      BY <2>1, Writers DEF Writing, NotNew, Scanners, Creating, Settlement
    <3> QED
      BY <1>0, <1>3, <2>1, <3>1 DEF Writes, Closed
  <2>2. CASE b.cmd # "sadd"
    BY <1>3, <2>2 DEF Writes, Closed
  <2> QED
    BY <2>1, <2>2
<1>4. ASSUME NEW c \in Client, client' = [client EXCEPT ![w] = c],
             c.keys \subseteq b.keys, Writing(b) \/ c.op = NoOp,
             PendingKey(id) \notin indexed'
      PROVE  Closed(id)'
  <2>1. client'[w] = c /\ \A v \in Workers : v # w => client'[v] = client[v]
    BY <1>0, <1>4 DEF SharedTypeOK
  <2>2. w = Exec /\ Writing(b) => pc \in {"mark", "saved"}
    BY Writers
  <2> QED
    BY <1>1, <1>4, <2>1, <2>2 DEF Closed, PendingKey
<1>5. CASE Write(w)
  <2>1. PICK c \in Client : client' = [client EXCEPT ![w] = c] /\ Writes(b, c)
    BY <1>0, <1>5, WriteFacts
  <2>2. Writing(b) /\ c.keys = b.keys
    BY <1>0, <1>5, <2>1, WriteFacts DEF Writes
  <2> QED
    BY <1>3, <1>4, <2>1, <2>2
<1>6. CASE RedisFails(w)
  <2>1. /\ client' = [client EXCEPT ![w] = Error]
        /\ indexed' = indexed \/ \E c \in Client : Writes(b, c)
    BY <1>0, <1>6, FailFacts
  <2>2. PendingKey(id) \notin indexed'
    BY <1>3, <2>1 DEF Closed
  <2>3. Error \in Client /\ Error.keys \subseteq b.keys /\ Error.op = NoOp
    BY ErrorFacts
  <2> QED
    BY <1>4, <2>1, <2>2, <2>3
<1> QED
  BY <1>2, <1>5, <1>6 DEF StoreStep

(* A command that is answered: a save that was not moved on from srem yet  *)
(* is none of an operation that is gone. *)
LEMMA GoneOfStore ==
  ASSUME Steady, NEW w \in {Exec, BglScan, EvmScan},
         SScan(w) \/ Get(w) \/ Write(w), UNCHANGED <<executorVars, bglVars, evmVars>>,
         NEW id \in OpIds, Gone(id), NotNew(id)
  PROVE  Gone(id)'
<1> USE Goroutines DEF Steady, Always, CopiesInv
<1>0. SharedTypeOK /\ w \in Workers
  BY DEF TypeOK
<1>1. UNCHANGED <<pc, op>> /\ Closed(id)'
  BY ClosedOfStore DEF executorVars, StoreStep, Gone
<1>2. client[Exec].cmd = "ok" => client'[Exec] = client[Exec]
  <2>1. client[w].cmd # "ok" /\ \E c : client' = [client EXCEPT ![w] = c]
    <3>1. CASE SScan(w) \/ Get(w)
      BY <1>0, <3>1, ReadStep
    <3>2. CASE Write(w)
      BY <1>0, <3>2, WriteFacts DEF Writing
    <3> QED
      BY <3>1, <3>2
  <2> QED
    BY <1>0, <2>1 DEF SharedTypeOK
<1> QED
  BY <1>1, <1>2 DEF Gone, Handling

(* The worker moves on without the store. *)
LEMMA ClosedOfExecutor ==
  ASSUME Steady, ExecutorStep, ~ (StoreStep(Exec) /\ UNCHANGED executorVars),
         NEW id \in OpIds, Closed(id)
  PROVE  Closed(id)'
<1> USE Goroutines DEF Steady, Always, CopiesInv
<1>0. client \in [Workers -> Client] /\ PendingKey(id)' = PendingKey(id)
  BY DEF TypeOK, SharedTypeOK, PendingKey
<1>1. CASE Poll
  <2>1. client'[Exec] = FindPending /\ indexed' = indexed
    BY <1>0, <1>1 DEF Poll, Call, keptVars, storeVars
  <2> QED
    BY <1>0, <2>1, FindPendingFacts DEF Closed
<1>2. CASE Fetch \/ TakesNote
  <2>1. client'[Exec] = Idle /\ indexed' = indexed
    BY <1>0, <1>2 DEF Fetch, TakesNote, StoreSame, Consume, Call, keptVars, storeVars
  <2> QED
    BY <1>0, <2>1, IdleFacts DEF Closed
<1>3. CASE GoesOn
  <2>1. client' = client /\ indexed' = indexed /\ pc' # "fetch"
    BY <1>3 DEF GoesOn, StoreSame
  <2> QED
    BY <1>0, <2>1 DEF Closed
<1>4. ASSUME NEW o \in BridgeOperation, NEW next, Saves(o, next) PROVE Closed(id)'
  <2>1. client'[Exec] = ChangeCall(o, "pending") /\ indexed' = indexed /\ pc' # "fetch"
    BY <1>0, <1>4 DEF Saves, StoreSame, Save, Call
  <2>2. client'[Exec].keys = {}
    BY <2>1, ChangeCallFacts DEF Status
  <2> QED
    BY <1>0, <2>1, <2>2 DEF Closed
<1> QED
  BY <1>1, <1>2, <1>3, <1>4, ExecutorShapes DEF TypeOK

LEMMA GoneOfExecutor ==
  ASSUME Steady, ExecutorStep, ~ (StoreStep(Exec) /\ UNCHANGED executorVars),
         NEW id \in OpIds, Gone(id)
  PROVE  Gone(id)'
<1> USE Goroutines DEF Steady, Always, CopiesInv
<1>0. Closed(id)'
  BY ClosedOfExecutor DEF Gone
<1>1. CASE Poll
  BY <1>0, <1>1 DEF Poll, Gone, Handling
<1>2. CASE Fetch
  <2>1. /\ pc' \in {"poll", "address"} /\ pc = "fetch" /\ op' = client[Exec].op
        /\ pc' = "address" => client[Exec].op # NoOp
    BY <1>2 DEF Fetch
  <2> QED
    BY <1>0, <2>1 DEF Gone, Closed, Handling
<1>3. CASE TakesNote
  <2>1. \/ pc = "mark" /\ pc' = "forward" /\ op' = op
        \/ pc = "saved" /\ pc' = "poll"
    BY <1>3 DEF TakesNote
  <2> QED
    BY <1>0, <2>1 DEF Gone, Handling
<1>4. CASE GoesOn
  <2>1. /\ op' = op
        /\ \/ pc = "poll" /\ pc' = "exited"
           \/ /\ pc \in {"address", "forward", "return", "sender"}
              /\ pc' \in {"forward", "return", "sender"}
    BY <1>4 DEF GoesOn
  <2> QED
    BY <1>0, <2>1 DEF Gone, Handling
<1>5. ASSUME NEW o \in BridgeOperation, NEW next, Saves(o, next) PROVE Gone(id)'
  <2>1. /\ op' = o /\ o.id = op.id /\ pc' \in {"mark", "saved"}
        /\ pc \in {"address", "forward", "return", "sender"}
    BY <1>5 DEF Saves, Save
  <2> QED
    BY <1>0, <2>1 DEF Gone, Handling
<1> QED
  BY <1>1, <1>2, <1>3, <1>4, <1>5, ExecutorShapes DEF TypeOK

(* Nothing of the worker moves, nor its sets. *)
LEMMA GoneElsewhere ==
  ASSUME NEW id \in OpIds, Gone(id),
         client'[Exec] = client[Exec], UNCHANGED <<indexed, pc, op>>
  PROVE  Gone(id)'
BY DEF Gone, Closed, Handling, PendingKey

(***************************************************************************)
(* What a step has to leave alone.                                         *)
(***************************************************************************)
StaysGone == \A id \in OpIds : Gone(id) /\ NotNew(id) => Gone(id)'

LEMMA Touched ==
  ASSUME Steady, NEW id,
         \/ \E k \in indexed : k[2] = id
         \/ \E v \in Workers : \E k \in client[v].keys : k[2] = id
         \/ op # NoOp /\ op.id = id
         \/ \E i \in DOMAIN payouts : payouts[i].op = id
  PROVE  NotNew(id)
BY DEF Steady, Always, NewAreUntouched, Untouched, NotNew

(* An operation that the EVM scanner found as returning has been used.     *)
LEMMA ReturnedNotNew ==
  ASSUME Steady
  PROVE  LET c == client[EvmScan]
         IN  /\ \A id : <<"returning", id>> \in indexed \union c.keys => NotNew(id)
             /\ c.op # NoOp /\ (c.op.status = "returning" \/ (Writing(c) /\ c.prev = "returning"))
                  => NotNew(c.op.id)
<1> DEFINE c == client[EvmScan]
<1>1. ASSUME NEW id, <<"returning", id>> \in indexed \union c.keys PROVE NotNew(id)
  <2>1. PICK k : k = <<"returning", id>>
    OBVIOUS
  <2>2. k[2] = id /\ k \in indexed \union c.keys
    BY <1>1, <2>1
  <2> QED
    BY <2>2, Goroutines, Touched
<1>2. ASSUME c.op # NoOp, c.op.status = "returning" \/ (Writing(c) /\ c.prev = "returning")
      PROVE  NotNew(c.op.id)
  <2>1. PICK id : id = c.op.id
    OBVIOUS
  <2>2. ASSUME NEW w \in Scanners, Creating(w) PROVE client[w].op.id # id
    <3>1. CASE w = EvmScan
      <4>1. Writing(c) /\ c.op.status \in {"pending", "failed"}
        BY <2>2, <3>1 DEF Creating, Writing
      <4>2. c.prev = "pending"
        BY <4>1, Writers DEF Steady, Always, Settlement
      <4> QED
        BY <1>2, <4>1, <4>2
    <3>2. CASE w # EvmScan
      BY <1>2, <2>1, <2>2, <3>2, Goroutines DEF Steady, Always, NewAreUntouched, Untouched
    <3> QED
      BY <3>1, <3>2
  <2> QED
    BY <2>1, <2>2 DEF NotNew
<1> QED
  BY <1>1, <1>2

LEMMA ReturnedStays ==
  ASSUME Steady, ReturnedAreGone, StaysGone,
         indexed' \subseteq indexed, client'[EvmScan] = client[EvmScan]
  PROVE  ReturnedAreGone'
<1> DEFINE c == client[EvmScan]
<1>1. ASSUME NEW id \in OpIds, <<"returning", id>> \in indexed' \union c.keys PROVE Gone(id)'
  BY <1>1, ReturnedNotNew DEF ReturnedAreGone, StaysGone
<1>2. ASSUME c.op # NoOp, c.op.status = "returning" \/ (Writing(c) /\ c.prev = "returning")
      PROVE  Gone(c.op.id)'
  <2>1. PICK id : id = c.op.id
    OBVIOUS
  <2>2. c.op \in BridgeOperation
    BY <1>2, Goroutines, ClientType DEF Steady, TypeOK
  <2>3. id \in OpIds
    BY <2>1, <2>2, SMT DEF BridgeOperation
  <2>4. Gone(id)'
    BY <1>2, <2>1, <2>3, ReturnedNotNew DEF ReturnedAreGone, StaysGone
  <2> QED
    BY <2>1, <2>4
<1> QED
  BY <1>1, <1>2 DEF ReturnedAreGone, Writing

LEMMA RecordsStay ==
  ASSUME KeysHaveRecords, UNCHANGED <<records, indexed>>,
         (client'[EvmScan] = client[EvmScan] /\ evm' = evm) \/ client[EvmScan].cmd # "set",
         \A w \in Scanners \union {Exec} :
           client'[w].cmd = "sadd" => client'[w] = client[w]
  PROVE  KeysHaveRecords'
<1>1. ASSUME NEW k, HasRecord(k) PROVE HasRecord(k)'
  BY <1>1 DEF HasRecord, Overtaken
<1>2. ASSUME NEW w \in Scanners \union {Exec}, client'[w].cmd = "sadd"
      PROVE  HasRecord(<<client[w].op.status, client[w].op.id>>)'
  <2>1. PICK k : k = <<client[w].op.status, client[w].op.id>>
    OBVIOUS
  <2>2. HasRecord(k)'
    BY <1>1, <1>2, <2>1 DEF KeysHaveRecords
  <2>3. client'[w] = client[w]
    BY <1>2
  <2> QED
    BY <2>1, <2>2, <2>3
<1> QED
  BY <1>1, <1>2 DEF KeysHaveRecords

LEMMA PaidStay ==
  ASSUME Steady, PaidAreGone, StaysGone, UNCHANGED <<payouts, lostAnswers>>,
         pc = "saved" => pc' = "saved" /\ op' = op
  PROVE  PaidAreGone'
<1>1. ASSUME NEW i \in DOMAIN payouts, lostAnswers = 0
      PROVE  (Gone(payouts[i].op) \/ (pc = "saved" /\ op.id = payouts[i].op))'
  <2>1. PICK id : id = payouts[i].op
    OBVIOUS
  <2>2. payouts \in Seq(Payout)
    BY DEF Steady, TypeOK, ExecutorTypeOK
  <2>3. payouts[i] \in Payout
    BY <2>2, LenProperties, ElementOfSeq
  <2>4. id \in OpIds
    BY <2>1, <2>3, SMT DEF Payout
  <2>5. NotNew(id)
    BY <2>1, Touched
  <2>6. Gone(id) => Gone(id)'
    BY <2>4, <2>5 DEF StaysGone
  <2>7. payouts'[i].op = id
    BY <2>1
  <2>8. Gone(id)' \/ (pc' = "saved" /\ op'.id = id)
    BY <1>1, <2>1, <2>6 DEF PaidAreGone
  <2> QED
    BY <2>7, <2>8
<1> QED
  BY <1>1 DEF PaidAreGone

(* What CalmInv says of the store. *)
CalmStore == ReturnedAreGone /\ KeysHaveRecords /\ MovedBeforePaying /\ PaidAreGone

(* A command of a search. *)
LEMMA ReadCalm ==
  ASSUME Steady, CalmStore, NEW w \in {Exec, BglScan, EvmScan}, SScan(w) \/ Get(w),
         UNCHANGED <<executorVars, bglVars, evmVars>>
  PROVE  CalmStore'
<1> USE Goroutines DEF Steady, Always, CopiesInv, CalmStore
<1>0. SharedTypeOK /\ w \in Workers
  BY DEF TypeOK
<1> DEFINE b == client[w]
<1>1. /\ b.cmd \in {"sscan", "get"}
      /\ UNCHANGED <<records, indexed, pc, op, payouts, lostAnswers, evm>>
  BY <1>0, ReadStep, Zenon DEF executorVars, evmVars
<1>2. PICK c \in Client :
        /\ client' = [client EXCEPT ![w] = c]
        /\ c.cmd \in {"sscan", "get", "ok", "err"}
        /\ \A k \in c.keys : k \in b.keys \/ (k \in indexed /\ k[1] \in b.todo)
        /\ \/ c.op = b.op \/ c.op = NoOp
           \/ \E k \in b.keys : records[k] # NoOp /\ c.op = records[k] /\ Matches(records[k], b)
  BY <1>0, ReadStep
<1>3. client'[w] = c /\ \A v \in Workers : v # w => client'[v] = client[v]
  BY <1>0, <1>2 DEF SharedTypeOK
<1>4. StaysGone
  BY GoneOfStore DEF StaysGone
<1>5. ReturnedAreGone'
  <2>1. CASE w # EvmScan
    BY <1>1, <1>3, <1>4, <2>1, ReturnedStays
  <2>2. CASE w = EvmScan
    <3>1. ASSUME NEW id \in OpIds, <<"returning", id>> \in indexed' \union c.keys
          PROVE  Gone(id)'
      BY <1>1, <1>2, <1>4, <2>2, <3>1, ReturnedNotNew DEF ReturnedAreGone, StaysGone
    <3>2. ASSUME c.op # NoOp, c.op.status = "returning" PROVE Gone(c.op.id)'
      <4>1. PICK id : id = c.op.id
        OBVIOUS
      <4>2. id \in OpIds
        <5>1. c.op \in BridgeOperation
          BY <1>2, <3>2, SMT DEF Client
        <5> QED
          BY <4>1, <5>1, SMT DEF BridgeOperation
      <4>3. Gone(id) /\ NotNew(id)
        <5>1. CASE c.op = b.op
          BY <2>2, <3>2, <4>1, <5>1, ReturnedNotNew DEF ReturnedAreGone
        <5>2. ASSUME NEW k \in b.keys, records[k] # NoOp, c.op = records[k]
              PROVE  Gone(id) /\ NotNew(id)
          <6>1. k \in Keys
            BY <1>0, <5>2, ClientType
          <6>2. k[1] = "returning" /\ k[2] = id
            BY <3>2, <4>1, <5>2, <6>1 DEF Filed
          <6>3. k = <<"returning", id>>
            BY <6>1, <6>2 DEF Keys
          <6> QED
            BY <2>2, <4>2, <5>2, <6>3, ReturnedNotNew DEF ReturnedAreGone
        <5> QED
          BY <1>2, <3>2, <5>1, <5>2
      <4>4. Gone(id)'
        BY <1>4, <4>2, <4>3 DEF StaysGone
      <4> QED
        BY <4>1, <4>4
    <3>3. client'[EvmScan] = c /\ ~ Writing(c) /\ c.cmd # "del"
      BY <1>2, <1>3, <2>2 DEF Writing
    <3> QED
      BY <3>1, <3>2, <3>3 DEF ReturnedAreGone, Writing
  <2> QED
    BY <2>1, <2>2
<1>6. KeysHaveRecords'
  <2>1. (client'[EvmScan] = client[EvmScan] /\ evm' = evm) \/ client[EvmScan].cmd # "set"
    BY <1>1, <1>3
  <2>2. \A v \in Scanners \union {Exec} : client'[v].cmd = "sadd" => client'[v] = client[v]
    BY <1>2, <1>3 DEF Scanners
  <2> QED
    BY <1>1, <2>1, <2>2, RecordsStay
<1>7. MovedBeforePaying'
  <2>1. CASE w # Exec
    BY <1>1, <1>3, <2>1 DEF MovedBeforePaying, PendingKey
  <2>2. CASE w = Exec
    BY <1>1, <2>2, Readers DEF MovedBeforePaying
  <2> QED
    BY <2>1, <2>2
<1>8. PaidAreGone'
  BY <1>1, <1>4, PaidStay
<1> QED
  BY <1>5, <1>6, <1>7, <1>8

(***************************************************************************)
(* A command of a write, as long as it succeeds.                           *)
(***************************************************************************)

(* What is known of a goroutine that writes, and of the keys it handles.   *)
LEMMA WriterKeys ==
  ASSUME Steady, CalmStore, NEW w \in {Exec, BglScan, EvmScan}, Writing(client[w])
  PROVE  LET b == client[w]
         IN  /\ b.op \in BridgeOperation /\ b.op # NoOp /\ b.op.id \in OpIds
             /\ b.op.status \in Status /\ b.prev \in Status
             /\ <<b.prev, b.op.id>> \in Keys /\ <<b.op.status, b.op.id>> \in Keys
             /\ \/ /\ w = Exec /\ b.prev = "pending" /\ b.op = op
                   /\ pc \in {"mark", "saved"} /\ op.status # "pending"
                   /\ pc = "mark" => op.status = "executing"
                \/ /\ w \in Scanners /\ Creating(w)
                   /\ b.cmd \in {"set", "sadd"} /\ b.op.status \in {"pending", "failed"}
                \/ /\ w = EvmScan /\ evm.pc = "store" /\ b.op.status = "success"
                   /\ b.prev = "executing"
                \/ /\ w = EvmScan /\ b.op.status = "returnsuccess"
                   /\ b.prev = "returning" /\ Gone(b.op.id)
<1> USE DEF Steady, Always, CopiesInv, CalmStore
<1> DEFINE b == client[w]
<1>1. b.op \in BridgeOperation /\ b.op # NoOp /\ b.prev \in Status
  BY Goroutines, ClientType DEF TypeOK, Writing
<1>2. b.op.id \in OpIds /\ b.op.status \in Status
  BY <1>1, SMT DEF BridgeOperation
<1>3. <<b.prev, b.op.id>> \in Keys /\ <<b.op.status, b.op.id>> \in Keys
  BY <1>1, <1>2 DEF Keys
<1>4. CASE w = Exec
  BY <1>1, <1>2, <1>3, <1>4, Writers DEF MovedBeforePaying
<1>5. CASE w = BglScan
  <2>1. b.cmd \in {"set", "sadd"} /\ b.op.status \in {"pending", "failed"}
    BY <1>5, Writers
  <2>2. w \in Scanners /\ Creating(w)
    BY <1>5, <2>1 DEF Creating, Scanners
  <2> QED
    BY <1>1, <1>2, <1>3, <2>1, <2>2
<1>6. CASE w = EvmScan
  <2>1. CASE b.prev = "executing" /\ b.op.status = "success"
    BY <1>1, <1>2, <1>3, <1>6, <2>1, Writers
  <2>2. CASE b.prev = "returning" /\ b.op.status = "returnsuccess"
    BY <1>1, <1>2, <1>3, <1>6, <2>2 DEF ReturnedAreGone
  <2>3. CASE b.cmd \in {"set", "sadd"} /\ b.op.status = "pending"
    BY <1>1, <1>2, <1>3, <1>6, <2>3 DEF Creating, Scanners
  <2> QED
    BY <1>6, <2>1, <2>2, <2>3, Writers DEF Settlement
<1> QED
  BY <1>4, <1>5, <1>6

(* Nobody adds a key that the EVM scanner has removed from its set, and no *)
(* operation is settled that the worker may still save.                    *)
LEMMA WriteReturned ==
  ASSUME Steady, CalmStore, NEW w \in {Exec, BglScan, EvmScan},
         NEW c \in Client, client' = [client EXCEPT ![w] = c],
         Writing(client[w]), Writes(client[w], c), StaysGone, UNCHANGED <<pc, op>>
  PROVE  ReturnedAreGone'
<1> USE Goroutines DEF Steady, Always, CopiesInv, CalmStore
<1> DEFINE b == client[w]
           e == client[EvmScan]
<1>0. client \in [Workers -> Client] /\ w \in Workers
  BY DEF TypeOK, SharedTypeOK
<1>1. client'[w] = c /\ \A v \in Workers : v # w => client'[v] = client[v]
  BY <1>0
<1>2. c.op = b.op /\ c.prev = b.prev /\ c.keys = b.keys
  BY DEF Writes
<1>3. /\ client'[EvmScan].op = e.op /\ client'[EvmScan].prev = e.prev
      /\ client'[EvmScan].keys = e.keys
      /\ Writing(client'[EvmScan]) => Writing(e)
  BY <1>1, <1>2 DEF Writes, Writing
<1>4. ASSUME NEW id \in OpIds, <<"returning", id>> \in indexed' \union e.keys
      PROVE  Gone(id)'
  <2>1. CASE <<"returning", id>> \in indexed \union e.keys
    BY <2>1, ReturnedNotNew DEF ReturnedAreGone, StaysGone
  <2>2. CASE <<"returning", id>> \notin indexed \union e.keys
    <3>1. b.cmd = "sadd" /\ b.op.status = "returning" /\ b.op.id = id
      BY <1>4, <2>2 DEF Writes
    <3>2. w = Exec /\ b.op = op /\ pc = "saved"
      BY <3>1, WriterKeys
    <3>3. c.cmd = "ok" /\ c.keys = {}
      BY <1>2, <3>1, <3>2, Writers DEF Writes
    <3>4. PendingKey(id) \notin indexed'
      <4>1. PendingKey(id) \notin indexed
        BY <3>1, <3>2 DEF Moved
      <4> QED
        BY <3>1, <4>1 DEF Writes, PendingKey
    <3> QED
      BY <1>1, <3>2, <3>3, <3>4 DEF Gone, Closed, Handling, PendingKey
  <2> QED
    BY <2>1, <2>2
<1>5. ASSUME e.op # NoOp, e.op.status = "returning" \/ (Writing(e) /\ e.prev = "returning")
      PROVE  Gone(e.op.id) /\ \A id : id = client'[EvmScan].op.id => Gone(id)'
  <2>1. PICK id : id = e.op.id
    OBVIOUS
  <2>2. e.op \in BridgeOperation
    BY <1>5, ClientType DEF TypeOK
  <2>3. id \in OpIds
    BY <2>1, <2>2, SMT DEF BridgeOperation
  <2>4. Gone(id) /\ NotNew(id)
    BY <1>5, <2>1, ReturnedNotNew DEF ReturnedAreGone
  <2>5. Gone(id)'
    BY <2>3, <2>4 DEF StaysGone
  <2> QED
    BY <1>3, <2>1, <2>4, <2>5
<1>6. ASSUME client'[EvmScan].cmd = "del", e.prev = "returning"
      PROVE  <<"returning", e.op.id>> \notin indexed'
  <2>1. CASE w = EvmScan
    BY <1>1, <1>6, <2>1 DEF Writes
  <2>2. CASE w # EvmScan
    <3>1. client'[EvmScan] = e /\ Writing(e) /\ e.op # NoOp
      BY <1>1, <1>6, <2>2, WriterKeys DEF Writing
    <3>2. <<"returning", e.op.id>> \notin indexed /\ Gone(e.op.id)
      BY <1>5, <1>6, <3>1 DEF ReturnedAreGone
    <3>3. b.cmd = "sadd" /\ b.op.status = "returning" => b.op.id # e.op.id
      <4>1. ASSUME b.cmd = "sadd", b.op.status = "returning"
            PROVE  w = Exec /\ b.op = op /\ pc = "saved" /\ b.cmd # "ok"
        BY <4>1, WriterKeys
      <4> QED
        BY <3>2, <4>1 DEF Gone
    <3> QED
      BY <3>2, <3>3 DEF Writes
  <2> QED
    BY <2>1, <2>2
<1>7. \A id \in OpIds :
        <<"returning", id>> \in indexed' \union client'[EvmScan].keys => Gone(id)'
  BY <1>3, <1>4
<1>8. /\ client'[EvmScan].op # NoOp
      /\ \/ client'[EvmScan].op.status = "returning"
         \/ Writing(client'[EvmScan]) /\ client'[EvmScan].prev = "returning"
      => \A id : id = client'[EvmScan].op.id => Gone(id)'
  BY <1>3, <1>5
<1>9. client'[EvmScan].cmd = "del" /\ client'[EvmScan].prev = "returning" =>
        <<"returning", client'[EvmScan].op.id>> \notin indexed'
  BY <1>3, <1>6
<1> QED
  BY <1>7, <1>8, <1>9 DEF ReturnedAreGone, Writing

(* A record is deleted when no set has its key, or, for an operation that  *)
(* was executing, when the EVM scanner settles it.                         *)
LEMMA WriteRecords ==
  ASSUME Steady, CalmStore, NEW w \in {Exec, BglScan, EvmScan},
         NEW c \in Client, client' = [client EXCEPT ![w] = c],
         Writing(client[w]), Writes(client[w], c), UNCHANGED <<pc, op, evm>>
  PROVE  KeysHaveRecords'
<1> USE Goroutines DEF Steady, Always, CopiesInv, CalmStore
<1> DEFINE b == client[w]
           written == <<b.op.status, b.op.id>>
           deleted == <<b.prev, b.op.id>>
<1>0. /\ client \in [Workers -> Client] /\ w \in Workers
      /\ records \in [Keys -> BridgeOperation \union {NoOp}] /\ indexed \subseteq Keys
  BY DEF TypeOK, SharedTypeOK
<1>1. client'[w] = c /\ \A v \in Workers : v # w => client'[v] = client[v]
  BY <1>0
<1>2. /\ b.op # NoOp /\ b.op.id \in OpIds /\ written \in Keys /\ deleted \in Keys
      /\ b.op.status \in Status /\ b.prev \in Status
  BY WriterKeys
<1>3. \A id \in OpIds : <<"success", id>> \in Keys /\ <<"executing", id>> \in Keys
  BY DEF Keys, Status
<1>4. b.cmd = "del" => b.prev # "success"
  BY WriterKeys
<1>5. ASSUME NEW id \in OpIds, Overtaken(id) PROVE Overtaken(id)'
  <2>1. CASE records[<<"success", id>>] # NoOp
    <3>1. records'[<<"success", id>>] # NoOp
      BY <1>0, <1>2, <1>3, <1>4, <2>1 DEF Writes
    <3> QED
      BY <3>1 DEF Overtaken
  <2>2. CASE /\ evm.pc = "store" /\ client[EvmScan].cmd = "set"
             /\ client[EvmScan].op.status = "success" /\ client[EvmScan].op.id = id
    <3>1. CASE w = EvmScan
      <4>1. records'[<<"success", id>>] # NoOp
        BY <1>0, <1>2, <1>3, <2>2, <3>1 DEF Writes
      <4> QED
        BY <4>1 DEF Overtaken
    <3>2. CASE w # EvmScan
      BY <1>1, <2>2, <3>2 DEF Overtaken
    <3> QED
      BY <3>1, <3>2
  <2> QED
    BY <1>5, <2>1, <2>2 DEF Overtaken
<1>6. ASSUME NEW k \in Keys, HasRecord(k), records'[k] # NoOp \/ records'[k] = records[k]
      PROVE  HasRecord(k)'
  BY <1>5, <1>6 DEF HasRecord, Keys
<1>7. ASSUME NEW k \in Keys, HasRecord(k), k # deleted \/ b.cmd # "del" \/ b.prev = "executing"
      PROVE  HasRecord(k)'
  <2>1. CASE k = deleted /\ b.cmd = "del"
    <3>1. b.prev = "executing"
      BY <1>7, <2>1
    <3>2. /\ w = EvmScan /\ evm'.pc = "store" /\ c.cmd = "set"
          /\ c.op.status = "success" /\ c.op.id = b.op.id
      BY <2>1, <3>1, WriterKeys DEF Writes
    <3> QED
      BY <1>1, <2>1, <3>1, <3>2 DEF HasRecord, Overtaken
  <2>2. CASE k # deleted \/ b.cmd # "del"
    <3>1. records'[k] # NoOp \/ records'[k] = records[k]
      BY <1>0, <1>2, <2>2 DEF Writes
    <3> QED
      BY <1>6, <1>7, <3>1
  <2> QED
    BY <2>1, <2>2
<1>8. ASSUME b.cmd = "del", b.prev # "executing" PROVE deleted \notin indexed
  <2>1. CASE w = Exec
    BY <1>8, <2>1, WriterKeys DEF Moved, PendingKey
  <2>2. CASE w = EvmScan /\ b.prev = "returning"
    BY <1>8, <2>2 DEF ReturnedAreGone
  <2> QED
    BY <1>8, <2>1, <2>2, WriterKeys
<1>9. ASSUME NEW k \in indexed' PROVE HasRecord(k)'
  <2>1. CASE k \in indexed
    <3>1. k \in Keys /\ HasRecord(k)
      BY <1>0, <2>1 DEF KeysHaveRecords
    <3> QED
      BY <1>7, <1>8, <2>1, <3>1
  <2>2. CASE k \notin indexed
    <3>1. b.cmd = "sadd" /\ k = written
      BY <1>9, <2>2 DEF Writes
    <3>2. HasRecord(k)
      BY <1>0, <3>1 DEF KeysHaveRecords, Scanners
    <3> QED
      BY <1>2, <1>7, <3>1, <3>2
  <2> QED
    BY <2>1, <2>2
<1>10. ASSUME NEW v \in Scanners \union {Exec}, client'[v].cmd = "sadd"
       PROVE  HasRecord(<<client[v].op.status, client[v].op.id>>)'
  <2>1. CASE v = w
    <3>1. b.cmd = "set" /\ client'[v].op = b.op
      BY <1>1, <1>10, <2>1 DEF Writes
    <3>2. PICK k : k = written
      OBVIOUS
    <3>3. records'[k] # NoOp
      BY <1>0, <1>2, <3>1, <3>2 DEF Writes
    <3>4. HasRecord(k)'
      BY <3>3 DEF HasRecord
    <3>5. k = <<client'[v].op.status, client'[v].op.id>>
      BY <3>1, <3>2
    <3> QED
      BY <3>4, <3>5
  <2>2. CASE v # w
    <3>0. v \in {Exec, BglScan, EvmScan} /\ v \in Workers
      BY DEF Scanners
    <3>1. client'[v] = client[v] /\ client[v].cmd = "sadd" /\ Writing(client[v])
      BY <1>1, <1>10, <2>2, <3>0 DEF Writing
    <3>2. PICK k : k = <<client[v].op.status, client[v].op.id>>
      OBVIOUS
    <3>3. k \in Keys /\ HasRecord(k)
      BY <3>0, <3>1, <3>2, WriterKeys DEF KeysHaveRecords
    <3>4. b.cmd = "del" /\ b.prev # "executing" => k # deleted
      <4> SUFFICES ASSUME b.cmd = "del", b.prev # "executing" PROVE k # deleted
        OBVIOUS
      <4>1. CASE w = Exec
        <5>1. b.prev = "pending" /\ b.op = op /\ op # NoOp
          BY <1>2, <4>1, WriterKeys
        <5>2. client[v].op.status = "pending" => Creating(v) /\ v \in Scanners
          BY <2>2, <3>0, <3>1, <4>1 DEF Creating, Scanners
        <5>3. client[v].op.status = "pending" => op.id # client[v].op.id
          BY <5>1, <5>2 DEF NewAreUntouched, Untouched
        <5> QED
          BY <3>2, <5>1, <5>3
      <4>2. CASE w # Exec
        <5>1. b.prev = "returning" /\ Gone(b.op.id)
          BY <4>2, WriterKeys
        <5>2. client[v].op.status = "returning" => v = Exec /\ client[v].op = op /\ pc = "saved"
          BY <3>0, <3>1, WriterKeys
        <5>3. client[v].op.status = "returning" => op.id # b.op.id
          BY <3>1, <5>1, <5>2 DEF Gone
        <5> QED
          BY <3>2, <5>1, <5>2, <5>3
      <4> QED
        BY <4>1, <4>2
    <3>5. HasRecord(k)'
      BY <1>7, <3>3, <3>4
    <3>6. k = <<client'[v].op.status, client'[v].op.id>>
      BY <3>1, <3>2
    <3> QED
      BY <3>5, <3>6
  <2> QED
    BY <2>1, <2>2
<1> QED
  BY <1>9, <1>10 DEF KeysHaveRecords

LEMMA WriteCalm ==
  ASSUME Steady, CalmStore, NEW w \in {Exec, BglScan, EvmScan}, Write(w),
         UNCHANGED <<executorVars, bglVars, evmVars>>
  PROVE  CalmStore'
<1> USE Goroutines DEF Steady, Always, CopiesInv, CalmStore
<1> DEFINE b == client[w]
<1>0. SharedTypeOK /\ w \in Workers
  BY DEF TypeOK
<1>1. UNCHANGED <<pc, op, payouts, lostAnswers, evm>> /\ Writing(b)
  BY <1>0, WriteFacts DEF executorVars, evmVars
<1>2. PICK c \in Client : client' = [client EXCEPT ![w] = c] /\ Writes(b, c)
  BY <1>0, WriteFacts
<1>3. client'[w] = c /\ \A v \in Workers : v # w => client'[v] = client[v]
  BY <1>0, <1>2 DEF SharedTypeOK
<1>4. StaysGone
  BY GoneOfStore DEF StaysGone
<1>5. ReturnedAreGone'
  BY <1>1, <1>2, <1>4, WriteReturned
<1>6. KeysHaveRecords'
  BY <1>1, <1>2, WriteRecords
<1>7. MovedBeforePaying'
  <2>1. pc \in {"mark", "saved"} => client'[Exec].cmd # "err"
    BY <1>2, <1>3 DEF MovedBeforePaying, Writes
  <2>2. ASSUME pc \in {"forward", "return", "sender"}, op.deposit \in BGLDeposits
        PROVE  PendingKey(op.id) \notin indexed'
    <3>1. PendingKey(op.id) \notin indexed /\ op # NoOp
      BY <2>2 DEF MovedBeforePaying, TypeOK, ExecutorTypeOK
    <3>2. b.cmd = "sadd" /\ b.op.status = "pending" => w \in Scanners /\ Creating(w)
      BY <1>1, WriterKeys DEF Creating
    <3>3. b.cmd = "sadd" /\ b.op.status = "pending" => op.id # b.op.id
      BY <3>1, <3>2 DEF NewAreUntouched, Untouched
    <3> QED
      BY <1>2, <3>1, <3>3 DEF Writes, PendingKey
  <2> QED
    BY <1>1, <2>1, <2>2 DEF MovedBeforePaying, PendingKey
<1>8. PaidAreGone'
  BY <1>1, <1>4, PaidStay
<1> QED
  BY <1>5, <1>6, <1>7, <1>8

(***************************************************************************)
(* The worker and the scanners outside the store.                          *)
(***************************************************************************)

(* A payment is of an operation that has not been paid.                    *)
LEMMA SavePaid ==
  ASSUME Steady, CalmStore, NEW o \in BridgeOperation, NEW next, Saves(o, next), StaysGone
  PROVE  PaidAreGone'
<1> USE DEF Steady, CalmStore
<1>0. SUFFICES ASSUME lostAnswers' = 0 PROVE PaidAreGone'
  BY DEF PaidAreGone
<1>1. lostAnswers \in Nat
  BY DEF TypeOK, ExecutorTypeOK
<1>2. /\ pc \in {"address", "forward", "return", "sender"} /\ o.id = op.id /\ op' = o
      /\ PaysOnce
      /\ \/ payouts' = payouts /\ lostAnswers' = lostAnswers
         \/ lostAnswers' = lostAnswers + 1
         \/ pc' = "saved" /\ lostAnswers' = lostAnswers
  BY Zenon DEF Saves, Save, Unanswered
<1>3. lostAnswers = 0
  BY <1>0, <1>1, <1>2
<1>4. ASSUME NEW i \in DOMAIN payouts
      PROVE  /\ Gone(payouts[i].op) /\ payouts[i].op # op.id
             /\ \A id : id = payouts[i].op => Gone(id)'
  <2>1. PICK id : id = payouts[i].op
    OBVIOUS
  <2>2. payouts \in Seq(Payout)
    BY DEF TypeOK, ExecutorTypeOK
  <2>3. payouts[i] \in Payout
    BY <2>2, LenProperties, ElementOfSeq
  <2>4. id \in OpIds
    BY <2>1, <2>3, SMT DEF Payout
  <2>5. NotNew(id)
    BY <2>1, Touched
  <2>6. Gone(id)
    BY <1>2, <1>3, <2>1 DEF PaidAreGone
  <2>7. id # op.id
    BY <1>2, <2>6 DEF Gone, Handling, TypeOK, ExecutorTypeOK, ExecutorAgrees
  <2> QED
    BY <2>1, <2>4, <2>5, <2>6, <2>7 DEF StaysGone
<1>5. CASE payouts' = payouts
  BY <1>3, <1>4, <1>5 DEF PaidAreGone
<1>6. CASE payouts' # payouts
  <2>1. /\ \A i \in DOMAIN payouts : i \in DOMAIN payouts' /\ payouts'[i] = payouts[i]
        /\ \A i \in DOMAIN payouts' \ DOMAIN payouts :
             i = Len(payouts) + 1 /\ payouts'[i].op = op.id
    BY <1>2, Payments
  <2>2. pc' = "saved"
    BY <1>0, <1>1, <1>2, <1>3, <1>6
  <2>3. ASSUME NEW i \in DOMAIN payouts'
        PROVE  (Gone(payouts[i].op) \/ (pc = "saved" /\ op.id = payouts[i].op))'
    BY <1>2, <1>4, <2>1, <2>2
  <2>4. ASSUME NEW i \in DOMAIN payouts', NEW j \in DOMAIN payouts',
               payouts'[i].op = payouts'[j].op
        PROVE  i = j
    BY <1>3, <1>4, <2>1, <2>4 DEF PaidAreGone
  <2> QED
    BY <2>3, <2>4 DEF PaidAreGone
<1> QED
  BY <1>5, <1>6

LEMMA ExecutorCalm ==
  ASSUME Steady, CalmStore, ExecutorStep, ~ (StoreStep(Exec) /\ UNCHANGED executorVars),
         UNCHANGED <<bglVars, evmVars>>
  PROVE  CalmStore'
<1> USE Goroutines DEF Steady, Always, CopiesInv, CalmStore
<1>0. client \in [Workers -> Client] /\ UNCHANGED <<evm, bgl>> /\ lostAnswers \in Nat
  BY DEF TypeOK, SharedTypeOK, ExecutorTypeOK, evmVars, bglVars
<1>1. StaysGone
  BY GoneOfExecutor DEF StaysGone
<1>2. ASSUME NEW c, client' = [client EXCEPT ![Exec] = c], c.cmd # "sadd",
             UNCHANGED <<records, indexed>>
      PROVE  ReturnedAreGone' /\ KeysHaveRecords'
  <2>1. client'[Exec] = c /\ \A v \in Workers : v # Exec => client'[v] = client[v]
    BY <1>0, <1>2
  <2>2. ReturnedAreGone'
    BY <1>1, <1>2, <2>1, ReturnedStays
  <2>3. \A v \in Scanners \union {Exec} : client'[v].cmd = "sadd" => client'[v] = client[v]
    BY <1>2, <2>1 DEF Scanners
  <2> QED
    BY <1>0, <1>2, <2>1, <2>2, <2>3, RecordsStay
<1>3. CASE Poll
  <2>1. /\ client' = [client EXCEPT ![Exec] = FindPending] /\ pc' = "fetch" /\ pc = "poll"
        /\ UNCHANGED <<records, indexed, payouts, lostAnswers>>
    BY <1>3 DEF Poll, Call, keptVars, storeVars
  <2>2. MovedBeforePaying'
    BY <2>1 DEF MovedBeforePaying
  <2>3. PaidAreGone'
    BY <1>1, <2>1, PaidStay
  <2> QED
    BY <1>2, <2>1, <2>2, <2>3, FindPendingFacts
<1>4. CASE Fetch
  <2>1. /\ client' = [client EXCEPT ![Exec] = Idle] /\ pc' \in {"poll", "address"} /\ pc = "fetch"
        /\ UNCHANGED <<records, indexed, payouts, lostAnswers>>
    BY <1>4 DEF Fetch, Consume, Call, keptVars, storeVars
  <2>2. MovedBeforePaying'
    BY <2>1 DEF MovedBeforePaying
  <2>3. PaidAreGone'
    BY <1>1, <2>1, PaidStay
  <2> QED
    BY <1>2, <2>1, <2>2, <2>3, IdleFacts
<1>5. CASE TakesNote
  <2>1. /\ client' = [client EXCEPT ![Exec] = Idle]
        /\ UNCHANGED <<records, indexed, payouts, lostAnswers>>
        /\ pc \in {"mark", "saved"} /\ client[Exec].cmd \in {"ok", "err"}
        /\ \/ pc = "mark" /\ pc' = "forward" /\ op' = op
           \/ pc = "saved" /\ pc' = "poll" /\ op' = NoOp
    BY <1>5 DEF TakesNote, StoreSame, Consume, Call, Returned
  <2>2. client[Exec].cmd = "ok" /\ PendingKey(op.id) \notin indexed
    BY <2>1 DEF MovedBeforePaying, Moved
  <2>3. client'[Exec] = Idle
    BY <1>0, <2>1
  <2>4. MovedBeforePaying'
    BY <2>1, <2>2, <2>3 DEF MovedBeforePaying, PendingKey
  <2>5. PaidAreGone'
    <3>1. CASE pc = "mark"
      BY <1>1, <2>1, <3>1, PaidStay
    <3>2. CASE pc = "saved"
      <4>1. PICK id : id = op.id
        OBVIOUS
      <4>2. pc' = "poll"
        BY <2>1, <3>2
      <4>3. Gone(id)'
        BY <2>1, <2>2, <2>3, <4>1, <4>2, IdleFacts DEF Gone, Closed, Handling, PendingKey
      <4>4. ASSUME NEW i \in DOMAIN payouts, lostAnswers = 0
            PROVE  \A j : j = payouts[i].op => Gone(j)'
        <5>1. PICK j : j = payouts[i].op
          OBVIOUS
        <5>2. payouts \in Seq(Payout)
          BY DEF TypeOK, ExecutorTypeOK
        <5>3. payouts[i] \in Payout
          BY <5>2, LenProperties, ElementOfSeq
        <5>4. j \in OpIds
          BY <5>1, <5>3, SMT DEF Payout
        <5>5. NotNew(j)
          BY <5>1, Touched
        <5>6. Gone(j) \/ j = id
          BY <4>1, <4>4, <5>1 DEF PaidAreGone
        <5>7. Gone(j)'
          BY <1>1, <4>3, <5>4, <5>5, <5>6 DEF StaysGone
        <5> QED
          BY <5>1, <5>7
      <4> QED
        BY <2>1, <4>4 DEF PaidAreGone
    <3> QED
      BY <2>1, <3>1, <3>2
  <2> QED
    BY <1>2, <2>1, <2>4, <2>5, IdleFacts
<1>6. CASE GoesOn
  <2>1. /\ UNCHANGED <<records, indexed, op, client>> /\ pc # "saved"
        /\ Unanswered
        /\ \/ pc = "poll" /\ pc' = "exited"
           \/ pc = "address" /\ pc' = "forward" /\ op.deposit \notin BGLDeposits
           \/ {pc, pc'} \subseteq {"forward", "return", "sender"}
    BY <1>6 DEF GoesOn, StoreSame
  <2>2. client[Exec].cmd # "sadd" /\ client' = [client EXCEPT ![Exec] = client[Exec]]
    BY <1>0, <2>1, IdleFacts DEF ExecutorAgrees
  <2>3. MovedBeforePaying'
    BY <2>1 DEF MovedBeforePaying, PendingKey
  <2>4. PaidAreGone'
    <3>1. CASE lostAnswers' = lostAnswers + 1
      BY <1>0, <3>1, SMT DEF PaidAreGone
    <3>2. CASE payouts' = payouts /\ lostAnswers' = lostAnswers
      BY <1>1, <2>1, <3>2, PaidStay
    <3> QED
      BY <2>1, <3>1, <3>2 DEF Unanswered
  <2> QED
    BY <1>2, <2>1, <2>2, <2>3, <2>4
<1>7. ASSUME NEW o \in BridgeOperation, NEW next, Saves(o, next) PROVE CalmStore'
  <2>1. /\ client' = [client EXCEPT ![Exec] = ChangeCall(o, "pending")]
        /\ UNCHANGED <<records, indexed>>
        /\ pc' = next /\ op' = o /\ next \in {"mark", "saved"}
        /\ next = "mark" => o.status = "executing"
    BY <1>7 DEF Saves, Save, Call, StoreSame
  <2>2. PICK c : c = ChangeCall(o, "pending") /\ c.cmd = "srem"
    BY ChangeCallFacts DEF Status
  <2>3. client'[Exec] = c
    BY <1>0, <2>1, <2>2
  <2>4. MovedBeforePaying'
    BY <2>1, <2>2, <2>3 DEF MovedBeforePaying
  <2> QED
    BY <1>1, <1>2, <1>7, <2>1, <2>2, <2>4, SavePaid
<1> QED
  BY <1>3, <1>4, <1>5, <1>6, <1>7, ExecutorShapes DEF TypeOK

(* A scanner listens to its chain, or begins something in the store: what  *)
(* the worker is done with, and every record, stays as it was.             *)
LEMMA ScannerCalm ==
  ASSUME Steady, CalmStore, NEW w \in Scanners, NEW c,
         client' = [client EXCEPT ![w] = c], c.cmd # "sadd", Returned(w),
         UNCHANGED <<records, indexed, executorVars>>,
         w = BglScan => evm' = evm
  PROVE  /\ KeysHaveRecords' /\ MovedBeforePaying' /\ PaidAreGone'
         /\ StaysGone
         /\ w = BglScan => ReturnedAreGone'
<1> USE Goroutines DEF Scanners, CalmStore
<1>1. UNCHANGED <<pc, op, payouts, lostAnswers>>
  BY DEF executorVars
<1>2. client'[w] = c /\ \A v \in Workers : v # w => client'[v] = client[v]
  BY DEF Steady, TypeOK, SharedTypeOK
<1>3. StaysGone
  BY <1>1, <1>2, GoneElsewhere DEF StaysGone
<1>4. KeysHaveRecords'
  <2>1. \A v \in Scanners \union {Exec} : client'[v].cmd = "sadd" => client'[v] = client[v]
    BY <1>2
  <2>2. (client'[EvmScan] = client[EvmScan] /\ evm' = evm) \/ client[EvmScan].cmd # "set"
    BY <1>2 DEF Returned
  <2> QED
    BY <2>1, <2>2, RecordsStay
<1>5. MovedBeforePaying'
  BY <1>1, <1>2 DEF MovedBeforePaying, PendingKey
<1>6. PaidAreGone'
  BY <1>1, <1>3, PaidStay
<1>7. w = BglScan => ReturnedAreGone'
  BY <1>2, <1>3, ReturnedStays
<1> QED
  BY <1>3, <1>4, <1>5, <1>6, <1>7

LEMMA BglCalm ==
  ASSUME Steady, CalmStore, BglAway \/ BglSearches \/ BglCreates, Returned(BglScan),
         UNCHANGED <<records, indexed, executorVars, evmVars>>
  PROVE  CalmStore'
<1>1. PICK c : client' = [client EXCEPT ![BglScan] = c] /\ c.cmd # "sadd"
  <2>1. ASSUME NEW o \in BridgeOperation, client' = [client EXCEPT ![BglScan] = UpsertCall(o)]
        PROVE  \E c : client' = [client EXCEPT ![BglScan] = c] /\ c.cmd # "sadd"
    <3>1. PICK c : c = UpsertCall(o) /\ c.cmd = "set"
      BY UpsertCallFacts
    <3> QED
      BY <2>1, <3>1
  <2> QED
    BY <2>1, IdleFacts, Zenon DEF BglAway, BglSearches, BglCreates
<1> QED
  BY <1>1, ScannerCalm DEF CalmStore, Scanners, evmVars

LEMMA EvmCalm ==
  ASSUME Steady, CalmStore, EvmAway \/ EvmSearches \/ EvmSettles \/ EvmCreates,
         Returned(EvmScan), UNCHANGED <<records, indexed, executorVars>>
  PROVE  CalmStore'
<1> USE Goroutines DEF CalmStore
<1>0. client \in [Workers -> Client] /\ EvmScan \in Scanners
  BY DEF Steady, TypeOK, SharedTypeOK, Scanners
<1>1. ASSUME NEW c, client' = [client EXCEPT ![EvmScan] = c],
             c.cmd \in {"ok", "sscan", "srem", "set"}, c.keys = {},
             NEW settled,
             c.op # NoOp /\ (c.op.status = "returning" \/ (Writing(c) /\ c.prev = "returning"))
               => settled = c.op.id /\ settled \in OpIds /\ Gone(settled) /\ NotNew(settled)
      PROVE  CalmStore'
  <2>1. KeysHaveRecords' /\ MovedBeforePaying' /\ PaidAreGone' /\ StaysGone
    BY <1>0, <1>1, ScannerCalm
  <2>2. client'[EvmScan] = c /\ indexed' = indexed
    BY <1>0, <1>1
  <2>3. ASSUME NEW id \in OpIds, <<"returning", id>> \in indexed' \union c.keys PROVE Gone(id)'
    BY <1>1, <2>1, <2>2, <2>3, ReturnedNotNew DEF ReturnedAreGone, StaysGone
  <2>4. ASSUME c.op # NoOp, c.op.status = "returning" \/ (Writing(c) /\ c.prev = "returning")
        PROVE  \A id : id = c.op.id => Gone(id)'
    BY <1>1, <2>1, <2>4 DEF StaysGone
  <2>5. ReturnedAreGone'
    BY <1>1, <2>2, <2>3, <2>4 DEF ReturnedAreGone, Writing
  <2> QED
    BY <2>1, <2>5
<1>2. CASE EvmAway
  BY <1>1, <1>2, IdleFacts DEF EvmAway
<1>3. CASE EvmSearches
  BY <1>1, <1>3 DEF EvmSearches
<1>4. CASE EvmSettles
  <2>1. PICK o, found \in BridgeOperation :
          /\ found = client[EvmScan].op /\ o.id = found.id
          /\ \/ found.status = "executing" /\ o.status = "success"
             \/ found.status = "returning" /\ o.status = "returnsuccess"
          /\ client' = [client EXCEPT ![EvmScan] = ChangeCall(o, found.status)]
    BY <1>4 DEF EvmSettles
  <2>2. PICK s, id : s = found.status /\ id = found.id
    OBVIOUS
  <2>3. s \in Status /\ id \in OpIds /\ found # NoOp
    BY <2>2, SMT DEF BridgeOperation
  <2>4. PICK c : /\ c = ChangeCall(o, s) /\ c.cmd = "srem" /\ c.op = o
                 /\ c.prev = s /\ c.keys = {}
    BY <2>3, ChangeCallFacts
  <2>5. s = "returning" => Gone(id) /\ NotNew(id)
    BY <2>1, <2>2, <2>3, ReturnedNotNew DEF ReturnedAreGone
  <2>6. client' = [client EXCEPT ![EvmScan] = c]
    BY <2>1, <2>2, <2>4
  <2>7. c.op # NoOp /\ (c.op.status = "returning" \/ (Writing(c) /\ c.prev = "returning"))
          => id = c.op.id /\ id \in OpIds /\ Gone(id) /\ NotNew(id)
    BY <2>1, <2>2, <2>3, <2>4, <2>5
  <2> QED
    BY <1>1, <2>4, <2>6, <2>7
<1>5. CASE EvmCreates
  <2>1. PICK o \in BridgeOperation :
          o.status = "pending" /\ client' = [client EXCEPT ![EvmScan] = UpsertCall(o)]
    BY <1>5 DEF EvmCreates
  <2>2. PICK c : /\ c = UpsertCall(o) /\ c.cmd = "set" /\ c.op = o
                 /\ c.prev = "pending" /\ c.keys = {}
    BY UpsertCallFacts
  <2> QED
    BY <1>1, <2>1, <2>2
<1> QED
  BY <1>2, <1>3, <1>4, <1>5

(* A block is mined, or nothing happens.                                   *)
LEMMA MineCalm ==
  ASSUME Steady, CalmStore, UNCHANGED <<sharedVars, executorVars, evm>>
  PROVE  CalmStore'
<1> USE DEF CalmStore
<1>1. UNCHANGED <<records, indexed, client, pc, op, payouts, lostAnswers>>
  BY DEF sharedVars, keptVars, storeVars, executorVars
<1>2. StaysGone
  BY <1>1, GoneElsewhere DEF StaysGone
<1>3. ReturnedAreGone'
  BY <1>1, <1>2, ReturnedStays
<1>4. KeysHaveRecords'
  BY <1>1, RecordsStay
<1>5. MovedBeforePaying' /\ PaidAreGone'
  BY <1>1, <1>2, PaidStay DEF MovedBeforePaying, PendingKey
<1> QED
  BY <1>3, <1>4, <1>5

(* A command that is sent to the store and does not fail.                  *)
LEMMA StoreCalm ==
  ASSUME Steady, CalmStore, NEW w \in {Exec, BglScan, EvmScan}, StoreStep(w),
         redisErrors' = redisErrors, UNCHANGED <<executorVars, bglVars, evmVars>>
  PROVE  CalmStore'
<1>1. CASE SScan(w) \/ Get(w)
  BY <1>1, ReadCalm
<1>2. CASE Write(w)
  BY <1>2, WriteCalm
<1>3. ~ RedisFails(w)
  <2>1. redisErrors \in Nat /\ (RedisFails(w) => redisErrors' = redisErrors + 1)
    BY SharedAssumption DEF RedisFails, Steady, TypeOK, SharedTypeOK
  <2> QED
    BY <2>1
<1> QED
  BY <1>1, <1>2, <1>3 DEF StoreStep

(* What a step that is no failure does to the store. *)
LEMMA CalmStoreStep ==
  ASSUME Steady, CalmStore, [Next]_vars, Calm, Calm'
  PROVE  CalmStore'
<1> USE DEF Calm
<1>1. CASE ExecutorStep /\ UNCHANGED <<bglVars, evmVars>>
  BY <1>1, ExecutorCalm, StoreCalm
<1>2. CASE BglStep /\ UNCHANGED <<executorVars, evmVars>>
  <2>1. SharedTypeOK /\ BglTypeOK /\ BglAgrees
    BY DEF Steady, TypeOK, Always, CopiesInv
  <2>2. CASE StoreStep(BglScan) /\ UNCHANGED bglVars
    BY <1>2, <2>2, StoreCalm
  <2> QED
    BY <1>2, <2>1, <2>2, BglShapes, BglCalm
<1>3. CASE EvmStep /\ UNCHANGED <<executorVars, bglVars>>
  <2>1. SharedTypeOK /\ EvmTypeOK /\ ScanBounds /\ EvmAgrees
    BY DEF Steady, TypeOK, Always, CopiesInv
  <2>2. CASE StoreStep(EvmScan) /\ UNCHANGED evmVars
    BY <1>3, <2>2, StoreCalm
  <2> QED
    BY <1>3, <2>1, <2>2, EvmShapes, EvmCalm
<1>4. CASE BglMine /\ UNCHANGED <<executorVars, evmVars>>
  BY <1>4, MineCalm DEF BglMine, evmVars
<1>5. CASE /\ EvmMine({t \in EVMDeposits \union EvmPayouts : ~ Mined(t)})
           /\ UNCHANGED <<executorVars, bglVars>>
  BY <1>5, MineCalm DEF EvmMine
<1>6. ~ SharedReset
  BY DEF SharedReset
<1>7. CASE UNCHANGED vars
  BY <1>7, MineCalm DEF vars, evmVars
<1> QED
  BY <1>1, <1>2, <1>3, <1>4, <1>5, <1>6, <1>7 DEF Next

(***************************************************************************)
(* What the BGL scanner has listed and what it has created.                *)
(***************************************************************************)
LEMMA OrderSame ==
  ASSUME BglInOrder, ListedOnce, UNCHANGED <<issued, bglHeight, bglBlock, bglCursor, bgl>>
  PROVE  BglInOrder' /\ ListedOnce'
BY DEF BglInOrder, ListedOnce, BglScanning, BglReach, LastBlock

(* The scanner outside the store, as long as nothing fails.                *)
LEMMA OrderStep ==
  ASSUME Steady, BglInOrder, ListedOnce,
         BglAway \/ BglSearches \/ BglCreates, redisErrors' = redisErrors
  PROVE  BglInOrder' /\ ListedOnce'
<1>0. /\ bglHeight \in Nat /\ bglCursor \in Nat /\ bglBlock \in [BGLDeposits -> Nat]
      /\ bgl.since \in Nat /\ bgl.last \in Nat /\ bgl.txs \subseteq BGLDeposits
      /\ LastBlock \in Int /\ redisErrors \in Nat
  BY BglLocalsAre, ScanBGLAssumption, SharedAssumption, SMT
     DEF Steady, TypeOK, BglTypeOK, SharedTypeOK, LastBlock
<1>1. UNCHANGED <<bglHeight, bglBlock>> /\ LastBlock' = LastBlock
  BY DEF BglAway, BglSearches, BglCreates, LastBlock
<1>2. CASE BglAway
  <2>1. UNCHANGED issued
    BY <1>2 DEF BglAway
  <2>2. CASE /\ bgl.pc \in {"sleep", "list"} /\ bgl'.pc \in {"sleep", "exited"}
             /\ bglCursor' = bglCursor
    BY <1>1, <2>1, <2>2 DEF BglInOrder, ListedOnce, BglScanning, BglReach
  <2>3. CASE /\ bgl.pc = "sleep" /\ bgl'.pc = "list" /\ bgl'.since = bglCursor
             /\ bglCursor' = bglCursor
    BY <1>1, <2>1, <2>3 DEF BglInOrder, ListedOnce, BglScanning, BglReach
  <2>4. CASE /\ bgl.pc = "list" /\ bgl'.pc = "next" /\ bgl'.last = LastBlock
             /\ bgl'.txs = {d \in SinceBlock(bgl.since) : BglConfirmed(d)}
             /\ bglCursor' = bglCursor
    <3>1. /\ bgl.since = bglCursor /\ bglCursor <= LastBlock
          /\ \A p \in issued : p[2] \in BGLDeposits => bglBlock[p[2]] \in 1 .. bglCursor
      BY <2>4 DEF BglInOrder, ListedOnce, BglReach, BglScanning
    <3>2. \A d \in bgl'.txs :
            d \in BGLDeposits /\ bglBlock[d] > bglCursor /\ bglBlock[d] \in 1 .. LastBlock
      <4> TAKE d \in bgl'.txs
      <4>1. d \in BGLDeposits /\ bglBlock[d] > bgl.since /\ BglConfirmed(d)
        BY <2>4 DEF SinceBlock
      <4> QED
        BY <1>0, <3>1, <4>1, ScanBGLAssumption, SMT DEF BglConfirmed, LastBlock
    <3>3. \A p \in issued : p[2] \notin bgl'.txs
      BY <1>0, <3>1, <3>2, SMT
    <3>4. \A p \in issued : p[2] \in BGLDeposits => bglBlock[p[2]] \in 1 .. LastBlock
      BY <1>0, <3>1, SMT
    <3> QED
      BY <1>0, <1>1, <2>1, <2>4, <3>1, <3>2, <3>3, <3>4
         DEF BglInOrder, ListedOnce, BglScanning, BglReach
  <2>5. CASE /\ BglScanning /\ bgl'.pc = "next" /\ bgl'.last = bgl.last
             /\ bgl'.txs \subseteq bgl.txs /\ bglCursor' = bglCursor
    BY <1>1, <2>1, <2>5 DEF BglInOrder, ListedOnce, BglScanning, BglReach
  <2>6. CASE bgl.pc = "next" /\ bgl'.pc = "sleep" /\ bglCursor' = bgl.last
    BY <1>1, <2>1, <2>6 DEF BglInOrder, ListedOnce, BglScanning, BglReach
  <2>7. redisErrors' # redisErrors + 1
    BY <1>0
  <2> QED
    BY <1>2, <2>2, <2>3, <2>4, <2>5, <2>6, <2>7 DEF BglAway
<1>3. CASE BglSearches
  <2>1. PICK d \in bgl.txs : bgl'.tx = d /\ bgl'.txs = bgl.txs \ {d}
    BY <1>3 DEF BglSearches
  <2>2. /\ bgl.pc = "next" /\ bgl'.pc = "dedupe" /\ bgl'.last = bgl.last
        /\ UNCHANGED <<issued, bglCursor>>
    BY <1>3 DEF BglSearches
  <2> QED
    BY <1>1, <2>1, <2>2 DEF BglInOrder, ListedOnce, BglScanning, BglReach
<1>4. CASE BglCreates
  <2>1. PICK o \in BridgeOperation :
          /\ issued' = issued \union {<<o.id, o.deposit>>}
          /\ \/ bgl.pc = "next" /\ o.deposit \in bgl.txs /\ bgl'.txs = bgl.txs \ {o.deposit}
             \/ bgl.pc = "dedupe" /\ o.deposit = bgl.tx /\ bgl'.txs = bgl.txs
    BY <1>4 DEF BglCreates
  <2>2. PICK id, d : id = o.id /\ d = o.deposit
    OBVIOUS
  <2>3. /\ bgl'.pc = "store" /\ bgl'.last = bgl.last /\ UNCHANGED bglCursor
        /\ BglScanning
    BY <1>4, <2>1 DEF BglCreates, BglScanning
  <2>4. /\ bglBlock[d] \in 1 .. bgl.last
        /\ \A p \in issued : p[2] # d
        /\ d \notin bgl'.txs /\ bgl'.txs \subseteq bgl.txs
    BY <2>1, <2>2 DEF ListedOnce, BglScanning
  <2>5. PICK n : n = <<id, d>>
    OBVIOUS
  <2>6. n[2] = d
    BY <2>5
  <2>7. \A p \in issued' : p \in issued \/ (p = n /\ p[2] = d)
    BY <2>1, <2>2, <2>5, <2>6
  <2>8. BglInOrder'
    BY <1>1, <2>3 DEF BglInOrder, BglScanning
  <2>9. \A p, q \in issued' : p[2] = q[2] /\ p[2] \in BGLDeposits => p = q
    BY <2>4, <2>7 DEF ListedOnce
  <2>10. \A p \in issued' : p[2] \in BGLDeposits => bglBlock[p[2]] \in 1 .. bgl.last
    BY <2>3, <2>4, <2>7 DEF ListedOnce, BglReach
  <2>11. \A p \in issued' : p[2] \notin bgl'.txs
    BY <2>3, <2>4, <2>7 DEF ListedOnce
  <2>12. \A e \in bgl'.txs : bglBlock[e] \in 1 .. bgl.last
    BY <2>3, <2>4 DEF ListedOnce
  <2> QED
    BY <1>1, <2>3, <2>8, <2>9, <2>10, <2>11, <2>12 DEF ListedOnce, BglScanning, BglReach
<1> QED
  BY <1>2, <1>3, <1>4

(* A block gives new deposits a height, and all outputs of a transaction   *)
(* the same.                                                               *)
LEMMA OrderMine ==
  ASSUME Steady, BglInOrder, ListedOnce, BglMine
  PROVE  BglInOrder' /\ ListedOnce'
<1>0. /\ bglHeight \in Nat /\ bglCursor \in Nat /\ bglBlock \in [BGLDeposits -> Nat]
      /\ bgl.last \in Nat /\ bgl.txs \subseteq BGLDeposits /\ Confirmations \in Nat
  BY BglLocalsAre, ScanBGLAssumption, SMT DEF Steady, TypeOK, BglTypeOK
<1>1. PICK H \in SUBSET {SourceTx[d] : d \in {e \in BGLDeposits : bglBlock[e] = 0}} :
        bglBlock' = [d \in BGLDeposits |->
                       IF SourceTx[d] \in H THEN bglHeight + 1 ELSE bglBlock[d]]
  BY DEF BglMine
<1>2. UNCHANGED <<issued, bglCursor, bgl>> /\ bglHeight' = bglHeight + 1
  BY DEF BglMine, sharedVars, keptVars
<1>3. \A d \in BGLDeposits : bglBlock[d] > 0 => bglBlock'[d] = bglBlock[d]
  <2> SUFFICES ASSUME NEW d \in BGLDeposits, bglBlock[d] > 0, SourceTx[d] \in H PROVE FALSE
    BY <1>1
  <2>1. PICK e \in BGLDeposits : bglBlock[e] = 0 /\ SourceTx[d] = SourceTx[e]
    OBVIOUS
  <2>2. bglBlock[d] = bglBlock[e]
    BY <2>1 DEF BglInOrder
  <2> QED
    BY <2>1, <2>2
<1>4. \A d, e \in BGLDeposits : SourceTx[d] = SourceTx[e] => bglBlock'[d] = bglBlock'[e]
  BY <1>1 DEF BglInOrder
<1>5. LastBlock \in Int /\ LastBlock' = LastBlock + 1
  BY <1>0, <1>2, SMT DEF LastBlock
<1>6. BglInOrder'
  BY <1>0, <1>2, <1>4, <1>5, SMT DEF BglInOrder, BglScanning
<1>7. \A d \in BGLDeposits, n \in Nat : bglBlock[d] \in 1 .. n => bglBlock'[d] \in 1 .. n
  BY <1>0, <1>3, SMT
<1>8. BglReach \in Nat /\ BglReach' = BglReach
  BY <1>0, <1>2 DEF BglReach, BglScanning
<1>9. bgl.pc = "dedupe" => bgl.tx \in BGLDeposits
  BY DEF Steady, Always, CopiesInv, BglAgrees
<1>10. ListedOnce'
  BY <1>0, <1>2, <1>7, <1>8, <1>9 DEF ListedOnce, BglScanning
<1> QED
  BY <1>6, <1>10

LEMMA CalmOrderStep ==
  ASSUME Steady, BglInOrder, ListedOnce, [Next]_vars, Calm, Calm'
  PROVE  BglInOrder' /\ ListedOnce'
<1> USE DEF Calm
<1>0. SharedTypeOK /\ ExecutorTypeOK /\ BglTypeOK /\ EvmTypeOK /\ ScanBounds
      /\ BglAgrees /\ EvmAgrees
  BY DEF Steady, TypeOK, Always, CopiesInv
<1>1. ASSUME NEW w, StoreStep(w) PROVE UNCHANGED issued
  BY <1>1 DEF StoreStep, SScan, Get, Write, RedisFails, keptVars
<1>2. CASE ExecutorStep /\ UNCHANGED <<bglVars, evmVars>>
  <2>1. UNCHANGED issued
    BY <1>0, <1>1, <1>2, ExecutorShapes
       DEF Poll, Fetch, TakesNote, GoesOn, Saves, StoreSame, keptVars
  <2> QED
    BY <1>2, <2>1, OrderSame DEF bglVars
<1>3. CASE BglStep /\ UNCHANGED <<executorVars, evmVars>>
  <2>1. CASE StoreStep(BglScan) /\ UNCHANGED bglVars
    BY <1>1, <2>1, OrderSame DEF bglVars
  <2> QED
    BY <1>0, <1>3, <2>1, BglShapes, OrderStep
<1>4. CASE EvmStep /\ UNCHANGED <<executorVars, bglVars>>
  <2>1. CASE UNCHANGED issued
    BY <1>4, <2>1, OrderSame DEF bglVars
  <2>2. CASE EvmCreates
    <3>1. PICK o \in BridgeOperation :
            o.deposit \in EVMDeposits /\ issued' = issued \union {<<o.id, o.deposit>>}
      BY <2>2 DEF EvmCreates
    <3>2. PICK id, d : id = o.id /\ d = o.deposit
      OBVIOUS
    <3>3. PICK n : n = <<id, d>>
      OBVIOUS
    <3>4. n[2] \notin BGLDeposits
      BY <3>1, <3>2, <3>3, Goroutines
    <3>5. \A p \in issued' : p \in issued \/ p[2] \notin BGLDeposits
      BY <3>1, <3>2, <3>3, <3>4
    <3>6. UNCHANGED <<bglHeight, bglBlock, bglCursor, bgl>> /\ bgl.txs \subseteq BGLDeposits
      BY <1>0, <1>4, BglLocalsAre DEF bglVars
    <3>7. bgl.pc = "dedupe" => bgl.tx \in BGLDeposits
      BY <1>0 DEF BglAgrees
    <3>8. BglInOrder'
      BY <3>6 DEF BglInOrder, BglScanning, LastBlock
    <3>9. ListedOnce'
      BY <3>5, <3>6, <3>7 DEF ListedOnce, BglScanning, BglReach
    <3> QED
      BY <3>8, <3>9
  <2> QED
    BY <1>0, <1>1, <1>4, <2>1, <2>2, EvmShapes DEF EvmAway, EvmSearches, EvmSettles
<1>5. CASE BglMine
  BY <1>5, OrderMine
<1>6. CASE /\ EvmMine({t \in EVMDeposits \union EvmPayouts : ~ Mined(t)})
           /\ UNCHANGED <<executorVars, bglVars>>
  BY <1>6, OrderSame DEF EvmMine, bglVars, sharedVars, keptVars
<1>7. ~ SharedReset
  BY DEF SharedReset
<1>8. CASE UNCHANGED vars
  BY <1>8, OrderSame DEF vars, bglVars, sharedVars, keptVars
<1> QED
  BY <1>2, <1>3, <1>4, <1>5, <1>6, <1>7, <1>8 DEF Next

(***************************************************************************)
(* The theorems.                                                           *)
(***************************************************************************)

(* What has failed stays failed. *)
LEMMA CalmBefore ==
  ASSUME Steady, [Next]_vars, Calm'
  PROVE  Calm
<1>0. /\ SharedTypeOK /\ ExecutorTypeOK /\ BglTypeOK /\ EvmTypeOK /\ ScanBounds
      /\ BglAgrees /\ EvmAgrees /\ redisErrors \in Nat /\ restarts \in Nat
  BY SharedAssumption DEF Steady, TypeOK, SharedTypeOK, Always, CopiesInv
<1> SUFFICES /\ redisErrors' \in {redisErrors, redisErrors + 1}
             /\ restarts' \in {restarts, restarts + 1}
  BY <1>0 DEF Calm
<1>1. ASSUME NEW w, StoreStep(w)
      PROVE  redisErrors' \in {redisErrors, redisErrors + 1} /\ UNCHANGED restarts
  BY <1>1 DEF StoreStep, SScan, Get, Write, RedisFails, keptVars, flags
<1>2. CASE ExecutorStep /\ UNCHANGED <<bglVars, evmVars>>
  BY <1>0, <1>1, <1>2, ExecutorShapes
     DEF Poll, Fetch, TakesNote, GoesOn, Saves, StoreSame, keptVars, flags
<1>3. CASE BglStep /\ UNCHANGED <<executorVars, evmVars>>
  BY <1>0, <1>1, <1>3, BglShapes DEF BglAway, BglSearches, BglCreates
<1>4. CASE EvmStep /\ UNCHANGED <<executorVars, bglVars>>
  BY <1>0, <1>1, <1>4, EvmShapes DEF EvmAway, EvmSearches, EvmSettles, EvmCreates
<1>5. CASE UNCHANGED sharedVars
  BY <1>5 DEF sharedVars, keptVars, flags
<1>6. CASE SharedReset
  BY <1>6 DEF SharedReset, keptVars
<1> QED
  BY <1>2, <1>3, <1>4, <1>5, <1>6 DEF Next, vars, BglMine, EvmMine

LEMMA InitCalm == Init => CalmInv
<1> SUFFICES ASSUME Init PROVE CalmInv
  OBVIOUS
<1>1. /\ indexed = {} /\ issued = {} /\ client = [w \in Workers |-> Idle]
      /\ pc = "poll" /\ payouts = <<>>
      /\ bglHeight = Confirmations /\ bglCursor = 0 /\ bgl = BglAsleep
      /\ bglBlock = [d \in BGLDeposits |-> 0]
  BY DEF Init, SharedInit, ExecutorInit, BglInit
<1>2. \A w \in {Exec, BglScan, EvmScan} : client[w] = Idle
  BY <1>1, Goroutines
<1>3. DOMAIN payouts = {}
  BY <1>1, SMT
<1>4. ReturnedAreGone /\ KeysHaveRecords
  BY <1>1, <1>2, IdleFacts DEF ReturnedAreGone, Writing, KeysHaveRecords, Scanners
<1>5. MovedBeforePaying /\ PaidAreGone
  BY <1>1, <1>3 DEF MovedBeforePaying, PaidAreGone
<1>6. 0 <= LastBlock
  BY <1>1, ScanBGLAssumption, SMT DEF LastBlock
<1>7. BglInOrder /\ ListedOnce
  BY <1>1, <1>6, BglAsleepFacts DEF BglInOrder, ListedOnce, BglScanning
<1> QED
  BY <1>4, <1>5, <1>7 DEF CalmInv

(* BridgeInv is inductive. *)
LEMMA BridgeInductive ==
  /\ Init => TypeOK /\ BridgeInv
  /\ TypeOK /\ BridgeInv /\ [Next]_vars => TypeOK' /\ BridgeInv'
<1>1. Init => TypeOK /\ BridgeInv
  BY InitTypes, InitAlways, InitCalm DEF BridgeInv, Always
<1>2. ASSUME TypeOK, BridgeInv, [Next]_vars PROVE TypeOK' /\ BridgeInv'
  <2>1. Steady
    BY <1>2 DEF BridgeInv, Steady, Always
  <2>2. TypeOK'
    BY <1>2, BridgeTypes DEF BridgeInv, CopiesInv
  <2>3. ScanBounds' /\ Confirmations <= bglHeight'
    BY <1>2, BoundsStep DEF BridgeInv
  <2>4. Always'
    BY <1>2, <2>1, AlwaysStep DEF Steady
  <2>5. ASSUME Calm' PROVE CalmInv'
    <3>1. Calm /\ CalmInv
      BY <1>2, <2>1, <2>5, CalmBefore DEF BridgeInv
    <3>2. CalmStore'
      BY <1>2, <2>1, <2>5, <3>1, CalmStoreStep DEF CalmInv, CalmStore
    <3>3. BglInOrder' /\ ListedOnce'
      BY <1>2, <2>1, <2>5, <3>1, CalmOrderStep DEF CalmInv
    <3> QED
      BY <3>2, <3>3 DEF CalmInv, CalmStore
  <2> QED
    BY <2>2, <2>3, <2>4, <2>5 DEF BridgeInv, Always
<1> QED
  BY <1>1, <1>2

(* The store, the chains, the payments and the locals of every worker have *)
(* their types, and the inductive invariant holds, whatever fails.         *)
THEOREM BridgeHolds == Spec => [](TypeOK /\ BridgeInv)
BY BridgeInductive, PTL DEF Spec

(* The store, the chains and the locals of the three workers keep their    *)
(* types however their commands interleave (types/types.go, redis.go).     *)
THEOREM BridgeTyped == Spec => []TypeOK
BY BridgeHolds, PTL

(* An operation is settled only by a payment of its own, of the right      *)
(* kind, that a block contains (scanEVM.go:161-188), through any failed    *)
(* command, lost answer and restart.                                       *)
THEOREM BridgeSettlesTruly == Spec => []SettledByItsPayment
<1>1. TypeOK /\ BridgeInv => SettledByItsPayment
  <2> SUFFICES ASSUME TypeOK, BridgeInv, NEW k \in indexed,
                      k[1] \in {"success", "returnsuccess"}, records[k] # NoOp
               PROVE  LET t == records[k].destTx
                      IN  /\ Mined(t)
                          /\ payouts[t].op = k[2]
                          /\ payouts[t].kind = IF k[1] = "success" THEN "forward" ELSE "return"
    BY Zenon DEF SettledByItsPayment
  <2>1. k \in Keys
    BY DEF TypeOK, SharedTypeOK
  <2>2. Truthful(records[k]) /\ records[k].status = k[1] /\ records[k].id = k[2]
    BY <2>1 DEF BridgeInv, CopiesInv, CopiesTruthful, Filed
  <2> QED
    BY <2>2 DEF Truthful, NamesPayout
<1> QED
  BY <1>1, BridgeHolds, PTL

(* As long as no command fails and the process lives, a key without its    *)
(* record is of an operation that the EVM scanner has settled, or is about *)
(* to, while the worker was saving it (processExecution.go:253).           *)
THEOREM BridgeDanglingSettled == Spec => []DanglingIsSettled
<1>1. TypeOK /\ BridgeInv => DanglingIsSettled
  <2> SUFFICES ASSUME TypeOK, BridgeInv, Calm, NEW k \in indexed, records[k] = NoOp
               PROVE  /\ k[1] = "executing"
                      /\ \/ records[<<"success", k[2]>>] # NoOp
                         \/ /\ evm.pc = "store" /\ client[EvmScan].op # NoOp
                            /\ client[EvmScan].op.id = k[2]
    BY DEF DanglingIsSettled, Calm
  <2>1. HasRecord(k)
    BY DEF BridgeInv, CalmInv, KeysHaveRecords
  <2>2. client[EvmScan].cmd = "set" => client[EvmScan].op # NoOp
    BY Goroutines DEF TypeOK, SharedTypeOK
  <2> QED
    BY <2>1, <2>2 DEF HasRecord, Overtaken
<1> QED
  BY <1>1, BridgeHolds, PTL

(* Without a failed command, a lost answer or a restart a BGL deposit is   *)
(* paid once, whether forward or back (scanBGL.go:44,                      *)
(* processExecution.go:171).                                               *)
THEOREM BridgePaysBglOnce == Spec => []BglDepositPaidOnce
<1>1. TypeOK /\ BridgeInv => BglDepositPaidOnce
  <2> SUFFICES ASSUME BridgeInv, Calm, lostAnswers = 0,
                      NEW i \in DOMAIN payouts, NEW j \in DOMAIN payouts,
                      payouts[i].deposit = payouts[j].deposit,
                      payouts[i].deposit \in BGLDeposits
               PROVE  i = j
    BY DEF BglDepositPaidOnce, Calm
  <2>1. PICK p, q \in issued :
          /\ p = <<payouts[i].op, payouts[i].deposit>>
          /\ q = <<payouts[j].op, payouts[j].deposit>>
    BY DEF BridgeInv, CopiesInv, Traced
  <2>2. p = q
    <3>1. p[2] = q[2] /\ p[2] \in BGLDeposits
      BY <2>1
    <3> QED
      BY <3>1 DEF BridgeInv, CalmInv, ListedOnce
  <2>3. payouts[i].op = payouts[j].op
    BY <2>1, <2>2
  <2> QED
    BY <2>3 DEF BridgeInv, CalmInv, PaidAreGone
<1> QED
  BY <1>1, BridgeHolds, PTL

(***************************************************************************)
(* Payments and faults: the account that PayoutSystemProofs keeps for the  *)
(* sending worker alone, for the worker among its scanners.  What a        *)
(* scanner does leaves it as it is; what it settles or creates is not      *)
(* what the worker can still come by.                                      *)
(***************************************************************************)

(* The worker never comes again by what it was done with and was paid.     *)
LEMMA ClosedStays ==
  ASSUME Steady, [Next]_vars, NEW id \in PaidIds, Closed(id)
  PROVE  Closed(id)'
<1> USE Goroutines
<1>1. NotNew(id)
  BY Touched DEF PaidIds
<1>2. id \in OpIds
  <2>1. PICK i \in DOMAIN payouts : id = payouts[i].op
    BY DEF PaidIds
  <2>2. payouts \in Seq(Payout)
    BY DEF Steady, TypeOK, ExecutorTypeOK
  <2>3. payouts[i] \in Payout
    BY <2>1, <2>2, LenProperties, ElementOfSeq
  <2> QED
    BY <2>1, <2>3, SMT DEF Payout
<1>3. /\ SharedTypeOK /\ BglTypeOK /\ EvmTypeOK /\ ScanBounds
      /\ BglAgrees /\ EvmAgrees /\ client \in [Workers -> Client]
  BY DEF Steady, TypeOK, SharedTypeOK, Always, CopiesInv
<1>4. ASSUME client'[Exec] = client[Exec], UNCHANGED <<indexed, pc>>
      PROVE  Closed(id)'
  BY <1>4 DEF Closed, PendingKey
<1>5. CASE ExecutorStep /\ UNCHANGED <<bglVars, evmVars>>
  BY <1>1, <1>2, <1>5, ClosedOfStore, ClosedOfExecutor
<1>6. CASE BglStep /\ UNCHANGED <<executorVars, evmVars>>
  <2>1. CASE StoreStep(BglScan) /\ UNCHANGED bglVars
    BY <1>1, <1>2, <1>6, <2>1, ClosedOfStore
  <2>2. ASSUME BglAway \/ BglSearches \/ BglCreates, indexed' = indexed
        PROVE  Closed(id)'
    <3>1. \E c : client' = [client EXCEPT ![BglScan] = c]
      BY <2>2, Zenon DEF BglAway, BglSearches, BglCreates
    <3> QED
      BY <1>3, <1>4, <1>6, <2>2, <3>1 DEF executorVars
  <2> QED
    BY <1>3, <1>6, <2>1, <2>2, BglShapes
<1>7. CASE EvmStep /\ UNCHANGED <<executorVars, bglVars>>
  <2>1. CASE StoreStep(EvmScan) /\ UNCHANGED evmVars
    BY <1>1, <1>2, <1>7, <2>1, ClosedOfStore
  <2>2. ASSUME EvmAway \/ EvmSearches \/ EvmSettles \/ EvmCreates, indexed' = indexed
        PROVE  Closed(id)'
    <3>1. \E c : client' = [client EXCEPT ![EvmScan] = c]
      BY <2>2, Zenon DEF EvmAway, EvmSearches, EvmSettles, EvmCreates
    <3> QED
      BY <1>3, <1>4, <1>7, <2>2, <3>1 DEF executorVars
  <2> QED
    BY <1>3, <1>7, <2>1, <2>2, EvmShapes
<1>8. CASE UNCHANGED <<sharedVars, executorVars>>
  BY <1>4, <1>8 DEF sharedVars, keptVars, storeVars, executorVars
<1>9. CASE SharedReset /\ ExecutorReset
  <2>1. client'[Exec] = Idle /\ indexed' = indexed /\ pc' = "poll"
    BY <1>9 DEF SharedReset, ExecutorReset, keptVars, storeVars
  <2> QED
    BY <2>1, IdleFacts DEF Closed, PendingKey
<1> QED
  BY <1>5, <1>6, <1>7, <1>8, <1>9 DEF Next, vars, BglMine, EvmMine

(* The further payments and the paid operations are finitely many.         *)
LEMMA FinitelyPaid ==
  payouts \in Seq(Payout) =>
    /\ IsFiniteSet(Further) /\ Cardinality(Further) \in Nat
    /\ IsFiniteSet(Debts) /\ Cardinality(Debts) \in Nat
<1> SUFFICES ASSUME payouts \in Seq(Payout)
             PROVE  /\ IsFiniteSet(Further) /\ Cardinality(Further) \in Nat
                    /\ IsFiniteSet(Debts) /\ Cardinality(Debts) \in Nat
  OBVIOUS
<1>1. IsFiniteSet(Further) /\ IsFiniteSet(PaidIds)
  BY FinitelyMany DEF Further, Repeats, PaidIds, OpsIn
<1>2. IsFiniteSet(Debts)
  BY <1>1, FS_Subset DEF Debts
<1> QED
  BY <1>1, <1>2, FS_CardinalityType

(* The same after a step.                                                  *)
LEMMA FinitelyPaidAfter ==
  (payouts \in Seq(Payout) =>
     /\ IsFiniteSet(Further) /\ Cardinality(Further) \in Nat
     /\ IsFiniteSet(Debts) /\ Cardinality(Debts) \in Nat)'
BY FinitelyPaid, PTL

(* A payment is a further one exactly if its operation was paid before.    *)
LEMMA FurtherAppended ==
  ASSUME payouts \in Seq(Payout), NEW p \in Payout, payouts' = Append(payouts, p)
  PROVE  /\ PaidIds' = PaidIds \union {p.op}
         /\ payouts' # <<>> /\ payouts'[Len(payouts')].op = p.op
         /\ p.op \notin PaidIds => Cardinality(Further)' = Cardinality(Further)
         /\ p.op \in PaidIds => Cardinality(Further)' = Cardinality(Further) + 1
<1>1. PICK s : s = payouts
  OBVIOUS
<1>2. PICK t : t = payouts'
  OBVIOUS
<1>3. s \in Seq(Payout) /\ t = Append(s, p)
  BY <1>1, <1>2
<1>4. /\ PaidIds = OpsIn(s) /\ PaidIds' = OpsIn(t)
      /\ Further = Repeats(s) /\ Further' = Repeats(t)
  BY <1>1, <1>2 DEF PaidIds, OpsIn, Further, Repeats
<1>5. \A x : x \in OpsIn(t) <=> x \in OpsIn(s) \/ x = p.op
  BY <1>3, Appended
<1>6. t # <<>> /\ t[Len(t)].op = p.op
  BY <1>3, Appended
<1>7. /\ p.op \notin OpsIn(s) => Cardinality(Repeats(t)) = Cardinality(Repeats(s))
      /\ p.op \in OpsIn(s) => Cardinality(Repeats(t)) = Cardinality(Repeats(s)) + 1
  BY <1>3, Appended
<1>8. OpsIn(t) = OpsIn(s) \union {p.op}
  BY <1>5
<1> QED
  BY <1>2, <1>4, <1>6, <1>7, <1>8

(* What a step does to payments and faults: it pays the operation in hand, *)
(* answered or not, or the process is restarted, or neither.               *)
Pays ==
  /\ payouts' # payouts /\ PaysOnce /\ UNCHANGED <<issued, restarts>>
  /\ op'.id = op.id /\ pc' # "fetch"
  /\ \/ lostAnswers' = lostAnswers + 1
     \/ lostAnswers' = lostAnswers /\ pc' = "saved"

LEMMA PaymentCases ==
  ASSUME Steady, [Next]_vars
  PROVE  \/ Pays
         \/ SharedReset /\ ExecutorReset
         \/ UNCHANGED <<payouts, restarts, lostAnswers>>
<1>0. /\ SharedTypeOK /\ ExecutorTypeOK /\ BglTypeOK /\ EvmTypeOK /\ ScanBounds
      /\ BglAgrees /\ EvmAgrees
  BY DEF Steady, TypeOK, Always, CopiesInv
<1>1. ASSUME NEW w, StoreStep(w) PROVE restarts' = restarts
  BY <1>1 DEF StoreStep, SScan, Get, Write, RedisFails, keptVars, flags
<1>2. CASE ExecutorStep /\ UNCHANGED <<bglVars, evmVars>>
  <2>1. CASE StoreStep(Exec) /\ UNCHANGED executorVars
    BY <1>1, <2>1 DEF executorVars
  <2>2. CASE Poll \/ Fetch \/ TakesNote
    BY <2>2 DEF Poll, Fetch, TakesNote, StoreSame, flags
  <2>3. CASE GoesOn
    BY <2>3 DEF GoesOn, StoreSame, Unanswered, Pays
  <2>4. ASSUME NEW o \in BridgeOperation, NEW next, Saves(o, next)
        PROVE  Pays \/ UNCHANGED <<payouts, restarts, lostAnswers>>
    BY <2>4 DEF Saves, Save, StoreSame, Unanswered, Pays
  <2> QED
    BY <1>0, <1>2, <2>1, <2>2, <2>3, <2>4, ExecutorShapes
<1>3. CASE BglStep /\ UNCHANGED <<executorVars, evmVars>>
  BY <1>0, <1>1, <1>3, BglShapes DEF executorVars
<1>4. CASE EvmStep /\ UNCHANGED <<executorVars, bglVars>>
  BY <1>0, <1>1, <1>4, EvmShapes DEF executorVars
<1>5. CASE UNCHANGED <<sharedVars, executorVars>>
  BY <1>5 DEF sharedVars, flags, executorVars
<1> QED
  BY <1>2, <1>3, <1>4, <1>5 DEF Next, vars, BglMine, EvmMine

(* Whoever is paid again is a debt; a payment made no longer is.           *)
LEMMA DebtsPaying ==
  ASSUME Steady, [Next]_vars, Pays
  PROVE  /\ op.id \in PaidIds => op.id \in Debts
         /\ Debts' \subseteq Debts \union {op.id}
         /\ pc' = "saved" => Debts' \subseteq Debts \ {op.id}
<1>1. PICK p \in Payout : payouts' = Append(payouts, p) /\ p.op = op.id
  BY DEF Pays, PaysOnce
<1>2. Handling /\ pc \in {"forward", "return"}
  BY DEF Pays, PaysOnce, PayoutKinds, Handling
<1>3. /\ PaidIds' = PaidIds \union {op.id}
      /\ payouts' # <<>> /\ payouts'[Len(payouts')].op = op.id
  BY <1>1, FurtherAppended DEF Steady, TypeOK, ExecutorTypeOK
<1>4. \A id : ~ BeingSettled(id)
  BY <1>2 DEF BeingSettled
<1>5. ASSUME NEW id \in Debts', id # op.id
      PROVE  id \in Debts
  <2>1. id \in PaidIds /\ Payable(id)'
    BY <1>3, <1>5 DEF Debts
  <2>2. Payable(id)
    BY <1>5, <2>1, ClosedStays DEF Payable, Pays
  <2> QED
    BY <1>4, <2>1, <2>2 DEF Debts
<1>6. pc' = "saved" => op.id \notin Debts'
  <2>1. PICK id : id = op.id
    OBVIOUS
  <2>2. pc' = "saved" => BeingSettled(id)'
    BY <1>3, <2>1 DEF BeingSettled, Pays
  <2>3. pc' = "saved" => id \notin Debts'
    BY <2>2 DEF Debts
  <2> QED
    BY <2>1, <2>3
<1>7. op.id \in PaidIds => op.id \in Debts
  BY <1>2, <1>4 DEF Debts, Payable
<1> QED
  BY <1>5, <1>6, <1>7

(* Without a payment and a restart no debt arises.                         *)
LEMMA DebtsPassing ==
  ASSUME Steady, [Next]_vars, payouts' = payouts, restarts' = restarts
  PROVE  Debts' \subseteq Debts
<1> SUFFICES ASSUME NEW id \in PaidIds, Payable(id)', ~ BeingSettled(id)'
             PROVE  Payable(id) /\ ~ BeingSettled(id)
  BY DEF Debts, PaidIds
<1>0. /\ SharedTypeOK /\ ExecutorTypeOK /\ BglTypeOK /\ EvmTypeOK /\ ScanBounds
      /\ BglAgrees /\ EvmAgrees /\ ExecutorAgrees /\ Moved /\ restarts \in Nat
  BY SharedAssumption, SMT DEF Steady, TypeOK, SharedTypeOK, Always, CopiesInv
<1>1. ~ Closed(id)' => ~ Closed(id)
  BY ClosedStays
<1>2. ASSUME UNCHANGED <<pc, op, workerShutdown>>
      PROVE  Payable(id) /\ ~ BeingSettled(id)
  BY <1>1, <1>2 DEF Payable, Handling, BeingSettled
(* The worker goes on with the operation it has, or with none. *)
<1>3. ASSUME Handling, op'.id = op.id \/ ~ Handling'
      PROVE  Payable(id) /\ ~ BeingSettled(id)
  BY <1>1, <1>3 DEF Payable, Handling, BeingSettled
<1>4. ASSUME NEW w, StoreStep(w) PROVE workerShutdown' = workerShutdown
  BY <1>4 DEF StoreStep, SScan, Get, Write, RedisFails, keptVars, flags
<1>5. CASE ExecutorStep /\ UNCHANGED <<bglVars, evmVars>>
  <2>1. CASE StoreStep(Exec) /\ UNCHANGED executorVars
    BY <1>2, <1>4, <2>1 DEF executorVars
  <2>2. CASE Poll
    <3>1. pc = "poll" /\ pc' = "fetch" /\ ~ workerShutdown
      BY <2>2 DEF Poll
    <3> QED
      BY <1>1, <3>1 DEF Payable, Handling, BeingSettled
  <2>3. CASE Fetch
    <3>1. /\ pc = "fetch" /\ op' = client[Exec].op
          /\ pc' = IF client[Exec].op = NoOp THEN "poll" ELSE "address"
      BY <2>3 DEF Fetch
    <3>2. Handling' => op' # NoOp
      BY <3>1 DEF Handling
    <3>3. Handling' /\ op'.id = id => ~ Closed(id)
      BY <3>1, <3>2 DEF Closed
    <3>4. ~ workerShutdown
      BY <1>0, <3>1 DEF ExecutorAgrees
    <3> QED
      BY <1>1, <3>1, <3>3, <3>4 DEF Payable, BeingSettled
  <2>4. CASE TakesNote
    <3>1. CASE pc = "mark"
      BY <1>3, <2>4, <3>1 DEF TakesNote, Handling
    <3>2. CASE pc = "saved"
      <4>1. /\ client[Exec].cmd \in {"ok", "err"} /\ pc' = "poll"
            /\ workerShutdown' = (workerShutdown \/ client[Exec].cmd = "err")
        BY <2>4, <3>2 DEF TakesNote, Returned, Failed
      <4>2. ~ Handling' /\ ~ Closed(id)
        BY <1>1, <4>1 DEF Payable, Handling
      <4>3. client[Exec].cmd = "ok" => PendingKey(op.id) \notin indexed
        BY <1>0, <3>2 DEF Moved
      <4>4. client[Exec].keys = {}
        BY <1>0, <3>2 DEF ExecutorAgrees
      <4>5. client[Exec].cmd = "ok" /\ op.id = id => Closed(id)
        BY <3>2, <4>3, <4>4 DEF Closed
      <4>6. client[Exec].cmd = "err" /\ op.id = id => ~ BeingSettled(id)
        BY <4>1 DEF BeingSettled
      <4> QED
        BY <3>2, <4>1, <4>2, <4>5, <4>6 DEF Payable, BeingSettled
    <3> QED
      BY <2>4, <3>1, <3>2 DEF TakesNote
  <2>5. CASE GoesOn
    <3>1. /\ op' = op /\ workerShutdown' = workerShutdown
          /\ (pc = "poll" /\ pc' = "exited") \/ Handling
      BY <2>5 DEF GoesOn, Handling
    <3>2. CASE pc = "poll" /\ pc' = "exited"
      BY <1>1, <3>1, <3>2 DEF Payable, Handling, BeingSettled
    <3> QED
      BY <1>3, <3>1, <3>2
  <2>6. ASSUME NEW o \in BridgeOperation, NEW next, Saves(o, next)
        PROVE  Payable(id) /\ ~ BeingSettled(id)
    BY <1>3, <2>6 DEF Saves, Save, Handling
  <2> QED
    BY <1>0, <1>5, <2>1, <2>2, <2>3, <2>4, <2>5, <2>6, ExecutorShapes
<1>6. CASE BglStep /\ UNCHANGED <<executorVars, evmVars>>
  BY <1>0, <1>2, <1>4, <1>6, BglShapes DEF executorVars
<1>7. CASE EvmStep /\ UNCHANGED <<executorVars, bglVars>>
  BY <1>0, <1>2, <1>4, <1>7, EvmShapes DEF executorVars
<1>8. CASE UNCHANGED <<sharedVars, executorVars>>
  BY <1>2, <1>8 DEF sharedVars, flags, executorVars
<1>9. ~ SharedReset
  BY <1>0, SMT DEF SharedReset
<1> QED
  BY <1>5, <1>6, <1>7, <1>8, <1>9 DEF Next, vars, BglMine, EvmMine

(* A restart may bring back one operation: the one last paid.              *)
LEMMA DebtsRestarting ==
  ASSUME Steady, [Next]_vars, SharedReset, ExecutorReset
  PROVE  \E id : Debts' \subseteq Debts \union {id}
<1>1. PICK last : last = payouts[Len(payouts)].op
  OBVIOUS
<1>2. payouts' = payouts /\ ~ Handling'
  BY DEF ExecutorReset, Handling
<1>3. ASSUME NEW id \in PaidIds, id # last, Payable(id)'
      PROVE  id \in Debts
  <2>1. ~ Closed(id)
    BY <1>2, <1>3, ClosedStays DEF Payable
  <2> QED
    BY <1>1, <1>3, <2>1 DEF Debts, Payable, BeingSettled
<1>4. PaidIds' = PaidIds
  BY <1>2 DEF PaidIds
<1> QED
  BY <1>3, <1>4 DEF Debts

(* Every step keeps the account of payments and faults.                    *)
LEMMA WithinExcusesStep ==
  ASSUME Steady, TypeOK', WithinExcuses, [Next]_vars
  PROVE  WithinExcuses'
<1> DEFINE f == Cardinality(Further)
           d == Cardinality(Debts)
<1>1. /\ payouts \in Seq(Payout) /\ payouts' \in Seq(Payout)
      /\ restarts \in Nat /\ lostAnswers \in Nat
  BY SharedAssumption, ExecutorAssumption, SMT
     DEF Steady, TypeOK, ExecutorTypeOK, SharedTypeOK
<1>2. /\ f \in Nat /\ d \in Nat /\ f' \in Nat /\ d' \in Nat
      /\ IsFiniteSet(Debts) /\ IsFiniteSet(Debts')
  BY <1>1, FinitelyPaid, FinitelyPaidAfter
<1>3. /\ Debts' \subseteq Debts => d' <= d
      /\ \A x : Debts' \subseteq Debts \union {x} =>
                d' <= d + 1 /\ (x \in Debts => d' <= d)
      /\ \A x : Debts' \subseteq Debts \ {x} =>
                d' <= d /\ (x \in Debts => d' <= d - 1)
  BY <1>2, OneApart
<1>4. f + d <= restarts + lostAnswers
  BY DEF WithinExcuses
<1>5. ASSUME f' + d' <= restarts' + lostAnswers' PROVE WithinExcuses'
  BY <1>5 DEF WithinExcuses
<1>6. CASE Pays
  <2>1. PICK p \in Payout : payouts' = Append(payouts, p) /\ p.op = op.id
    BY <1>6 DEF Pays, PaysOnce
  <2>2. /\ op.id \notin PaidIds => f' = f
        /\ op.id \in PaidIds => f' = f + 1 /\ op.id \in Debts
    BY <1>1, <1>6, <2>1, FurtherAppended, DebtsPaying
  <2>3. restarts' = restarts
    BY <1>6 DEF Pays
  <2>4. CASE lostAnswers' = lostAnswers /\ pc' = "saved"
    <3>1. Debts' \subseteq Debts \ {op.id}
      BY <1>6, <2>4, DebtsPaying
    <3>2. d' <= d /\ (op.id \in Debts => d' <= d - 1)
      BY <1>3, <3>1
    <3> QED
      BY <1>1, <1>2, <1>4, <1>5, <2>2, <2>3, <2>4, <3>2, SMT
  <2>5. CASE lostAnswers' = lostAnswers + 1
    <3>1. Debts' \subseteq Debts \union {op.id}
      BY <1>6, DebtsPaying
    <3>2. d' <= d + 1 /\ (op.id \in Debts => d' <= d)
      BY <1>3, <3>1
    <3> QED
      BY <1>1, <1>2, <1>4, <1>5, <2>2, <2>3, <2>5, <3>2, SMT
  <2> QED
    BY <1>6, <2>4, <2>5 DEF Pays
<1>7. CASE SharedReset /\ ExecutorReset
  <2>1. PICK id : Debts' \subseteq Debts \union {id}
    BY <1>7, DebtsRestarting
  <2>2. d' <= d + 1
    BY <1>3, <2>1
  <2>3. f' = f /\ restarts' = restarts + 1 /\ lostAnswers' = lostAnswers
    BY <1>7 DEF SharedReset, ExecutorReset, Further
  <2> QED
    BY <1>1, <1>2, <1>4, <1>5, <2>2, <2>3, SMT
<1>8. CASE UNCHANGED <<payouts, restarts, lostAnswers>>
  <2>1. d' <= d
    BY <1>3, <1>8, DebtsPassing
  <2>2. f' = f
    BY <1>8 DEF Further
  <2> QED
    BY <1>1, <1>2, <1>4, <1>5, <1>8, <2>1, <2>2, SMT
<1> QED
  BY <1>6, <1>7, <1>8, PaymentCases

(* In the whole process, too, every further payment of an operation, made  *)
(* or still to come, is owed to a restart or a lost answer of its own: no  *)
(* failed command and no interleaving with a scanner is another reason     *)
(* (processExecution.go:139,176).                                          *)
THEOREM BridgeFurtherExcused == Spec => []WithinExcuses
<1>1. Init => WithinExcuses
  <2> SUFFICES ASSUME Init PROVE WithinExcuses
    OBVIOUS
  <2>1. payouts = <<>> /\ restarts = 0 /\ lostAnswers = 0
    BY DEF Init, SharedInit, ExecutorInit
  <2>2. Further = {} /\ Debts = {}
    BY <2>1, SMT DEF Further, Debts, PaidIds
  <2> QED
    BY <2>1, <2>2, FS_EmptySet, SMT DEF WithinExcuses
<1>2. TypeOK /\ BridgeInv => Steady
  BY DEF BridgeInv, Steady, Always
<1>3. Steady /\ TypeOK' /\ WithinExcuses /\ [Next]_vars => WithinExcuses'
  BY WithinExcusesStep
<1> QED
  BY <1>1, <1>2, <1>3, BridgeHolds, PTL DEF Spec

(***************************************************************************)
(* Refinement of PayoutPromise: taken, ledger and excuses as               *)
(* ExecutorPromise maps them.                                              *)
(***************************************************************************)
Taken   == {p[1] : p \in issued}
Ledger  == [i \in DOMAIN payouts |-> payouts[i].op]
Excuses == restarts + lostAnswers - Cardinality(Further)

(* A payment is one that the promise allows.                               *)
LEMMA PromisePays ==
  ASSUME Steady, WithinExcuses, [Next]_vars, Pays,
         NEW new \in {0, 1}, lostAnswers' = lostAnswers + new
  PROVE  \E id \in OpIds : Promise!PayWith(id, new) /\ Taken' = Taken
<1>1. /\ payouts \in Seq(Payout) /\ restarts \in Nat /\ lostAnswers \in Nat
  BY SharedAssumption, ExecutorAssumption, SMT
     DEF Steady, TypeOK, ExecutorTypeOK, SharedTypeOK
<1>2. PICK p \in Payout : payouts' = Append(payouts, p) /\ p.op = op.id
  BY DEF Pays, PaysOnce
<1>3. PICK id : id = op.id
  OBVIOUS
<1>4. id \in Taken /\ id \in OpIds
  <2>1. op \in BridgeOperation /\ op # NoOp
    BY SharedAssumption, SMT DEF Steady, TypeOK, ExecutorTypeOK, Pays, PaysOnce, PayoutKinds
  <2>2. <<op.id, op.deposit>> \in issued
    BY <2>1 DEF Steady, Always, CopiesInv, Traced, IsIssued
  <2>3. op.id \in OpIds
    BY <2>1, SMT DEF BridgeOperation
  <2> QED
    BY <1>3, <2>2, <2>3 DEF Taken
<1>5. Ledger' = Append(Ledger, id)
  BY <1>1, <1>2, <1>3, SMT DEF Ledger
<1>6. /\ id \in PaidIds => Cardinality(Further)' = Cardinality(Further) + 1
      /\ id \notin PaidIds => Cardinality(Further)' = Cardinality(Further)
  BY <1>1, <1>2, <1>3, FurtherAppended
<1>7. Cardinality(Further) \in Nat /\ Cardinality(Debts) \in Nat /\ IsFiniteSet(Debts)
  BY <1>1, FinitelyPaid
<1>8. (\E i \in DOMAIN Ledger : Ledger[i] = id) <=> id \in PaidIds
  BY <1>1 DEF Ledger, PaidIds
<1>9. ASSUME id \in PaidIds PROVE Excuses > 0
  <2>1. id \in Debts
    BY <1>3, <1>9, DebtsPaying
  <2>2. Cardinality(Debts) # 0
    BY <1>7, <2>1, FS_EmptySet
  <2> QED
    BY <1>1, <1>7, <2>2, SMT DEF WithinExcuses, Excuses
<1>10. restarts' = restarts /\ Taken' = Taken
  BY DEF Pays, Taken
<1>11. /\ id \in PaidIds => Excuses' = Excuses + new - 1
       /\ id \notin PaidIds => Excuses' = Excuses + new
  BY <1>1, <1>6, <1>7, <1>10, SMT DEF Excuses
<1>12. Promise!PayWith(id, new)
  BY <1>4, <1>5, <1>8, <1>9, <1>11
     DEF Promise!PayWith, Promise!IsPaid, Taken, Ledger, Excuses
<1> QED
  BY <1>4, <1>10, <1>12

(* Operations are created one at a time, under ids never used.             *)
LEMMA TakenOnce ==
  ASSUME Steady, [Next]_vars, UNCHANGED <<payouts, restarts, lostAnswers>>
  PROVE  \/ issued' = issued
         \/ \E o \in BridgeOperation :
              /\ \A p \in issued : p[1] # o.id
              /\ issued' = issued \union {<<o.id, o.deposit>>}
<1>0. /\ SharedTypeOK /\ ExecutorTypeOK /\ BglTypeOK /\ EvmTypeOK /\ ScanBounds
      /\ BglAgrees /\ EvmAgrees
  BY DEF Steady, TypeOK, Always, CopiesInv
<1>1. ASSUME NEW w, StoreStep(w) PROVE issued' = issued
  BY <1>1 DEF StoreStep, SScan, Get, Write, RedisFails, keptVars
<1>2. CASE ExecutorStep /\ UNCHANGED <<bglVars, evmVars>>
  BY <1>0, <1>1, <1>2, ExecutorShapes
     DEF Poll, Fetch, TakesNote, GoesOn, Saves, StoreSame, keptVars
<1>3. CASE BglStep /\ UNCHANGED <<executorVars, evmVars>>
  BY <1>0, <1>1, <1>3, BglShapes DEF BglAway, BglSearches, BglCreates
<1>4. CASE EvmStep /\ UNCHANGED <<executorVars, bglVars>>
  BY <1>0, <1>1, <1>4, EvmShapes DEF EvmAway, EvmSearches, EvmSettles, EvmCreates
<1>5. CASE UNCHANGED sharedVars \/ SharedReset
  BY <1>5 DEF sharedVars, keptVars, SharedReset
<1> QED
  BY <1>2, <1>3, <1>4, <1>5 DEF Next, vars, BglMine, EvmMine

(* Every step is one the promise allows, or changes nothing it speaks of.  *)
LEMMA PromiseStep ==
  ASSUME Steady, WithinExcuses, [Next]_vars
  PROVE  [Promise!Next]_(Promise!vars)
<1>1. Cardinality(Further) \in Nat /\ restarts \in Nat /\ lostAnswers \in Nat
  BY FinitelyPaid, SharedAssumption, ExecutorAssumption, SMT
     DEF Steady, TypeOK, ExecutorTypeOK, SharedTypeOK
<1>2. CASE Pays /\ lostAnswers' = lostAnswers
  <2>1. lostAnswers' = lostAnswers + 0
    BY <1>1, <1>2, SMT
  <2>2. PICK id \in OpIds : Promise!PayWith(id, 0) /\ Taken' = Taken
    BY <1>2, <2>1, PromisePays
  <2>3. Promise!Pay(id)
    BY <2>2 DEF Promise!Pay, Taken
  <2> QED
    BY <2>2, <2>3 DEF Promise!Next
<1>3. CASE Pays /\ lostAnswers' = lostAnswers + 1
  <2>1. PICK id \in OpIds : Promise!PayWith(id, 1) /\ Taken' = Taken
    BY <1>3, PromisePays
  <2>2. Promise!PayUnanswered(id)
    BY <2>1 DEF Promise!PayUnanswered, Taken
  <2> QED
    BY <2>1, <2>2 DEF Promise!Next
<1>4. CASE SharedReset /\ ExecutorReset
  <2>1. /\ UNCHANGED <<issued, payouts, lostAnswers>> /\ restarts' = restarts + 1
    BY <1>4 DEF SharedReset, ExecutorReset, keptVars
  <2>2. Cardinality(Further)' = Cardinality(Further) /\ Taken' = Taken /\ Ledger' = Ledger
    BY <2>1 DEF Further, Taken, Ledger
  <2>3. Excuses' = Excuses + 1
    BY <1>1, <2>1, <2>2, SMT DEF Excuses
  <2>4. Promise!Restart
    BY <2>2, <2>3 DEF Promise!Restart, Taken, Ledger, Excuses
  <2> QED
    BY <2>4 DEF Promise!Next
<1>5. ASSUME NEW o \in BridgeOperation,
             \A p \in issued : p[1] # o.id,
             issued' = issued \union {<<o.id, o.deposit>>},
             UNCHANGED <<payouts, restarts, lostAnswers>>
      PROVE  Promise!Next
  <2>1. PICK id, d : id = o.id /\ d = o.deposit
    OBVIOUS
  <2>2. id \in OpIds
    BY <2>1, SMT DEF BridgeOperation
  <2>3. id \notin Taken /\ Taken' = Taken \union {id}
    <3>1. <<id, d>>[1] = id
      OBVIOUS
    <3>2. Taken' = {p[1] : p \in issued \union {<<id, d>>}}
      BY <1>5, <2>1 DEF Taken
    <3>3. id \notin Taken
      BY <1>5, <2>1 DEF Taken
    <3> QED
      BY <3>1, <3>2, <3>3 DEF Taken
  <2>4. Ledger' = Ledger /\ Excuses' = Excuses
    BY <1>5 DEF Ledger, Excuses, Further
  <2>5. Promise!Take(id)
    BY <2>3, <2>4 DEF Promise!Take, Taken, Ledger, Excuses
  <2> QED
    BY <2>2, <2>5 DEF Promise!Next
<1>6. CASE UNCHANGED <<issued, payouts, restarts, lostAnswers>>
  BY <1>6 DEF Promise!vars, Further
<1> QED
  BY <1>2, <1>3, <1>4, <1>5, <1>6, PaymentCases, TakenOnce DEF Pays

(* "emergency exit to avoid looping", "update record immediately to        *)
(* prevent looped sending": seen from outside, the whole process pays an   *)
(* operation once, and once more only for a restart or a lost answer that  *)
(* no other further payment was owed to, whatever the scanners do to the   *)
(* store meanwhile.                                                        *)
THEOREM BridgeKeepsPromise == Spec => KeepsPromise
<1>1. Init => Promise!Init
  <2> SUFFICES ASSUME Init PROVE Promise!Init
    OBVIOUS
  <2>1. payouts = <<>> /\ restarts = 0 /\ lostAnswers = 0 /\ issued = {}
    BY DEF Init, SharedInit, ExecutorInit
  <2>2. Further = {}
    BY <2>1, SMT DEF Further
  <2>3. Ledger = <<>>
    BY <2>1, SMT DEF Ledger
  <2>4. Excuses = 0
    BY <2>1, <2>2, FS_EmptySet, SMT DEF Excuses
  <2> QED
    BY <2>1, <2>3, <2>4 DEF Promise!Init, Ledger, Excuses
<1>2. TypeOK /\ BridgeInv => Steady
  BY DEF BridgeInv, Steady, Always
<1>3. Steady /\ WithinExcuses /\ [Next]_vars => [Promise!Next]_(Promise!vars)
  BY PromiseStep
<1> QED
  BY <1>1, <1>2, <1>3, BridgeHolds, BridgeFurtherExcused, PTL
     DEF Spec, KeepsPromise, Promise!Spec

=============================================================================
