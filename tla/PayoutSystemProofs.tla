------------------------- MODULE PayoutSystemProofs -------------------------
(***************************************************************************)
(* Proofs about the sending worker: TypeOK and the inductive invariant     *)
(* IInv of PayoutInvariants, and from it the safety properties of          *)
(* PayoutSystem; RecordsInv, by which records tell the truth about         *)
(* payments, and WithinExcuses, by which every payment too many is owed to *)
(* a fault, so that PayoutSystem implements PayoutPromise.                 *)
(***************************************************************************)
EXTENDS PayoutInvariants, SharedStateProofs, FiniteSetTheorems

(* An operation stays one when Sent names its payment.                     *)
LEMMA SentFacts ==
  ASSUME NEW o \in BridgeOperation, NEW s \in Status, NEW t \in Nat
  PROVE  /\ Sent(o, t, s) \in BridgeOperation
         /\ Sent(o, t, s).id = o.id /\ Sent(o, t, s).deposit = o.deposit
         /\ Sent(o, t, s).destTx = t /\ Sent(o, t, s).status = s
<1> DEFINE e == [o EXCEPT !.destTx = t]
<1>1. /\ e \in BridgeOperation
      /\ e.id = o.id /\ e.deposit = o.deposit /\ e.destTx = t
  BY SMT DEF BridgeOperation
<1>2. Sent(o, t, s) = [e EXCEPT !.status = s]
  BY SMT DEF Sent, BridgeOperation
<1> HIDE DEF e
<1> QED
  BY <1>1, <1>2, StatusUpdate

(* The payment appended by Accept. *)
LEMMA AcceptFacts ==
  ASSUME TypeOK, pc \in PayoutKinds, Accept
  PROVE  \E p \in Payout :
           /\ payouts' = Append(payouts, p)
           /\ p.op = op.id /\ p.deposit = op.deposit
           /\ p.kind = pc /\ p.run = restarts
<1> DEFINE p == [op |-> op.id, deposit |-> op.deposit, kind |-> pc, run |-> restarts]
<1>1. op \in BridgeOperation /\ restarts \in Nat
  BY SharedAssumption, SMT DEF TypeOK, SharedTypeOK, ExecutorTypeOK, PayoutKinds
<1>2. p \in Payout
  BY <1>1, SMT DEF Payout, BridgeOperation
<1> QED
  BY <1>2 DEF Accept

(* The initial states are well typed.                                      *)
LEMMA InitType == Init => TypeOK
<1> SUFFICES ASSUME Init PROVE TypeOK
  OBVIOUS
<1>1. SharedTypeOK
  <2>1. client = [w \in Workers |-> Idle] /\ \A w \in Workers : client[w] = Idle
    BY DEF Init, SharedInit
  <2>2. client \in [Workers -> Client]
    BY <2>1, IdleFacts
  <2>3. \A w \in Workers : client[w].cmd = "ok"
    BY <2>1, IdleFacts
  <2>4. records \in [Keys -> BridgeOperation \union {NoOp}]
    BY DEF Init, SharedInit
  <2>5. bound \subseteq Deposits /\ indexed \subseteq Keys /\ issued \subseteq OpIds \X Deposits
    BY SharedAssumption DEF Init, SharedInit
  <2>6. redisErrors \in 0 .. MaxRedisErrors /\ restarts \in 0 .. MaxRestarts
    BY SharedAssumption, SMT DEF Init, SharedInit
  <2>7. workerShutdown \in BOOLEAN
    BY DEF Init, SharedInit
  <2> QED
    BY <2>2, <2>3, <2>4, <2>5, <2>6, <2>7 DEF SharedTypeOK
<1>2. ExecutorTypeOK
  BY ExecutorAssumption, SMT DEF Init, ExecutorInit, ExecutorTypeOK
<1> QED
  BY <1>1, <1>2 DEF TypeOK

(* Every step keeps the types: one case per action.                        *)
LEMMA TypeStep == TypeOK /\ [Next]_vars => TypeOK'
<1> SUFFICES ASSUME TypeOK, [Next]_vars PROVE TypeOK'
  OBVIOUS
<1> USE SharedAssumption, ExecutorAssumption, ScannerAssumption
<1>1. ASSUME NEW w \in {Exec, Scanner}, StoreStep(w), UNCHANGED executorVars PROVE TypeOK'
  <2>1. SharedTypeOK'
    BY <1>1, SScanType, GetType, WriteType, RedisFailsType DEF TypeOK, StoreStep
  <2>2. ExecutorTypeOK'
    BY <1>1, SMT DEF TypeOK, ExecutorTypeOK, executorVars
  <2> QED
    BY <2>1, <2>2 DEF TypeOK
<1>2. ASSUME Poll PROVE TypeOK'
  BY <1>2, FindPendingFacts, SMT
     DEF Poll, TypeOK, SharedTypeOK, ExecutorTypeOK, Call, keptVars, storeVars,
         flags, PayoutKinds
<1>3. ASSUME Stop PROVE TypeOK'
  BY <1>3, SMT
     DEF Stop, TypeOK, SharedTypeOK, ExecutorTypeOK, sharedVars, keptVars,
         storeVars, flags, PayoutKinds
<1>4. ASSUME Fetch PROVE TypeOK'
  BY <1>4, IdleFacts, SMT
     DEF Fetch, TypeOK, SharedTypeOK, ExecutorTypeOK, Call, Consume, Client,
         keptVars, storeVars, flags, PayoutKinds
<1>5. ASSUME NEW o \in BridgeOperation, NEW next \in {"mark", "saved"}, Save(o, next),
             UNCHANGED <<storeVars, issued, bound, flags>>,
             redisErrors' \in 0 .. MaxRedisErrors,
             tries' \in 0 .. EvmRetries - 1,
             payouts' \in Seq(Payout), lostAnswers' \in 0 .. MaxLostAnswers
      PROVE TypeOK'
  <2>1. ChangeCall(o, "pending") \in Client /\ ChangeCall(o, "pending").op # NoOp
    BY ChangeCallFacts, SMT DEF TypeOK, Status
  <2> QED
    BY <1>5, <2>1, SMT
       DEF Save, TypeOK, SharedTypeOK, ExecutorTypeOK, Call, storeVars, flags,
           PayoutKinds
<1>6. Handling => op \in BridgeOperation
  BY SMT DEF TypeOK, ExecutorTypeOK, Handling
<1>12. ASSUME Paying, Accept PROVE payouts' \in Seq(Payout)
  BY <1>6, <1>12, SMT
     DEF Paying, Accept, Payout, Handling, PayoutKinds, BridgeOperation, TypeOK,
         SharedTypeOK, ExecutorTypeOK
<1>7. ASSUME Unroutable PROVE TypeOK'
  <2>1. Save([op EXCEPT !.status = "failed"], "saved")
    BY <1>7 DEF Unroutable
  <2>2. [op EXCEPT !.status = "failed"] \in BridgeOperation
    BY <1>6, <1>7, StatusUpdate DEF Unroutable, Handling, Status
  <2>3. redisErrors' \in 0 .. MaxRedisErrors
    BY <1>7, SMT DEF Unroutable, CommandFails, TypeOK, SharedTypeOK
  <2> QED
    BY <1>5, <1>7, <2>1, <2>2, <2>3, Zenon DEF Unroutable, TypeOK, ExecutorTypeOK
<1>8. ASSUME MarkExecuting PROVE TypeOK'
  <2>1. [op EXCEPT !.status = "executing"] \in BridgeOperation
    BY <1>6, <1>8, StatusUpdate DEF MarkExecuting, Handling, Status
  <2> QED
    BY <1>5, <1>8, <2>1, Zenon
       DEF MarkExecuting, keptVars, TypeOK, SharedTypeOK, ExecutorTypeOK
<1>9. ASSUME StartPayingBGL PROVE TypeOK'
  BY <1>9, SMT
     DEF StartPayingBGL, TypeOK, SharedTypeOK, ExecutorTypeOK, sharedVars,
         keptVars, storeVars, flags, PayoutKinds
<1>10. ASSUME Marked PROVE TypeOK'
  BY <1>10, IdleFacts, SMT
     DEF Marked, Consume, Call, TypeOK, SharedTypeOK, ExecutorTypeOK, keptVars,
         storeVars, PayoutKinds
<1>11. ASSUME Paid PROVE TypeOK'
  <2>1. PICK s \in {"executing", "returning"} :
          Save(Sent(op, Len(payouts) + 1, s), "saved")
    BY <1>11 DEF Paid
  <2>2. Sent(op, Len(payouts) + 1, s) \in BridgeOperation
    <3>1. Len(payouts) + 1 \in Nat
      BY SMT DEF TypeOK, ExecutorTypeOK
    <3> QED
      BY <1>6, <1>11, <3>1, SentFacts
         DEF Paid, Paying, PayoutKinds, Handling, Status
  <2>3. payouts' \in Seq(Payout)
    BY <1>11, <1>12 DEF Paid
  <2>4. tries' \in 0 .. EvmRetries - 1
    BY <1>11, SMT DEF Paid
  <2> QED
    BY <1>5, <1>11, <2>1, <2>2, <2>3, <2>4, Zenon
       DEF Paid, keptVars, TypeOK, SharedTypeOK, ExecutorTypeOK
<1>13. ASSUME Paying, AttemptFailed, UNCHANGED <<keptVars, flags>>,
              payouts' \in Seq(Payout), lostAnswers' \in 0 .. MaxLostAnswers
       PROVE TypeOK'
  <2>1. tries' \in 0 .. EvmRetries - 1
    BY <1>13, SMT DEF AttemptFailed, GiveUp, TypeOK, ExecutorTypeOK
  <2>2. CASE Save([op EXCEPT !.status = "returnfail"], "saved")
    <3>1. [op EXCEPT !.status = "returnfail"] \in BridgeOperation
      BY <1>6, <1>13, StatusUpdate DEF Paying, PayoutKinds, Handling, Status
    <3> QED
      BY <1>5, <1>13, <2>1, <2>2, <3>1, Zenon DEF keptVars, TypeOK, SharedTypeOK
  <2>3. CASE pc' \in {pc, "sender", "return"} /\ UNCHANGED <<op, client>>
    BY <1>13, <2>1, <2>3, SMT
       DEF Paying, TypeOK, SharedTypeOK, ExecutorTypeOK, keptVars, storeVars,
           flags, PayoutKinds
  <2> QED
    BY <1>13, <2>2, <2>3, Zenon DEF AttemptFailed, GiveUp
<1>14. ASSUME Refused PROVE TypeOK'
  BY <1>13, <1>14, Zenon DEF Refused, TypeOK, ExecutorTypeOK
<1>15. ASSUME AnswerLost PROVE TypeOK'
  <2>1. lostAnswers' \in 0 .. MaxLostAnswers
    BY <1>15, SMT DEF AnswerLost, TypeOK, ExecutorTypeOK
  <2> QED
    BY <1>12, <1>13, <1>15, <2>1 DEF AnswerLost
<1>16. ASSUME SenderFound PROVE TypeOK'
  BY <1>16, SMT
     DEF SenderFound, TypeOK, SharedTypeOK, ExecutorTypeOK, sharedVars,
         keptVars, storeVars, flags, PayoutKinds
<1>17. ASSUME SenderUnknown PROVE TypeOK'
  <2>1. [op EXCEPT !.status = "returnfail"] \in BridgeOperation
    BY <1>6, <1>17, StatusUpdate DEF SenderUnknown, Handling, Status
  <2> QED
    BY <1>5, <1>17, <2>1, Zenon
       DEF SenderUnknown, keptVars, TypeOK, SharedTypeOK, ExecutorTypeOK
<1>18. ASSUME Saved PROVE TypeOK'
  BY <1>18, IdleFacts, SMT
     DEF Saved, Consume, Call, TypeOK, SharedTypeOK, ExecutorTypeOK, keptVars,
         storeVars, PayoutKinds
<1>19. ASSUME NEW d \in Deposits, Register(d) PROVE TypeOK'
  BY <1>19, SMT
     DEF Register, TypeOK, SharedTypeOK, ExecutorTypeOK, storeVars, flags,
         executorVars
<1>20. ASSUME NEW d \in Deposits, Queue(d) PROVE TypeOK'
  <2>1. PICK id \in OpIds :
          /\ issued' = issued \union {<<id, d>>}
          /\ Call(Scanner, UpsertCall([id |-> id, status |-> "pending", deposit |-> d, destTx |-> 0]))
    BY <1>20 DEF Queue, Create
  <2> DEFINE o == [id |-> id, status |-> "pending", deposit |-> d, destTx |-> 0]
  <2>2. o \in BridgeOperation
    BY SMT DEF BridgeOperation, Status
  <2>3. UpsertCall(o) \in Client /\ UpsertCall(o).op # NoOp
    BY <2>2, UpsertCallFacts
  <2> HIDE DEF o
  <2>4. Call(Scanner, UpsertCall(o))
    BY <2>1 DEF o
  <2>5. UNCHANGED <<storeVars, bound, redisErrors, flags, executorVars>>
    BY <1>20 DEF Queue
  <2>6. client' \in [Workers -> Client]
    BY <2>3, <2>4 DEF Call, TypeOK, SharedTypeOK
  <2>7. \A w \in Workers : client'[w].cmd \in {"srem", "del", "set", "sadd"} => client'[w].op # NoOp
    BY <2>3, <2>4 DEF Call, TypeOK, SharedTypeOK
  <2>8. issued' \subseteq OpIds \X Deposits
    BY <2>1 DEF TypeOK, SharedTypeOK
  <2> QED
    BY <2>5, <2>6, <2>7, <2>8
       DEF TypeOK, SharedTypeOK, ExecutorTypeOK, storeVars, flags, executorVars
<1>21. ASSUME SharedReset, ExecutorReset PROVE TypeOK'
  <2>1. \A w \in Workers : client'[w] = Idle
    BY <1>21 DEF SharedReset
  <2>2. client' \in [Workers -> Client]
    BY <1>21, IdleFacts DEF SharedReset
  <2>3. \A w \in Workers : client'[w].cmd = "ok"
    BY <2>1, IdleFacts
  <2>4. restarts' \in 0 .. MaxRestarts
    BY <1>21, SMT DEF SharedReset, TypeOK, SharedTypeOK
  <2>5. SharedTypeOK'
    BY <1>21, <2>2, <2>3, <2>4
       DEF SharedReset, TypeOK, SharedTypeOK, keptVars, storeVars
  <2>6. ExecutorTypeOK'
    BY <1>21, SMT DEF ExecutorReset, TypeOK, ExecutorTypeOK
  <2> QED
    BY <2>5, <2>6 DEF TypeOK
<1>22. ASSUME UNCHANGED vars PROVE TypeOK'
  BY <1>22, SMT
     DEF vars, TypeOK, SharedTypeOK, ExecutorTypeOK, sharedVars, keptVars,
         storeVars, flags, executorVars
<1> QED
  BY <1>1, <1>2, <1>3, <1>4, <1>7, <1>8, <1>9, <1>10, <1>11, <1>14, <1>15,
     <1>16, <1>17, <1>18, <1>19, <1>20, <1>21, <1>22, Zenon
     DEF Next, ExecutorStep, ScannerStep

(* Every state variable keeps its type. *)
THEOREM TypeCorrect == Spec => []TypeOK
BY InitType, TypeStep, PTL DEF Spec

(* A command of a search by the worker keeps the store invariant.          *)
LEMMA ExecutorReads ==
  ASSUME TypeOK, StoreInv, SScan(Exec) \/ Get(Exec), UNCHANGED executorVars
  PROVE  StoreInv'
<1> USE ExecutorAssumption, ScannerAssumption
<1>1. /\ client[Exec].cmd \in {"sscan", "get"}
      /\ UNCHANGED <<records, indexed, issued, bound, redisErrors,
                     workerShutdown, restarts>>
      /\ pc' = pc /\ op' = op /\ payouts' = payouts
  BY ReadStep, SMT DEF TypeOK, executorVars
<1>2. PICK c \in Client :
        /\ client' = [client EXCEPT ![Exec] = c]
        /\ c.cmd \in {"sscan", "get", "ok", "err"}
        /\ c.todo \subseteq client[Exec].todo
        /\ \A k \in c.keys :
             \/ k \in client[Exec].keys
             \/ k \in indexed /\ k[1] \in client[Exec].todo
        /\ \/ c.op = client[Exec].op \/ c.op = NoOp
           \/ \E k \in client[Exec].keys : records[k] # NoOp /\ c.op = records[k]
  BY ReadStep DEF TypeOK
<1>3. client'[Exec] = c /\ \A w \in Workers : w # Exec => client'[w] = client[w]
  BY <1>2 DEF TypeOK, SharedTypeOK
<1>4. pc = "fetch"
  BY <1>1, IdleFacts, SMT
     DEF StoreInv, ExecutorAgrees, Writing, TypeOK, ExecutorTypeOK, PayoutKinds
<1>5. Filed' /\ IndexedHaveRecords'
  BY <1>1 DEF StoreInv, Filed, IndexedHaveRecords
<1>6. client[Exec].keys \subseteq Keys
  BY SMT DEF TypeOK, SharedTypeOK, Client
<1>7. Traced'
  BY <1>1, <1>2, <1>3, <1>6, SMT
     DEF StoreInv, Traced, IsIssued, IssuedIds, TypeOK, SharedTypeOK
<1>8. ExecutorAgrees'
  BY <1>1, <1>2, <1>3, <1>4, SMT DEF StoreInv, ExecutorAgrees
<1>9. ScannerAgrees'
  <2>1. client'[Scanner] = client[Scanner]
    BY <1>3
  <2> SUFFICES ASSUME client[Scanner].cmd \in {"set", "sadd"}
               PROVE  Untouched(client[Scanner].op.id)'
    BY <1>3, <2>1 DEF StoreInv, ScannerAgrees
  <2> DEFINE id == client[Scanner].op.id
  <2>2. Untouched(id)
    BY DEF StoreInv, ScannerAgrees
  <2> HIDE DEF id
  <2>3. c.op # NoOp => c.op.id # id
    BY <1>2, <1>6, <2>2, SMT DEF Untouched, StoreInv, Filed
  <2>4. \A k \in indexed \union c.keys : k[2] # id
    BY <1>2, <2>2 DEF Untouched
  <2>5. /\ \A k \in indexed' \union client'[Exec].keys : k[2] # id
        /\ op' # NoOp => op'.id # id
        /\ client'[Exec].op # NoOp => client'[Exec].op.id # id
        /\ {i \in DOMAIN payouts' : payouts'[i].op = id} = {}
    BY <1>1, <1>3, <2>2, <2>3, <2>4 DEF Untouched, PayoutsOf
  <2> QED
    BY <2>1, <2>5 DEF id, Untouched, PayoutsOf
<1>10. SetBeforeAdd'
  BY <1>1, <1>2, <1>3, SMT DEF StoreInv, SetBeforeAdd
<1>11. Moved'
  BY <1>1, <1>4, SMT DEF Moved
<1> QED
  BY <1>5, <1>7, <1>8, <1>9, <1>10, <1>11 DEF StoreInv

(* A write leaves every record under its own status and id.                *)
LEMMA EffectFiled ==
  ASSUME TypeOK, Filed, NEW w \in Workers, Effect(client[w]) \/ UNCHANGED storeVars
  PROVE  Filed'
<1>1. CASE Effect(client[w])
  BY <1>1, SharedAssumption, SMT
     DEF Effect, Filed, TypeOK, SharedTypeOK, Client, Keys, BridgeOperation
<1>2. CASE UNCHANGED storeVars
  BY <1>2 DEF Filed, storeVars
<1> QED
  BY <1>1, <1>2

(* A goroutine sends one of the write commands and goes on, or the command *)
(* fails; in both cases c is where it is afterwards.                       *)
WriteOrFail(w, c) ==
  /\ client' = [client EXCEPT ![w] = c]
  /\ UNCHANGED issued
  /\ \/ /\ Effect(client[w])
        /\ c = [client[w] EXCEPT !.cmd = Following(client[w].cmd)]
        /\ UNCHANGED redisErrors
     \/ /\ Effect(client[w]) \/ UNCHANGED storeVars
        /\ c = Error
        /\ redisErrors' > redisErrors

(* What a command does to the store, answered or not.                      *)
LEMMA WriteOrFailFacts ==
  ASSUME TypeOK, NEW w \in Workers, Write(w) \/ RedisFails(w)
  PROVE  /\ \E c \in Client : WriteOrFail(w, c)
         /\ UNCHANGED <<bound, workerShutdown, restarts>>
<1>1. CASE Write(w)
  <2> DEFINE c == [client[w] EXCEPT !.cmd = Following(client[w].cmd)]
  <2>1. client[w] \in Client /\ client[w].cmd \in {"srem", "del", "set", "sadd"}
    BY <1>1, SMT DEF TypeOK, SharedTypeOK, Write, Effect
  <2>2. Following(client[w].cmd) \in {"del", "set", "sadd", "ok"}
    BY <2>1, SMT DEF Following
  <2>3. c \in Client
    BY <2>1, <2>2, SMT DEF Client, Commands
  <2> QED
    BY <1>1, <2>3, Zenon DEF Write, Call, WriteOrFail, flags
<1>2. CASE RedisFails(w)
  <2>1. redisErrors' > redisErrors
    BY <1>2, SMT DEF RedisFails, TypeOK, SharedTypeOK
  <2> QED
    BY <1>2, <2>1, ErrorFacts, Zenon DEF RedisFails, Call, WriteOrFail, flags
<1> QED
  BY <1>1, <1>2

(* A command of the worker while it saves an operation.                    *)
LEMMA ExecutorWrites ==
  ASSUME TypeOK, StoreInv, NEW c \in Client, WriteOrFail(Exec, c),
         pc \in {"mark", "saved"}, Writing(client[Exec]),
         UNCHANGED <<executorVars, workerShutdown>>
  PROVE  StoreInv'
<1> USE ExecutorAssumption, ScannerAssumption
<1> DEFINE b == client[Exec]
<1>1. /\ b.op = op /\ b.prev = "pending" /\ b.keys = {} /\ op # NoOp
      /\ op \in BridgeOperation /\ op.status # "pending"
      /\ b.cmd \in {"srem", "del", "set", "sadd"} /\ b \in Client
  BY SMT DEF StoreInv, ExecutorAgrees, Writing, TypeOK, SharedTypeOK, ExecutorTypeOK
<1>2. client'[Exec] = c /\ \A w \in Workers : w # Exec => client'[w] = client[w]
  BY DEF WriteOrFail, TypeOK, SharedTypeOK
<1>3. UNCHANGED <<issued, pc, op, payouts, workerShutdown>>
  BY DEF WriteOrFail, executorVars
<1>4. \/ /\ Effect(b)
         /\ c.op = op /\ c.prev = "pending" /\ c.keys = {}
         /\ \/ b.cmd = "srem" /\ c.cmd = "del"
            \/ b.cmd = "del" /\ c.cmd = "set"
            \/ b.cmd = "set" /\ c.cmd = "sadd"
            \/ b.cmd = "sadd" /\ c.cmd = "ok"
      \/ /\ Effect(b) \/ UNCHANGED storeVars
         /\ c.op = NoOp /\ c.cmd = "err" /\ c.keys = {}
  <2>1. CASE c = Error /\ (Effect(b) \/ UNCHANGED storeVars)
    BY <2>1, ErrorFacts
  <2>2. CASE c = [b EXCEPT !.cmd = Following(b.cmd)] /\ Effect(b)
    <3>1. c.op = b.op /\ c.prev = b.prev /\ c.keys = b.keys /\ c.cmd = Following(b.cmd)
      BY <1>1, <2>2, SMT DEF Client
    <3>2. \/ b.cmd = "srem" /\ c.cmd = "del"
          \/ b.cmd = "del" /\ c.cmd = "set"
          \/ b.cmd = "set" /\ c.cmd = "sadd"
          \/ b.cmd = "sadd" /\ c.cmd = "ok"
      BY <1>1, <3>1, SMT DEF Following
    <3> QED
      BY <1>1, <2>2, <3>1, <3>2
  <2> QED
    BY <2>1, <2>2 DEF WriteOrFail
<1>5. \/ UNCHANGED <<records, indexed>> /\ c.cmd = "err"
      \/ b.cmd = "srem" /\ records' = records /\ indexed' = indexed \ {PendingKey(op.id)}
      \/ b.cmd = "del" /\ indexed' = indexed
           /\ records' = [records EXCEPT ![PendingKey(op.id)] = NoOp]
      \/ b.cmd = "set" /\ indexed' = indexed
           /\ records' = [records EXCEPT ![<<op.status, op.id>>] = op]
      \/ b.cmd = "sadd" /\ records' = records
           /\ indexed' = indexed \union {<<op.status, op.id>>}
  BY <1>1, <1>4 DEF Effect, PendingKey, storeVars
<1>6. Filed'
  BY <1>4, EffectFiled DEF StoreInv
<1>7. Traced'
  <2>1. \A k \in Keys : IsIssued(records[k])'
    BY <1>1, <1>3, <1>5, SMT
       DEF StoreInv, Traced, IsIssued, TypeOK, SharedTypeOK, Keys, PendingKey
  <2>2. \A w \in Workers : IsIssued(client[w].op)'
    BY <1>1, <1>2, <1>3, <1>4, SMT DEF StoreInv, Traced, IsIssued
  <2>3. op.id \in IssuedIds
    BY <1>1 DEF StoreInv, Traced, IsIssued, IssuedIds
  <2>4. \A k \in (indexed \union client[Exec].keys)' : k[2] \in IssuedIds'
    BY <1>1, <1>2, <1>3, <1>4, <1>5, <2>3, SMT DEF StoreInv, Traced, IssuedIds
  <2> QED
    BY <1>3, <2>1, <2>2, <2>4 DEF StoreInv, Traced, IsIssued
<1>8. ExecutorAgrees'
  BY <1>1, <1>2, <1>3, <1>4, SMT DEF StoreInv, ExecutorAgrees, Writing
<1>9. ASSUME Untouched(client[Scanner].op.id)
      PROVE  Untouched(client[Scanner].op.id)'
  BY <1>1, <1>2, <1>3, <1>4, <1>5, <1>9, SMT DEF Untouched, PayoutsOf, PendingKey
<1>10. ScannerAgrees'
  BY <1>2, <1>9 DEF StoreInv, ScannerAgrees
<1>11. IndexedHaveRecords'
  BY <1>1, <1>5, SharedAssumption, SMT
     DEF StoreInv, IndexedHaveRecords, SetBeforeAdd, Moved, TypeOK, SharedTypeOK
<1>12. SetBeforeAdd'
  <2>1. client'[Exec].cmd = "sadd" => records'[<<op.status, op.id>>] # NoOp
    <3>1. op.id \in OpIds /\ op.status \in Status
      BY <1>1, SMT DEF BridgeOperation
    <3>2. <<op.status, op.id>> \in Keys
      BY <3>1 DEF Keys
    <3>3. client'[Exec].cmd = "sadd" => records' = [records EXCEPT ![<<op.status, op.id>>] = op]
      BY <1>1, <1>2, <1>4, <1>5
    <3> QED
      BY <1>1, <3>2, <3>3 DEF TypeOK, SharedTypeOK
  <2>2. client[Scanner].cmd = "sadd" =>
          records'[<<client[Scanner].op.status, client[Scanner].op.id>>] # NoOp
    <3> SUFFICES ASSUME client[Scanner].cmd = "sadd"
                 PROVE  records'[<<client[Scanner].op.status, client[Scanner].op.id>>] # NoOp
      OBVIOUS
    <3> DEFINE k == <<client[Scanner].op.status, client[Scanner].op.id>>
    <3>1. records[k] # NoOp /\ client[Scanner].op.id # op.id
      BY <1>1, SMT DEF StoreInv, SetBeforeAdd, ScannerAgrees, Untouched
    <3>2. k \in Keys /\ records \in [Keys -> BridgeOperation \union {NoOp}]
      BY SMT DEF TypeOK, SharedTypeOK, Client, BridgeOperation, Keys
    <3>3. k # PendingKey(op.id) /\ op # NoOp
      BY <1>1, <3>1 DEF PendingKey
    <3> HIDE DEF k
    <3>4. records'[k] # NoOp
      BY <1>5, <3>1, <3>2, <3>3
    <3> QED
      BY <3>4 DEF k
  <2> QED
    BY <1>2, <1>4, <2>1, <2>2 DEF SetBeforeAdd
<1>13. Moved'
  <2>1. CASE b.cmd = "sadd" /\ indexed' = indexed \union {<<op.status, op.id>>}
    BY <1>1, <1>3, <2>1 DEF StoreInv, Moved, PendingKey
  <2>2. CASE b.cmd \in {"del", "set"} /\ indexed' = indexed
    BY <1>3, <2>2, SMT DEF StoreInv, Moved, PendingKey
  <2>3. CASE b.cmd = "srem" /\ indexed' = indexed \ {PendingKey(op.id)}
    BY <1>3, <2>3 DEF Moved
  <2>4. CASE c.cmd = "err"
    BY <1>2, <2>4 DEF Moved
  <2> QED
    BY <1>5, <2>1, <2>2, <2>3, <2>4
<1> QED
  BY <1>6, <1>7, <1>8, <1>10, <1>11, <1>12, <1>13 DEF StoreInv

(* A command of the scanner while it stores a new operation.               *)
LEMMA ScannerWrites ==
  ASSUME TypeOK, StoreInv, NEW c \in Client, WriteOrFail(Scanner, c),
         Writing(client[Scanner]),
         UNCHANGED <<executorVars, workerShutdown>>
  PROVE  StoreInv'
<1> USE ExecutorAssumption, ScannerAssumption
<1> DEFINE b == client[Scanner]
           o == b.op
<1>1. /\ b.cmd \in {"set", "sadd"} /\ o.status = "pending" /\ Untouched(o.id)
      /\ o \in BridgeOperation /\ b \in Client
  BY SMT DEF StoreInv, ScannerAgrees, Writing, TypeOK, SharedTypeOK, Client
<1>2. client'[Scanner] = c /\ \A w \in Workers : w # Scanner => client'[w] = client[w]
  BY DEF WriteOrFail, TypeOK, SharedTypeOK
<1>3. UNCHANGED <<issued, pc, op, payouts, workerShutdown>>
  BY DEF WriteOrFail, executorVars
<1>4. \/ Effect(b) /\ c.op = o /\ b.cmd = "set" /\ c.cmd = "sadd"
      \/ Effect(b) /\ c.op = o /\ b.cmd = "sadd" /\ c.cmd = "ok"
      \/ (Effect(b) \/ UNCHANGED storeVars) /\ c.op = NoOp /\ c.cmd = "err"
  <2>1. CASE c = Error /\ (Effect(b) \/ UNCHANGED storeVars)
    BY <2>1, ErrorFacts
  <2>2. CASE c = [b EXCEPT !.cmd = Following(b.cmd)] /\ Effect(b)
    <3>1. c.op = b.op /\ c.cmd = Following(b.cmd)
      BY <1>1, <2>2, SMT DEF Client
    <3>2. \/ b.cmd = "set" /\ c.cmd = "sadd"
          \/ b.cmd = "sadd" /\ c.cmd = "ok"
      BY <1>1, <3>1, SMT DEF Following
    <3> QED
      BY <1>1, <2>2, <3>1, <3>2
  <2> QED
    BY <2>1, <2>2 DEF WriteOrFail
<1>5. \/ UNCHANGED <<records, indexed>> /\ c.cmd = "err"
      \/ b.cmd = "set" /\ indexed' = indexed
           /\ records' = [records EXCEPT ![<<o.status, o.id>>] = o]
      \/ b.cmd = "sadd" /\ records' = records
           /\ indexed' = indexed \union {<<o.status, o.id>>}
  BY <1>1, <1>4 DEF Effect, storeVars
<1>6. Filed'
  BY <1>4, EffectFiled DEF StoreInv
<1>7. o \in BridgeOperation \ {NoOp} /\ <<o.id, o.deposit>> \in issued
  BY <1>1, SharedAssumption, SMT DEF StoreInv, Traced, IsIssued
<1>8. Traced'
  <2>1. \A k \in Keys : IsIssued(records[k])'
    BY <1>3, <1>5, <1>7, SMT
       DEF StoreInv, Traced, IsIssued, TypeOK, SharedTypeOK, Keys
  <2>2. \A w \in Workers : IsIssued(client[w].op)'
    BY <1>2, <1>3, <1>4, SMT DEF StoreInv, Traced, IsIssued
  <2>3. o.id \in IssuedIds
    BY <1>7 DEF IssuedIds
  <2>4. \A k \in (indexed \union client[Exec].keys)' : k[2] \in IssuedIds'
    BY <1>2, <1>3, <1>5, <2>3, SMT DEF StoreInv, Traced, IssuedIds
  <2> QED
    BY <1>3, <2>1, <2>2, <2>4 DEF StoreInv, Traced, IsIssued
<1>9. ExecutorAgrees'
  BY <1>2, <1>3 DEF StoreInv, ExecutorAgrees
<1>10. ScannerAgrees'
  <2>1. CASE c.cmd \in {"ok", "err"}
    BY <1>2, <2>1, SMT DEF ScannerAgrees
  <2>2. CASE b.cmd = "set" /\ c.cmd = "sadd" /\ c.op = o /\ indexed' = indexed
    <3>1. Untouched(o.id)'
      BY <1>1, <1>2, <1>3, <2>2 DEF Untouched, PayoutsOf
    <3> QED
      BY <1>1, <1>2, <2>2, <3>1 DEF ScannerAgrees
  <2> QED
    BY <1>4, <1>5, <2>1, <2>2
<1>11. <<o.status, o.id>> \in Keys /\ records \in [Keys -> BridgeOperation \union {NoOp}]
  BY <1>7, SMT DEF BridgeOperation, Keys, TypeOK, SharedTypeOK
<1>12. IndexedHaveRecords'
  <2>1. b.cmd = "sadd" => records[<<o.status, o.id>>] # NoOp
    BY DEF StoreInv, SetBeforeAdd, b, o
  <2> QED
    BY <1>5, <1>7, <1>11, <2>1
       DEF StoreInv, IndexedHaveRecords, TypeOK, SharedTypeOK
<1>13. SetBeforeAdd'
  <2>1. c.cmd = "sadd" => records'[<<c.op.status, c.op.id>>] # NoOp
    BY <1>4, <1>5, <1>7, <1>11
  <2>2. \A k \in Keys : records[k] # NoOp => records'[k] # NoOp
    BY <1>5, <1>7, <1>11
  <2>3. client[Exec].cmd = "sadd" => <<client[Exec].op.status, client[Exec].op.id>> \in Keys
    BY SMT DEF TypeOK, SharedTypeOK, Client, BridgeOperation, Keys
  <2> QED
    BY <1>2, <2>1, <2>2, <2>3 DEF StoreInv, SetBeforeAdd
<1>14. Moved'
  BY <1>1, <1>2, <1>3, <1>5, SMT
     DEF StoreInv, Moved, PendingKey, Untouched, ExecutorTypeOK, TypeOK
<1> QED
  BY <1>6, <1>8, <1>9, <1>10, <1>12, <1>13, <1>14 DEF StoreInv

(* A step of the worker outside the store: c is its next call, op' its     *)
(* next operation, and it may have paid for op.                            *)
Stems(o) == o # NoOp => \E p \in {op, client[Exec].op} :
                          p # NoOp /\ o.id = p.id /\ o.deposit = p.deposit

(* A step of the worker outside the store keeps the store invariant if its *)
(* new operation stems from one it had.                                    *)
LEMMA ExecutorControl ==
  ASSUME TypeOK, StoreInv, NEW c \in Client,
         client' = [client EXCEPT ![Exec] = c],
         UNCHANGED <<records, indexed, issued>>,
         c.keys = {}, c.cmd # "sadd", Stems(op'), Stems(c.op),
         \/ payouts' = payouts
         \/ /\ op # NoOp
            /\ \E p \in Payout : /\ payouts' = Append(payouts, p)
                                 /\ p.op = op.id /\ p.deposit = op.deposit,
         ExecutorAgrees', Moved'
  PROVE  StoreInv'
<1> USE ExecutorAssumption, ScannerAssumption
<1>1. client'[Exec] = c /\ \A w \in Workers : w # Exec => client'[w] = client[w]
  BY DEF TypeOK, SharedTypeOK
<1>2. Filed' /\ IndexedHaveRecords'
  BY DEF StoreInv, Filed, IndexedHaveRecords
<1>3. \A i \in DOMAIN payouts' :
        \/ i \in DOMAIN payouts /\ payouts'[i] = payouts[i]
        \/ op # NoOp /\ payouts'[i].op = op.id /\ payouts'[i].deposit = op.deposit
  BY SMT DEF TypeOK, ExecutorTypeOK
<1>4. Traced'
  <2>1. \A i \in DOMAIN payouts' : <<payouts'[i].op, payouts'[i].deposit>> \in issued
    BY <1>3 DEF StoreInv, Traced, IsIssued
  <2>2. IsIssued(op)' /\ \A w \in Workers : IsIssued(client[w].op)'
    BY <1>1 DEF StoreInv, Traced, IsIssued, Stems
  <2>3. \A k \in (indexed \union client[Exec].keys)' : k[2] \in IssuedIds'
    BY <1>1 DEF StoreInv, Traced, IssuedIds
  <2> QED
    BY <2>1, <2>2, <2>3 DEF StoreInv, Traced, IsIssued
<1>5. ASSUME NEW id, Untouched(id) PROVE Untouched(id)'
  <2>1. \A i \in DOMAIN payouts' : payouts'[i].op # id
    BY <1>3, <1>5 DEF Untouched, PayoutsOf
  <2> QED
    BY <1>1, <1>5, <2>1 DEF Untouched, PayoutsOf, Stems
<1>6. ScannerAgrees'
  <2> DEFINE id == client[Scanner].op.id
  <2>1. client'[Scanner] = client[Scanner]
    BY <1>1
  <2>2. client[Scanner].cmd \in {"set", "sadd"} => Untouched(id)'
    BY <1>5 DEF StoreInv, ScannerAgrees
  <2> QED
    BY <2>1, <2>2 DEF StoreInv, ScannerAgrees, Untouched, PayoutsOf
<1>7. SetBeforeAdd'
  BY <1>1 DEF StoreInv, SetBeforeAdd
<1> QED
  BY <1>2, <1>4, <1>6, <1>7 DEF StoreInv

(* The worker starts to save an operation.                                 *)
LEMMA SaveStep ==
  ASSUME TypeOK, StoreInv, Handling, NEW o \in BridgeOperation,
         o.id = op.id, o.deposit = op.deposit, o.status # "pending",
         NEW next \in {"mark", "saved"}, Save(o, next),
         UNCHANGED <<records, indexed, issued, workerShutdown>>,
         payouts' = payouts \/ (Paying /\ Accept)
  PROVE  StoreInv'
<1> DEFINE c == ChangeCall(o, "pending")
<1>1. /\ c \in Client /\ c.cmd = "srem" /\ c.op = o
      /\ c.prev = "pending" /\ c.keys = {}
  BY ChangeCallFacts DEF Status
<1>2. op \in BridgeOperation /\ op # NoOp
  BY SharedAssumption, SMT DEF TypeOK, ExecutorTypeOK, Handling
<1>3. pc' = next /\ op' = o /\ client' = [client EXCEPT ![Exec] = c] /\ client'[Exec] = c
  BY ExecutorAssumption DEF Save, Call, TypeOK, SharedTypeOK
<1>4. ExecutorAgrees' /\ Moved'
  BY <1>1, <1>3, SMT DEF ExecutorAgrees, Moved, Writing
<1>5. Stems(op') /\ Stems(c.op)
  BY <1>1, <1>2, <1>3 DEF Stems
<1>6. \/ payouts' = payouts
      \/ \E p \in Payout : /\ payouts' = Append(payouts, p)
                           /\ p.op = op.id /\ p.deposit = op.deposit
  BY AcceptFacts DEF Paying
<1> HIDE DEF c
<1> QED
  BY <1>1, <1>2, <1>3, <1>4, <1>5, <1>6, ExecutorControl

(* The worker goes on with the same operation. *)
LEMMA GoOnStep ==
  ASSUME TypeOK, StoreInv, Handling, pc # "mark",
         pc' \in {"forward", "return", "sender"},
         UNCHANGED <<op, client, records, indexed, issued, workerShutdown>>,
         payouts' = payouts \/ (Paying /\ Accept)
  PROVE  StoreInv'
<1>1. client[Exec] = Idle
  BY SMT DEF StoreInv, ExecutorAgrees, Handling
<1>2. client' = [client EXCEPT ![Exec] = Idle] /\ client'[Exec] = Idle
  BY <1>1, ExecutorAssumption DEF TypeOK, SharedTypeOK
<1>3. op \in BridgeOperation /\ op # NoOp
  BY SharedAssumption, SMT DEF TypeOK, ExecutorTypeOK, Handling
<1>4. ExecutorAgrees' /\ Moved'
  BY <1>2, SMT DEF ExecutorAgrees, Moved, Writing
<1>5. Stems(op') /\ Stems(Idle.op)
  BY <1>3, IdleFacts DEF Stems
<1>6. \/ payouts' = payouts
      \/ \E p \in Payout : /\ payouts' = Append(payouts, p)
                           /\ p.op = op.id /\ p.deposit = op.deposit
  BY AcceptFacts DEF Paying
<1>7. Idle \in Client /\ Idle.keys = {} /\ Idle.cmd # "sadd"
  BY IdleFacts
<1> QED
  BY <1>2, <1>3, <1>4, <1>5, <1>6, <1>7, ExecutorControl

(* A command of the worker, whichever procedure it is in.                  *)
LEMMA StoreStepInv ==
  ASSUME TypeOK, StoreInv, NEW w \in {Exec, Scanner}, StoreStep(w),
         UNCHANGED executorVars
  PROVE  StoreInv'
<1> USE ExecutorAssumption, ScannerAssumption
<1>1. CASE w = Exec /\ (SScan(w) \/ Get(w))
  BY <1>1, ExecutorReads
<1>2. CASE w = Scanner /\ (SScan(w) \/ Get(w))
  BY <1>2, SMT DEF StoreInv, ScannerAgrees, SScan, Get
<1>3. CASE Write(w) \/ RedisFails(w)
  <2>1. PICK c \in Client : WriteOrFail(w, c) /\ UNCHANGED workerShutdown
    BY <1>3, WriteOrFailFacts
  <2>2. CASE w = Scanner
    <3>1. Writing(client[w])
      BY <1>3, <2>2, SMT
         DEF Write, RedisFails, Effect, Writing, StoreInv, ScannerAgrees,
             Commands
    <3> QED
      BY <2>1, <2>2, <3>1, ScannerWrites
  <2>3. CASE w = Exec /\ Writing(client[w])
    <3>1. pc \in {"mark", "saved"}
      BY <2>3, IdleFacts, SMT
         DEF StoreInv, ExecutorAgrees, Writing, TypeOK, ExecutorTypeOK,
             PayoutKinds
    <3> QED
      BY <2>1, <2>3, <3>1, ExecutorWrites
  <2>4. CASE w = Exec /\ ~ Writing(client[w])
    <3>1. RedisFails(Exec) /\ client[Exec].cmd \in {"sscan", "get"} /\ ~ Effect(client[Exec])
      BY <1>3, <2>4, SMT DEF Write, Effect, Writing, RedisFails, Commands
    <3>2. /\ client' = [client EXCEPT ![Exec] = Error] /\ client'[Exec] = Error
          /\ UNCHANGED <<records, indexed, issued, workerShutdown, pc, op, payouts>>
      BY <3>1
         DEF RedisFails, Call, TypeOK, SharedTypeOK, storeVars, flags,
             executorVars
    <3>3. pc = "fetch"
      BY <3>1, IdleFacts, SMT
         DEF StoreInv, ExecutorAgrees, Writing, TypeOK, ExecutorTypeOK,
             PayoutKinds
    <3>4. ExecutorAgrees' /\ Moved'
      BY <3>2, <3>3, ErrorFacts, SMT DEF StoreInv, ExecutorAgrees, Moved
    <3>5. Stems(op') /\ Stems(Error.op)
      BY <3>2, <3>3, ErrorFacts DEF Stems, StoreInv, ExecutorAgrees
    <3> QED
      BY <3>2, <3>4, <3>5, ErrorFacts, ExecutorControl
  <2> QED
    BY <2>2, <2>3, <2>4
<1> QED
  BY <1>1, <1>2, <1>3 DEF StoreStep

(* Every step keeps the store invariant: one case per action.              *)
LEMMA StoreInvStep == TypeOK /\ StoreInv /\ [Next]_vars => StoreInv'
<1> SUFFICES ASSUME TypeOK, StoreInv, [Next]_vars PROVE StoreInv'
  OBVIOUS
<1> USE ExecutorAssumption, ScannerAssumption
<1>1. ASSUME NEW w \in {Exec, Scanner}, StoreStep(w), UNCHANGED executorVars
      PROVE  StoreInv'
  BY <1>1, StoreStepInv
<1>2. ASSUME Poll PROVE StoreInv'
  <2>1. client' = [client EXCEPT ![Exec] = FindPending] /\ client'[Exec] = FindPending
    BY <1>2 DEF Poll, Call, TypeOK, SharedTypeOK
  <2>2. UNCHANGED <<records, indexed, issued, op, payouts, workerShutdown>> /\ pc = "poll" /\ pc' = "fetch" /\ ~ workerShutdown
    BY <1>2 DEF Poll, keptVars, storeVars, flags
  <2>3. op = NoOp
    BY <2>2 DEF StoreInv, ExecutorAgrees
  <2>4. ExecutorAgrees' /\ Moved'
    BY <2>1, <2>2, <2>3, FindPendingFacts, SMT DEF ExecutorAgrees, Moved
  <2>5. Stems(op') /\ Stems(FindPending.op)
    BY <2>2, <2>3, FindPendingFacts DEF Stems
  <2> QED
    BY <2>1, <2>2, <2>4, <2>5, FindPendingFacts, ExecutorControl
<1>3. ASSUME Stop PROVE StoreInv'
  <2>1. UNCHANGED <<records, indexed, issued, client, op, payouts, workerShutdown>> /\ pc = "poll" /\ pc' = "exited"
    BY <1>3 DEF Stop, sharedVars, keptVars, storeVars, flags
  <2>2. client[Exec] = Idle /\ op = NoOp
    BY <2>1 DEF StoreInv, ExecutorAgrees
  <2>3. client' = [client EXCEPT ![Exec] = Idle] /\ client'[Exec] = Idle
    BY <2>1, <2>2 DEF TypeOK, SharedTypeOK
  <2>4. ExecutorAgrees' /\ Moved'
    BY <2>1, <2>2, <2>3, SMT DEF ExecutorAgrees, Moved
  <2>5. Stems(op') /\ Stems(Idle.op)
    BY <2>1, <2>2, IdleFacts DEF Stems
  <2> QED
    BY <2>1, <2>3, <2>4, <2>5, IdleFacts, ExecutorControl
<1>4. ASSUME Fetch PROVE StoreInv'
  <2>1. client' = [client EXCEPT ![Exec] = Idle] /\ client'[Exec] = Idle
    BY <1>4 DEF Fetch, Consume, Call, TypeOK, SharedTypeOK
  <2>2. /\ UNCHANGED <<records, indexed, issued, payouts, workerShutdown>>
        /\ op' = client[Exec].op
        /\ \/ op' = NoOp /\ pc' = "poll"
           \/ op' # NoOp /\ pc' = "address"
    BY <1>4 DEF Fetch, keptVars, storeVars, flags
  <2>3. ExecutorAgrees' /\ Moved'
    BY <2>1, <2>2, IdleFacts, SMT DEF ExecutorAgrees, Moved
  <2>4. Stems(op') /\ Stems(Idle.op)
    BY <2>2, IdleFacts DEF Stems
  <2> QED
    BY <2>1, <2>2, <2>3, <2>4, IdleFacts, ExecutorControl
<1>5. ASSUME Saved PROVE StoreInv'
  <2>1. client' = [client EXCEPT ![Exec] = Idle] /\ client'[Exec] = Idle
    BY <1>5 DEF Saved, Consume, Call, TypeOK, SharedTypeOK
  <2>2. UNCHANGED <<records, indexed, issued, payouts>> /\ op' = NoOp /\ pc' = "poll"
    BY <1>5 DEF Saved, keptVars, storeVars
  <2>3. ExecutorAgrees' /\ Moved'
    BY <2>1, <2>2, SMT DEF ExecutorAgrees, Moved
  <2>4. Stems(op') /\ Stems(Idle.op)
    BY <2>2, IdleFacts DEF Stems
  <2> QED
    BY <2>1, <2>2, <2>3, <2>4, IdleFacts, ExecutorControl
<1>6. ASSUME Marked PROVE StoreInv'
  <2>1. client' = [client EXCEPT ![Exec] = Idle] /\ client'[Exec] = Idle
    BY <1>6 DEF Marked, Consume, Call, TypeOK, SharedTypeOK
  <2>2. UNCHANGED <<records, indexed, issued, payouts, op>> /\ pc' = "forward" /\ op # NoOp
    BY <1>6, SMT DEF Marked, keptVars, storeVars, TypeOK, ExecutorTypeOK
  <2>3. ExecutorAgrees' /\ Moved'
    BY <2>1, <2>2, SMT DEF ExecutorAgrees, Moved
  <2>4. Stems(op') /\ Stems(Idle.op)
    BY <2>2, IdleFacts DEF Stems
  <2> QED
    BY <2>1, <2>2, <2>3, <2>4, IdleFacts, ExecutorControl
<1>7. Handling => op \in BridgeOperation
  BY SMT DEF TypeOK, ExecutorTypeOK, Handling
<1>8. ASSUME Unroutable PROVE StoreInv'
  <2> DEFINE o == [op EXCEPT !.status = "failed"]
  <2>1. Handling /\ Save(o, "saved") /\ payouts' = payouts /\ UNCHANGED <<records, indexed, issued, workerShutdown>>
    BY <1>8 DEF Unroutable, Handling, storeVars, flags
  <2>2. /\ o \in BridgeOperation /\ o.status = "failed"
        /\ o.id = op.id /\ o.deposit = op.deposit
    BY <1>7, <2>1, StatusUpdate DEF Status
  <2> QED
    BY <2>1, <2>2, SaveStep
<1>9. ASSUME MarkExecuting PROVE StoreInv'
  <2> DEFINE o == [op EXCEPT !.status = "executing"]
  <2>1. Handling /\ Save(o, "mark") /\ payouts' = payouts /\ UNCHANGED <<records, indexed, issued, workerShutdown>>
    BY <1>9 DEF MarkExecuting, Handling, keptVars, storeVars, flags
  <2>2. /\ o \in BridgeOperation /\ o.status = "executing"
        /\ o.id = op.id /\ o.deposit = op.deposit
    BY <1>7, <2>1, StatusUpdate DEF Status
  <2> QED
    BY <2>1, <2>2, SaveStep
<1>10. ASSUME StartPayingBGL PROVE StoreInv'
  <2>1. /\ Handling /\ pc # "mark" /\ pc' = "forward" /\ payouts' = payouts
        /\ UNCHANGED <<op, client, records, indexed, issued, workerShutdown>>
    BY <1>10 DEF StartPayingBGL, Handling, sharedVars, keptVars, storeVars, flags
  <2> QED
    BY <2>1, GoOnStep
<1>11. ASSUME Paid PROVE StoreInv'
  <2>1. PICK t \in Nat : t = Len(payouts) + 1
    BY SMT DEF TypeOK, ExecutorTypeOK
  <2>2. PICK s \in {"executing", "returning"} :
          Save(Sent(op, t, s), "saved")
    BY <1>11, <2>1 DEF Paid
  <2>3. /\ Handling /\ Paying /\ Accept
        /\ UNCHANGED <<records, indexed, issued, workerShutdown>>
    BY <1>11 DEF Paid, Paying, PayoutKinds, Handling, keptVars, storeVars, flags
  <2>4. s \in Status /\ op \in BridgeOperation
    BY <1>7, <2>3 DEF Status
  <2> DEFINE o == Sent(op, t, s)
  <2>5. /\ o \in BridgeOperation /\ o.status = s
        /\ o.id = op.id /\ o.deposit = op.deposit
    BY <2>4, SentFacts
  <2> HIDE DEF o
  <2>6. Save(o, "saved")
    BY <2>2 DEF o
  <2> QED
    BY <2>3, <2>5, <2>6, SaveStep
<1>12. ASSUME Paying, AttemptFailed, UNCHANGED <<keptVars, flags>>,
              payouts' = payouts \/ Accept
       PROVE  StoreInv'
  <2>1. Handling /\ pc # "mark" /\ UNCHANGED <<records, indexed, issued, workerShutdown>>
    BY <1>12 DEF Paying, PayoutKinds, Handling, keptVars, storeVars, flags
  <2>2. CASE Save([op EXCEPT !.status = "returnfail"], "saved")
    <3>1. LET o == [op EXCEPT !.status = "returnfail"]
          IN  /\ o \in BridgeOperation /\ o.status = "returnfail"
              /\ o.id = op.id /\ o.deposit = op.deposit
      BY <1>7, <2>1, StatusUpdate DEF Status
    <3> QED
      BY <1>12, <2>1, <2>2, <3>1, SaveStep
  <2>3. CASE pc' \in {pc, "sender", "return"} /\ UNCHANGED <<op, client>>
    BY <1>12, <2>1, <2>3, GoOnStep DEF Paying, PayoutKinds
  <2> QED
    BY <1>12, <2>2, <2>3, Zenon DEF AttemptFailed, GiveUp
<1>13. ASSUME SenderFound PROVE StoreInv'
  <2>1. /\ Handling /\ pc # "mark" /\ pc' = "return" /\ payouts' = payouts
        /\ UNCHANGED <<op, client, records, indexed, issued, workerShutdown>>
    BY <1>13 DEF SenderFound, Handling, sharedVars, keptVars, storeVars, flags
  <2> QED
    BY <2>1, GoOnStep
<1>14. ASSUME SenderUnknown PROVE StoreInv'
  <2> DEFINE o == [op EXCEPT !.status = "returnfail"]
  <2>1. Handling /\ Save(o, "saved") /\ payouts' = payouts /\ UNCHANGED <<records, indexed, issued, workerShutdown>>
    BY <1>14 DEF SenderUnknown, Handling, keptVars, storeVars, flags
  <2>2. /\ o \in BridgeOperation /\ o.status = "returnfail"
        /\ o.id = op.id /\ o.deposit = op.deposit
    BY <1>7, <2>1, StatusUpdate DEF Status
  <2> QED
    BY <2>1, <2>2, SaveStep
<1>15. ASSUME Refused \/ AnswerLost PROVE StoreInv'
  BY <1>12, <1>15 DEF Refused, AnswerLost
<1>16. ASSUME UNCHANGED <<records, indexed, issued, client, workerShutdown, executorVars>> PROVE StoreInv'
  BY <1>16
     DEF StoreInv, Filed, Traced, IsIssued, IssuedIds, ExecutorAgrees,
         ScannerAgrees, Untouched,
               PayoutsOf, IndexedHaveRecords, SetBeforeAdd, Moved, executorVars
<1>17. ASSUME NEW d \in Deposits, Register(d) PROVE StoreInv'
  BY <1>16, <1>17 DEF Register, storeVars, flags
<1>18. ASSUME NEW d \in Deposits, Queue(d) PROVE StoreInv'
  <2>1. PICK id \in OpIds :
          /\ \A p \in issued : p[1] # id
          /\ issued' = issued \union {<<id, d>>}
          /\ Call(Scanner, UpsertCall([id |-> id, status |-> "pending", deposit |-> d, destTx |-> 0]))
    BY <1>18 DEF Queue, Create
  <2> DEFINE o == [id |-> id, status |-> "pending", deposit |-> d, destTx |-> 0]
             c == UpsertCall(o)
  <2>2. o \in BridgeOperation /\ o.id = id /\ o.status = "pending" /\ o.deposit = d
    BY SMT DEF BridgeOperation, Status
  <2>3. c \in Client /\ c.cmd = "set" /\ c.op = o
    BY <2>2, UpsertCallFacts
  <2>4. client' = [client EXCEPT ![Scanner] = c]
    BY <2>1 DEF Call
  <2> HIDE DEF o, c
  <2>5. client'[Scanner] = c /\ \A w \in Workers : w # Scanner => client'[w] = client[w]
    BY <2>4 DEF TypeOK, SharedTypeOK
  <2>6. UNCHANGED <<records, indexed, pc, op, payouts, workerShutdown>>
    BY <1>18 DEF Queue, storeVars, flags, executorVars
  <2>7. id \notin IssuedIds
    BY <2>1 DEF IssuedIds
  <2>8. Traced'
    <3>1. (\A p, q \in issued : p[1] = q[1] => p = q)'
      BY <2>1 DEF StoreInv, Traced
    <3>2. \A x : IsIssued(x) => IsIssued(x)'
      BY <2>1 DEF IsIssued
    <3>3. IsIssued(o)'
      BY <2>1, <2>2 DEF IsIssued
    <3>4. \A k \in (indexed \union client[Exec].keys)' : k[2] \in IssuedIds'
      BY <2>1, <2>5, <2>6 DEF StoreInv, Traced, IssuedIds
    <3> QED
      BY <2>1, <2>3, <2>5, <2>6, <3>1, <3>2, <3>3, <3>4
         DEF StoreInv, Traced, IsIssued
  <2>9. Untouched(id)'
    <3>1. \A i \in DOMAIN payouts : payouts[i].op # id
      BY <2>7 DEF StoreInv, Traced, IssuedIds
    <3>2. \A x : x # NoOp /\ IsIssued(x) => x.id # id
      BY <2>7 DEF IsIssued, IssuedIds
    <3> QED
      BY <2>5, <2>6, <2>7, <3>1, <3>2 DEF StoreInv, Traced, Untouched, PayoutsOf
  <2>10. ScannerAgrees'
    BY <2>2, <2>3, <2>5, <2>9 DEF ScannerAgrees
  <2> QED
    BY <2>3, <2>5, <2>6, <2>8, <2>10 DEF StoreInv, Filed, ExecutorAgrees,
       IndexedHaveRecords, SetBeforeAdd, Moved
<1>19. ASSUME SharedReset, ExecutorReset PROVE StoreInv'
  <2>1. /\ UNCHANGED <<records, indexed, issued, payouts>>
        /\ pc' = "poll" /\ op' = NoOp
        /\ \A w \in Workers : client'[w] = Idle
    BY <1>19 DEF SharedReset, ExecutorReset, keptVars, storeVars
  <2>2. Traced'
    BY <2>1, IdleFacts DEF StoreInv, Traced, IsIssued, IssuedIds
  <2>3. ExecutorAgrees' /\ ScannerAgrees' /\ SetBeforeAdd' /\ Moved'
    BY <2>1, IdleFacts, SMT DEF ExecutorAgrees, ScannerAgrees, SetBeforeAdd, Moved
  <2> QED
    BY <2>1, <2>2, <2>3 DEF StoreInv, Filed, IndexedHaveRecords
<1>20. ASSUME UNCHANGED vars PROVE StoreInv'
  BY <1>16, <1>20 DEF vars, sharedVars, keptVars, storeVars, flags
<1> QED
  BY <1>1, <1>2, <1>3, <1>4, <1>5, <1>6, <1>8, <1>9, <1>10, <1>11, <1>13,
     <1>14, <1>15, <1>17, <1>18, <1>19, <1>20, Zenon
     DEF Next, ExecutorStep, ScannerStep

(* The store invariant holds initially.                                    *)
LEMMA InitStore == Init => StoreInv
<1> SUFFICES ASSUME Init PROVE StoreInv
  OBVIOUS
<1>1. /\ \A k \in Keys : records[k] = NoOp
      /\ indexed = {} /\ issued = {} /\ DOMAIN payouts = {}
      /\ pc = "poll" /\ op = NoOp
      /\ \A w \in Workers : client[w] = Idle
  BY SMT DEF Init, SharedInit, ExecutorInit
<1>2. client[Exec] = Idle /\ client[Scanner] = Idle
  BY <1>1, ExecutorAssumption, ScannerAssumption
<1>3. Traced
  BY <1>1, <1>2, IdleFacts DEF Traced, IsIssued
<1>4. ExecutorAgrees /\ ScannerAgrees /\ SetBeforeAdd /\ Moved
  BY <1>1, <1>2, IdleFacts, SMT
     DEF ExecutorAgrees, ScannerAgrees, SetBeforeAdd, Moved
<1> QED
  BY <1>1, <1>3, <1>4 DEF StoreInv, Filed, IndexedHaveRecords

(* While the worker alone moves operations, no search of its own or of a   *)
(* scanner meets a key without a record.                                   *)
THEOREM NoDanglingKey == Spec => []IndexedHaveRecords
<1>1. Init => TypeOK /\ StoreInv
  BY InitType, InitStore
<1>2. TypeOK /\ StoreInv /\ [Next]_vars => (TypeOK /\ StoreInv)'
  BY TypeStep, StoreInvStep
<1>3. StoreInv => IndexedHaveRecords
  BY DEF StoreInv
<1> QED
  BY <1>1, <1>2, <1>3, PTL DEF Spec

(* The actions of the worker itself. *)
ControlStep ==
  \/ Poll \/ Stop \/ Fetch
  \/ Unroutable \/ MarkExecuting \/ StartPayingBGL \/ Marked
  \/ Paid \/ Refused \/ AnswerLost \/ SenderFound \/ SenderUnknown
  \/ Saved

(* Once closed, an operation stays closed, for only the scanner that       *)
(* creates it adds it to the queue.                                        *)
LEMMA ClosedStays ==
  ASSUME TypeOK, StoreInv, [Next]_vars, NEW id, Closed(id),
         client[Scanner].cmd = "sadd" => client[Scanner].op.id # id
  PROVE  Closed(id)'
<1> USE ExecutorAssumption, ScannerAssumption
<1>1. ASSUME indexed' = indexed, client'[Exec].keys = {},
             pc' = "fetch" => client'[Exec].op = NoOp
      PROVE  Closed(id)'
  BY <1>1 DEF Closed
<1>2. ASSUME UNCHANGED <<indexed, client, pc>> PROVE Closed(id)'
  BY <1>2 DEF Closed
<1>3. ASSUME SScan(Exec) \/ Get(Exec), UNCHANGED executorVars PROVE Closed(id)'
  <2>1. /\ indexed' = indexed
        /\ pc' = pc
    BY <1>3, ReadStep DEF TypeOK, executorVars
  <2>2. PICK c \in Client :
          /\ client' = [client EXCEPT ![Exec] = c]
          /\ \A k \in c.keys :
               \/ k \in client[Exec].keys
               \/ k \in indexed /\ k[1] \in client[Exec].todo
          /\ \/ c.op = client[Exec].op \/ c.op = NoOp
             \/ \E k \in client[Exec].keys : records[k] # NoOp /\ c.op = records[k]
    BY <1>3, ReadStep DEF TypeOK
  <2>3. client'[Exec] = c
    BY <2>2 DEF TypeOK, SharedTypeOK
  <2>4. ASSUME NEW k \in client[Exec].keys, records[k] # NoOp, pc = "fetch"
        PROVE  records[k].id # id
    <3>1. k \in Keys
      BY <2>4, SMT DEF TypeOK, SharedTypeOK, Client
    <3>2. k[1] = "pending" /\ records[k].id = k[2]
      BY <2>4, <3>1 DEF StoreInv, ExecutorAgrees, Filed
    <3>3. k = <<"pending", k[2]>>
      BY <3>1, <3>2 DEF Keys
    <3> QED
      BY <2>4, <3>2, <3>3 DEF Closed, PendingKey
  <2> QED
    BY <2>1, <2>2, <2>3, <2>4 DEF Closed
<1>4. ASSUME NEW w \in {Exec, Scanner}, Write(w) \/ RedisFails(w), UNCHANGED executorVars
      PROVE  Closed(id)'
  <2>1. PICK c \in Client : WriteOrFail(w, c)
    BY <1>4, WriteOrFailFacts
  <2>2. client'[w] = c /\ \A v \in Workers : v # w => client'[v] = client[v]
    BY <2>1 DEF WriteOrFail, TypeOK, SharedTypeOK
  <2>3. PendingKey(id) \notin indexed'
    <3>1. \/ indexed' \subseteq indexed
          \/ /\ indexed' = indexed \union {<<client[w].op.status, client[w].op.id>>}
             /\ client[w].cmd = "sadd"
      BY <2>1 DEF WriteOrFail, Effect, storeVars
    <3>2. ASSUME client[w].cmd = "sadd"
          PROVE  client[w].op.status # "pending" \/ client[w].op.id # id
      <4>1. CASE w = Exec
        BY <3>2, <4>1, IdleFacts, SMT
           DEF StoreInv, ExecutorAgrees, Writing, TypeOK, ExecutorTypeOK,
               PayoutKinds
      <4>2. CASE w = Scanner
        BY <3>2, <4>2
      <4> QED
        BY <4>1, <4>2
    <3> QED
      BY <3>1, <3>2 DEF Closed, PendingKey
  <2>4. \/ client'[Exec] = client[Exec]
        \/ client'[Exec].keys = client[Exec].keys /\ client'[Exec].op = client[Exec].op
        \/ client'[Exec].keys = {} /\ client'[Exec].op = NoOp
    <3>1. client[Exec] \in Client
      BY DEF TypeOK, SharedTypeOK
    <3> QED
      BY <2>1, <2>2, <3>1, ErrorFacts, SMT DEF WriteOrFail, Client
  <2> QED
    BY <1>4, <2>3, <2>4 DEF Closed, executorVars
<1>5. ASSUME NEW w \in {Exec, Scanner}, StoreStep(w), UNCHANGED executorVars
      PROVE  Closed(id)'
  <2>1. w = Scanner => ~ (SScan(w) \/ Get(w))
    BY SMT DEF StoreInv, ScannerAgrees, SScan, Get
  <2> QED
    BY <1>3, <1>4, <1>5, <2>1 DEF StoreStep
<1>6. ASSUME NEW c, Call(Exec, c), c.keys = {}, indexed' = indexed,
             pc' = "fetch" => c.op = NoOp
      PROVE  Closed(id)'
  BY <1>1, <1>6 DEF Call, TypeOK, SharedTypeOK
<1>7. ASSUME NEW o, NEW next \in {"mark", "saved"}, Save(o, next), indexed' = indexed
      PROVE  Closed(id)'
  <2>1. ChangeCall(o, "pending").keys = {}
    BY DEF ChangeCall, Request
  <2> QED
    BY <1>6, <1>7, <2>1 DEF Save
<1>8. ASSUME ControlStep PROVE Closed(id)'
  <2>1. indexed' = indexed
    BY <1>8, Zenon
       DEF ControlStep, Poll, Stop, Fetch, Unroutable, MarkExecuting,
           StartPayingBGL, Marked,
       Paid, Refused, AnswerLost, SenderFound, SenderUnknown, Saved, sharedVars, keptVars, storeVars
  <2>2. CASE Poll
    BY <1>6, <2>1, <2>2, FindPendingFacts DEF Poll
  <2>3. CASE Fetch \/ Marked \/ Saved
    BY <1>6, <2>1, <2>3, IdleFacts DEF Fetch, Marked, Saved, Consume
  <2>4. CASE Unroutable \/ MarkExecuting \/ Paid \/ SenderUnknown
    BY <1>7, <2>1, <2>4 DEF Unroutable, MarkExecuting, Paid, SenderUnknown
  <2>5. ASSUME client' = client, pc' # "fetch" PROVE Closed(id)'
    BY <2>1, <2>5 DEF Closed
  <2>6. CASE Stop \/ StartPayingBGL \/ SenderFound
    BY <2>5, <2>6 DEF Stop, StartPayingBGL, SenderFound, sharedVars
  <2>7. CASE Refused \/ AnswerLost
    BY <1>7, <2>1, <2>5, <2>7, Zenon
       DEF Refused, AnswerLost, Paying, PayoutKinds, AttemptFailed, GiveUp
  <2> QED
    BY <1>8, <2>2, <2>3, <2>4, <2>6, <2>7 DEF ControlStep
<1>9. ASSUME NEW d \in Deposits, Register(d) PROVE Closed(id)'
  BY <1>2, <1>9 DEF Register, storeVars, executorVars
<1>10. ASSUME NEW d \in Deposits, Queue(d) PROVE Closed(id)'
  <2>1. client'[Exec] = client[Exec]
    BY <1>10 DEF Queue, Create, Call, TypeOK, SharedTypeOK
  <2> QED
    BY <1>10, <2>1 DEF Queue, Closed, storeVars, executorVars
<1>11. ASSUME SharedReset, ExecutorReset PROVE Closed(id)'
  <2>1. client'[Exec] = Idle /\ indexed' = indexed /\ pc' = "poll"
    BY <1>11 DEF SharedReset, ExecutorReset, keptVars, storeVars
  <2> QED
    BY <1>1, <2>1, IdleFacts
<1>12. ASSUME UNCHANGED vars PROVE Closed(id)'
  BY <1>2, <1>12 DEF vars, sharedVars, keptVars, storeVars, executorVars
<1> QED
  BY <1>5, <1>8, <1>9, <1>10, <1>11, <1>12, Zenon
     DEF Next, ExecutorStep, ControlStep, ScannerStep

(* Once closed, an operation that was paid stays closed.                   *)
LEMMA ClosedStable ==
  ASSUME TypeOK, StoreInv, [Next]_vars,
         NEW id, PayoutsOf(id) # {}, Closed(id)
  PROVE  Closed(id)'
<1>1. client[Scanner].cmd = "sadd" => client[Scanner].op.id # id
  BY DEF StoreInv, ScannerAgrees, Untouched
<1> QED
  BY <1>1, ClosedStays

(* Every step keeps what holds of one process lifetime.                    *)
LEMMA RunInvStep == TypeOK /\ StoreInv /\ RunInv /\ [Next]_vars => RunInv'
<1> SUFFICES ASSUME TypeOK, StoreInv, RunInv, [Next]_vars PROVE RunInv'
  OBVIOUS
<1> USE ExecutorAssumption, ScannerAssumption
<1>1. payouts \in Seq(Payout) /\ restarts \in Nat
  BY SharedAssumption, SMT DEF TypeOK, SharedTypeOK, ExecutorTypeOK
<1>2. \A i \in DOMAIN payouts :
        /\ payouts[i].op \in OpIds
        /\ payouts[i].run \in Nat /\ payouts[i].run <= restarts
  <2>1. \A i \in DOMAIN payouts : payouts[i] \in Payout
    BY <1>1, SMT
  <2> QED
    BY <2>1 DEF Payout, RunInv
(* Steps within a run that pay nothing. *)
<1>3. ASSUME UNCHANGED <<payouts, restarts, lostAnswers>>,
             workerShutdown => workerShutdown',
             \A i \in DOMAIN payouts, id \in OpIds :
               lostAnswers = 0 /\ PaidInRun(i) /\ payouts[i].op = id =>
                 /\ Handling' => id # op'.id
                 /\ pc = "saved" /\ id = op.id =>
                      \/ workerShutdown'
                      \/ pc' = "saved" /\ id = op'.id
                      \/ Closed(id)'
      PROVE  RunInv'
  <2>1. ASSUME lostAnswers = 0, NEW i \in DOMAIN payouts, PaidInRun(i),
               NEW id \in OpIds, id = payouts[i].op
        PROVE  /\ Handling' => id # op'.id
               /\ \/ workerShutdown'
                  \/ pc' = "saved" /\ id = op'.id
                  \/ Closed(id)'
    <3>1. PayoutsOf(id) # {}
      BY <2>1 DEF PayoutsOf
    <3>2. Closed(id) => Closed(id)'
      BY <3>1, ClosedStable
    <3> QED
      BY <1>3, <2>1, <3>2 DEF RunInv
  <2>2. \A i \in DOMAIN payouts, id \in OpIds :
          lostAnswers = 0 /\ PaidInRun(i) /\ id = payouts[i].op =>
            /\ Handling' => id # op'.id
            /\ \/ workerShutdown'
               \/ pc' = "saved" /\ id = op'.id
               \/ Closed(id)'
    BY <2>1
  <2> QED
    BY <1>2, <1>3, <2>2 DEF RunInv, PaidInRun, Closed
<1>4. ASSUME UNCHANGED <<payouts, restarts, lostAnswers, pc, op, workerShutdown>>
      PROVE  RunInv'
  BY <1>3, <1>4 DEF RunInv, Handling
<1>5. ASSUME NEW w \in {Exec, Scanner}, StoreStep(w), UNCHANGED executorVars
      PROVE  RunInv'
  <2>1. UNCHANGED flags
    BY <1>5 DEF StoreStep, SScan, Get, Write, RedisFails
  <2> QED
    BY <1>4, <1>5, <2>1 DEF flags, executorVars
<1>6. ASSUME Poll PROVE RunInv'
  <2>1. UNCHANGED <<payouts, restarts, lostAnswers, workerShutdown>> /\ pc = "poll" /\ pc' = "fetch"
    BY <1>6 DEF Poll, flags
  <2> QED
    BY <1>3, <2>1 DEF Handling
<1>7. ASSUME Stop PROVE RunInv'
  <2>1. UNCHANGED <<payouts, restarts, lostAnswers, workerShutdown>> /\ pc = "poll" /\ pc' = "exited"
    BY <1>7 DEF Stop, sharedVars, flags
  <2> QED
    BY <1>3, <2>1 DEF Handling
<1>8. ASSUME Fetch PROVE RunInv'
  <2>1. /\ UNCHANGED <<payouts, restarts, lostAnswers, workerShutdown>>
        /\ pc = "fetch" /\ op' = client[Exec].op
        /\ op' = NoOp => pc' = "poll"
    BY <1>8 DEF Fetch, flags
  <2>2. ~ workerShutdown
    BY <2>1 DEF StoreInv, ExecutorAgrees
  <2> QED
    BY <1>3, <2>1, <2>2 DEF RunInv, Closed, Handling
(* Steps that go on with the operation at hand. *)
<1>9. ASSUME Handling, pc' # "fetch", op'.id = op.id,
             UNCHANGED <<payouts, restarts, lostAnswers>>,
             workerShutdown => workerShutdown'
      PROVE  RunInv'
  BY <1>3, <1>9 DEF RunInv, Handling
<1>10. Handling => op \in BridgeOperation
  BY SMT DEF TypeOK, ExecutorTypeOK, Handling
<1>11. Handling => \A s \in Status : [op EXCEPT !.status = s].id = op.id
  BY <1>10, StatusUpdate
<1>12. ASSUME Unroutable \/ MarkExecuting \/ SenderUnknown PROVE RunInv'
  <2>1. PICK s \in Status : op' = [op EXCEPT !.status = s]
    BY <1>12 DEF Unroutable, MarkExecuting, SenderUnknown, Save, Status
  <2>2. /\ Handling /\ pc' # "fetch"
        /\ UNCHANGED <<payouts, restarts, lostAnswers, workerShutdown>>
    BY <1>12 DEF Unroutable, MarkExecuting, SenderUnknown, Save, Handling, flags
  <2>3. op'.id = op.id
    BY <1>11, <2>1, <2>2
  <2> QED
    BY <1>9, <2>2, <2>3
<1>13. ASSUME StartPayingBGL \/ SenderFound PROVE RunInv'
  BY <1>9, <1>13 DEF StartPayingBGL, SenderFound, sharedVars, Handling, flags
<1>14. ASSUME Marked PROVE RunInv'
  BY <1>9, <1>14 DEF Marked, Handling
<1>15. ASSUME Paying, AttemptFailed
       PROVE  Handling /\ pc' # "fetch" /\ op'.id = op.id
  BY <1>11, <1>15, Zenon
     DEF Paying, PayoutKinds, Handling, AttemptFailed, GiveUp, Save, Status
<1>16. ASSUME Refused PROVE RunInv'
  BY <1>9, <1>15, <1>16 DEF Refused, flags
(* A payment: the operation at hand had none in this run. *)
<1>17. ASSUME Paying, Accept, restarts' = restarts
       PROVE  /\ Handling
              /\ \A i \in DOMAIN payouts' :
                   \/ i \in DOMAIN payouts /\ payouts'[i] = payouts[i]
                   \/ i \notin DOMAIN payouts /\ i = Len(payouts) + 1
                      /\ payouts'[i].op = op.id /\ payouts'[i].run = restarts
              /\ \A i \in DOMAIN payouts' : payouts'[i].run <= restarts'
  <2>1. PICK p \in Payout : payouts' = Append(payouts, p) /\ p.op = op.id /\ p.run = restarts
    BY <1>17, AcceptFacts DEF Paying
  <2>2. \A i \in DOMAIN payouts' :
          \/ i \in DOMAIN payouts /\ payouts'[i] = payouts[i]
          \/ i \notin DOMAIN payouts /\ i = Len(payouts) + 1 /\ payouts'[i] = p
    BY <1>1, <2>1, SMT
  <2>3. \A i \in DOMAIN payouts' : payouts'[i].run <= restarts'
    BY <1>1, <1>2, <1>17, <2>1, <2>2, SMT
  <2> QED
    BY <1>17, <2>1, <2>2, <2>3 DEF Handling, Paying, PayoutKinds
<1>18. ASSUME AnswerLost PROVE RunInv'
  <2>1. lostAnswers' # 0
    BY <1>18, SMT DEF AnswerLost, TypeOK, ExecutorTypeOK
  <2>2. Paying /\ Accept /\ restarts' = restarts
    BY <1>18 DEF AnswerLost, flags
  <2>3. \A i \in DOMAIN payouts' : payouts'[i].run <= restarts'
    BY <1>17, <2>2
  <2> QED
    BY <2>1, <2>3 DEF RunInv
<1>19. ASSUME Paid PROVE RunInv'
  <2>1. /\ Paying /\ Accept /\ lostAnswers' = lostAnswers /\ pc' = "saved"
        /\ UNCHANGED <<workerShutdown, restarts>>
    BY <1>19 DEF Paid, Save, flags
  <2>2. op'.id = op.id
    <3>1. PICK s \in {"executing", "returning"} : op' = Sent(op, Len(payouts) + 1, s)
      BY <1>19 DEF Paid, Save
    <3>2. Len(payouts) + 1 \in Nat /\ s \in Status
      BY <1>1, SMT DEF Status
    <3> QED
      BY <1>10, <1>17, <2>1, <3>1, <3>2, SentFacts
  <2>3. /\ Handling
        /\ \A i \in DOMAIN payouts' :
             \/ i \in DOMAIN payouts /\ payouts'[i] = payouts[i]
             \/ i \notin DOMAIN payouts /\ i = Len(payouts) + 1
                /\ payouts'[i].op = op.id /\ payouts'[i].run = restarts
        /\ \A i \in DOMAIN payouts' : payouts'[i].run <= restarts'
    BY <1>17, <2>1
  <2>4. ASSUME lostAnswers = 0, NEW i \in DOMAIN payouts', NEW j \in DOMAIN payouts',
               payouts'[i].op = payouts'[j].op, payouts'[i].run = payouts'[j].run
        PROVE  i = j
    BY <2>3, <2>4 DEF RunInv, PaidInRun
  <2>5. ASSUME lostAnswers = 0, NEW i \in DOMAIN payouts',
               payouts'[i].run = restarts'
        PROVE  workerShutdown' \/ payouts'[i].op = op'.id \/ Closed(payouts[i].op)'
    <3> SUFFICES ASSUME NEW id, id = payouts'[i].op, id # op.id
                 PROVE  workerShutdown' \/ Closed(id)'
      BY <2>2 DEF Closed
    <3>1. i \in DOMAIN payouts /\ id = payouts[i].op /\ PaidInRun(i)
      BY <2>1, <2>3, <2>5 DEF PaidInRun
    <3>2. workerShutdown \/ Closed(id)
      BY <2>3, <2>5, <3>1 DEF RunInv, Handling
    <3>3. PayoutsOf(id) # {}
      BY <3>1 DEF PayoutsOf
    <3> QED
      BY <2>1, <3>2, <3>3, ClosedStable
  <2>6. ~ Handling'
    BY <2>1 DEF Handling
  <2> QED
    BY <2>1, <2>3, <2>4, <2>5, <2>6 DEF RunInv, PaidInRun
<1>20. ASSUME Saved PROVE RunInv'
  <2>1. /\ UNCHANGED <<payouts, restarts, lostAnswers>>
        /\ pc = "saved" /\ pc' = "poll"
        /\ workerShutdown' = (workerShutdown \/ Failed(Exec))
        /\ Returned(Exec) /\ indexed' = indexed /\ Call(Exec, Idle)
    BY <1>20 DEF Saved, Consume, keptVars, storeVars
  <2>2. ASSUME NEW id \in OpIds, id = op.id, ~ Failed(Exec) PROVE Closed(id)'
    <3>1. client[Exec].cmd = "ok"
      BY <2>1, <2>2 DEF Returned, Failed
    <3>2. PendingKey(id) \notin indexed'
      BY <2>1, <2>2, <3>1 DEF StoreInv, Moved
    <3>3. client'[Exec] = Idle
      BY <2>1 DEF Call, TypeOK, SharedTypeOK
    <3> QED
      BY <2>1, <3>2, <3>3, IdleFacts DEF Closed
  <2>3. ~ Handling' /\ workerShutdown \in BOOLEAN
    BY <2>1 DEF Handling, TypeOK, SharedTypeOK
  <2> QED
    BY <1>3, <2>1, <2>2, <2>3
<1>21. ASSUME NEW d \in Deposits, Register(d) \/ Queue(d) PROVE RunInv'
  BY <1>4, <1>21 DEF Register, Queue, flags, executorVars
<1>22. ASSUME SharedReset, ExecutorReset PROVE RunInv'
  <2>1. /\ UNCHANGED <<payouts, lostAnswers>> /\ restarts' = restarts + 1
    BY <1>22 DEF SharedReset, ExecutorReset
  <2>2. \A i \in DOMAIN payouts : payouts[i].run <= restarts' /\ payouts[i].run # restarts'
    BY <1>1, <1>2, <2>1, SMT
  <2> QED
    BY <2>1, <2>2 DEF RunInv, PaidInRun
<1>23. ASSUME UNCHANGED vars PROVE RunInv'
  BY <1>4, <1>23 DEF vars, sharedVars, flags, executorVars
<1> QED
  BY <1>5, <1>6, <1>7, <1>8, <1>12, <1>13, <1>14, <1>16, <1>18, <1>19,
     <1>20, <1>21, <1>22, <1>23, Zenon DEF Next, ExecutorStep, ScannerStep
(* The parts of CrashInv that are about the operation at hand.             *)
Clean == redisErrors = 0 /\ lostAnswers = 0

UnpaidAtHand ==
  /\ client[Exec].cmd = "err" => pc = "fetch"
  /\ pc \in {"forward", "return", "sender"} /\ op.deposit \in BGLDeposits
       => PendingKey(op.id) \notin indexed

(* Every step keeps what holds of all lifetimes.                           *)
LEMMA CrashInvStep == TypeOK /\ StoreInv /\ CrashInv /\ [Next]_vars => CrashInv'
<1> SUFFICES ASSUME TypeOK, StoreInv, CrashInv, [Next]_vars PROVE CrashInv'
  OBVIOUS
<1> USE ExecutorAssumption, ScannerAssumption
<1>1. /\ payouts \in Seq(Payout) /\ restarts \in Nat
      /\ redisErrors \in Nat /\ lostAnswers \in Nat
  BY SharedAssumption, SMT DEF TypeOK, SharedTypeOK, ExecutorTypeOK
(* Steps that pay nothing. *)
<1>2. ASSUME UNCHANGED payouts, Clean' => Clean,
             Clean /\ Clean' => UnpaidAtHand',
             \A i \in DOMAIN payouts :
               Clean /\ payouts[i].deposit \in BGLDeposits /\ Handling'
                 => payouts[i].op # op'.id
      PROVE  CrashInv'
  <2> SUFFICES ASSUME Clean, Clean' PROVE CrashInv'
    BY <1>2 DEF CrashInv, Clean
  <2>1. ASSUME NEW i \in DOMAIN payouts, payouts[i].deposit \in BGLDeposits,
               NEW id, id = payouts[i].op
        PROVE  Closed(id)'
    <3>1. PayoutsOf(id) # {} /\ Closed(id)
      BY <2>1 DEF PayoutsOf, CrashInv, Clean
    <3> QED
      BY <3>1, ClosedStable
  <2> QED
    BY <1>2, <2>1 DEF CrashInv, Clean, UnpaidAtHand, Closed
(* Steps of others. *)
<1>3. ASSUME UNCHANGED <<payouts, lostAnswers, pc, op>>, redisErrors' >= redisErrors,
             client'[Exec] = client[Exec],
             \/ indexed' \subseteq indexed
             \/ \E k : indexed' = indexed \union {k} /\ (op # NoOp => k[2] # op.id)
      PROVE  CrashInv'
  <2>1. Clean' => Clean
    BY <1>1, <1>3, SMT DEF Clean
  <2>2. Clean => UnpaidAtHand'
    <3>1. pc \in {"forward", "return", "sender"} => op # NoOp
      BY DEF TypeOK, ExecutorTypeOK
    <3> QED
      BY <1>3, <3>1 DEF CrashInv, UnpaidAtHand, Clean, PendingKey
  <2> QED
    BY <1>2, <1>3, <2>1, <2>2 DEF CrashInv, Clean, Handling
<1>4. ASSUME UNCHANGED <<payouts, lostAnswers, redisErrors, pc, op, client, indexed>>
      PROVE  CrashInv'
  BY <1>1, <1>3, <1>4
<1>5. ASSUME SScan(Exec) \/ Get(Exec), UNCHANGED executorVars PROVE CrashInv'
  <2>1. /\ UNCHANGED <<payouts, lostAnswers, redisErrors, pc, op, indexed>>
        /\ client[Exec].cmd \in {"sscan", "get"}
    BY <1>5, ReadStep DEF TypeOK, executorVars
  <2>2. pc = "fetch"
    BY <2>1, IdleFacts, SMT
       DEF StoreInv, ExecutorAgrees, Writing, TypeOK, ExecutorTypeOK,
           PayoutKinds
  <2> QED
    BY <1>2, <2>1, <2>2 DEF Clean, UnpaidAtHand, Handling
<1>6. ASSUME Write(Exec), UNCHANGED executorVars PROVE CrashInv'
  <2>1. /\ UNCHANGED <<payouts, lostAnswers, redisErrors, pc, op>>
        /\ Writing(client[Exec])
        /\ client' = [client EXCEPT ![Exec] =
              [client[Exec] EXCEPT !.cmd = Following(client[Exec].cmd)]]
    BY <1>6 DEF Write, Call, Effect, Writing, executorVars
  <2>2. client'[Exec].cmd # "err"
    BY <2>1, SMT DEF Writing, Following, TypeOK, SharedTypeOK, Client
  <2>3. pc \in {"mark", "saved"}
    BY <2>1, IdleFacts, SMT
       DEF StoreInv, ExecutorAgrees, Writing, TypeOK, ExecutorTypeOK,
           PayoutKinds
  <2> QED
    BY <1>2, <2>1, <2>2, <2>3 DEF Clean, UnpaidAtHand, Handling, CrashInv
<1>7. ASSUME Write(Scanner), UNCHANGED executorVars PROVE CrashInv'
  <2> DEFINE k == <<client[Scanner].op.status, client[Scanner].op.id>>
  <2>1. /\ UNCHANGED <<payouts, lostAnswers, redisErrors, pc, op>>
        /\ client'[Exec] = client[Exec]
        /\ client[Scanner].cmd \in {"srem", "del", "set", "sadd"}
        /\ indexed' \subseteq indexed \/ indexed' = indexed \union {k}
    BY <1>7 DEF Write, Call, Effect, executorVars, TypeOK, SharedTypeOK
  <2>2. op # NoOp => k[2] # op.id
    BY <2>1, SMT DEF StoreInv, ScannerAgrees, Untouched
  <2> HIDE DEF k
  <2> QED
    BY <1>1, <1>3, <2>1, <2>2, SMT
<1>8. ASSUME NEW w \in {Exec, Scanner}, RedisFails(w), UNCHANGED executorVars PROVE CrashInv'
  <2>1. redisErrors' # 0
    BY <1>1, <1>8, SMT DEF RedisFails
  <2> QED
    BY <2>1 DEF CrashInv
<1>9. ASSUME NEW w \in {Exec, Scanner}, StoreStep(w), UNCHANGED executorVars
      PROVE  CrashInv'
  <2>1. w = Scanner => ~ (SScan(w) \/ Get(w))
    BY SMT DEF StoreInv, ScannerAgrees, SScan, Get
  <2> QED
    BY <1>5, <1>6, <1>7, <1>8, <1>9, <2>1 DEF StoreStep
<1>10. ASSUME Poll \/ Stop PROVE CrashInv'
  <2>1. /\ UNCHANGED <<payouts, lostAnswers, redisErrors>>
        /\ pc' \in {"fetch", "exited"}
        /\ \/ client'[Exec] = FindPending
           \/ client'[Exec] = client[Exec] /\ pc = "poll"
    BY <1>10 DEF Poll, Stop, Call, sharedVars, keptVars, TypeOK, SharedTypeOK
  <2>2. client'[Exec].cmd # "err"
    BY <2>1, FindPendingFacts, IdleFacts DEF StoreInv, ExecutorAgrees
  <2> QED
    BY <1>2, <2>1, <2>2 DEF Clean, UnpaidAtHand, Handling
<1>11. ASSUME Fetch PROVE CrashInv'
  <2>1. /\ UNCHANGED <<payouts, lostAnswers, redisErrors>>
        /\ pc = "fetch" /\ pc' \in {"poll", "address"}
        /\ op' = client[Exec].op /\ (op' = NoOp => pc' = "poll")
        /\ client'[Exec] = Idle
    BY <1>11 DEF Fetch, Consume, Call, keptVars, TypeOK, SharedTypeOK
  <2>2. \A i \in DOMAIN payouts :
          Clean /\ payouts[i].deposit \in BGLDeposits /\ Handling'
            => payouts[i].op # op'.id
    BY <2>1 DEF CrashInv, Clean, Closed, Handling
  <2> QED
    BY <1>2, <2>1, <2>2, IdleFacts DEF Clean, UnpaidAtHand
(* Steps that go on with the operation at hand. *)
<1>12. ASSUME Handling, op'.id = op.id, UNCHANGED payouts, Clean' => Clean,
              Clean /\ Clean' => UnpaidAtHand'
       PROVE  CrashInv'
  BY <1>2, <1>12 DEF CrashInv, Clean
<1>13. Handling => op \in BridgeOperation
  BY SMT DEF TypeOK, ExecutorTypeOK, Handling
<1>14. ASSUME NEW o, NEW next \in {"mark", "saved"}, Save(o, next) PROVE UnpaidAtHand'
  <2>1. client'[Exec] = ChangeCall(o, "pending") /\ pc' = next
    BY <1>14 DEF Save, Call, TypeOK, SharedTypeOK
  <2> QED
    BY <2>1, SMT DEF UnpaidAtHand, ChangeCall, Request
<1>15. ASSUME Unroutable \/ MarkExecuting \/ SenderUnknown PROVE CrashInv'
  <2>1. PICK s \in Status : op' = [op EXCEPT !.status = s]
    BY <1>15 DEF Unroutable, MarkExecuting, SenderUnknown, Save, Status
  <2>2. Handling /\ UNCHANGED <<payouts, lostAnswers>>
    BY <1>15 DEF Unroutable, MarkExecuting, SenderUnknown, Handling
  <2>3. UnpaidAtHand'
    BY <1>14, <1>15 DEF Unroutable, MarkExecuting, SenderUnknown
  <2>4. redisErrors' = 0 => redisErrors = 0
    BY <1>1, <1>15, SMT
       DEF Unroutable, MarkExecuting, SenderUnknown, CommandFails, keptVars
  <2> QED
    BY <1>12, <1>13, <2>1, <2>2, <2>3, <2>4, StatusUpdate DEF Clean
<1>16. ASSUME StartPayingBGL \/ SenderFound PROVE CrashInv'
  <2>1. /\ Handling /\ UNCHANGED <<op, client, indexed, payouts, lostAnswers, redisErrors>>
        /\ \/ op.deposit \notin BGLDeposits \/ pc = "sender"
        /\ pc \in {"address", "sender"}
    BY <1>16
       DEF StartPayingBGL, SenderFound, Handling, sharedVars, keptVars,
           storeVars
  <2>2. client[Exec].cmd # "err"
    BY <2>1, IdleFacts DEF StoreInv, ExecutorAgrees
  <2> QED
    BY <1>12, <2>1, <2>2 DEF CrashInv, Clean, UnpaidAtHand
<1>17. ASSUME Marked PROVE CrashInv'
  <2>1. /\ Handling /\ UNCHANGED <<op, indexed, payouts, lostAnswers, redisErrors>>
        /\ pc = "mark" /\ pc' = "forward" /\ client'[Exec] = Idle
        /\ Returned(Exec)
    BY <1>17
       DEF Marked, Handling, Consume, Call, keptVars, storeVars, TypeOK,
           SharedTypeOK
  <2>2. Clean => PendingKey(op.id) \notin indexed
    BY <2>1 DEF CrashInv, Clean, Returned, StoreInv, Moved
  <2> QED
    BY <1>12, <2>1, <2>2, IdleFacts DEF Clean, UnpaidAtHand
<1>18. ASSUME Refused PROVE CrashInv'
  <2>1. Handling /\ Paying /\ AttemptFailed /\ UNCHANGED <<indexed, payouts, lostAnswers, redisErrors>>
    BY <1>18 DEF Refused, Paying, PayoutKinds, Handling, keptVars, storeVars
  <2>2. CASE Save([op EXCEPT !.status = "returnfail"], "saved")
    <3>1. op' = [op EXCEPT !.status = "returnfail"] /\ "returnfail" \in Status
      BY <2>2 DEF Save, Status
    <3> QED
      BY <1>12, <1>13, <1>14, <2>1, <2>2, <3>1, StatusUpdate DEF Clean
  <2>3. CASE UNCHANGED <<op, client>>
    <3>1. client'[Exec].cmd # "err"
      BY <2>1, <2>3, IdleFacts DEF StoreInv, ExecutorAgrees, Paying, PayoutKinds
    <3> QED
      BY <1>12, <2>1, <2>3, <3>1
         DEF CrashInv, Clean, UnpaidAtHand, Paying, PayoutKinds
  <2> QED
    BY <2>1, <2>2, <2>3, Zenon DEF AttemptFailed, GiveUp
<1>19. ASSUME AnswerLost PROVE CrashInv'
  <2>1. lostAnswers' # 0
    BY <1>1, <1>19, SMT DEF AnswerLost
  <2> QED
    BY <2>1 DEF CrashInv
<1>20. ASSUME Paid PROVE CrashInv'
  <2> SUFFICES ASSUME Clean, Clean' PROVE CrashInv'
    BY <1>20 DEF Paid, Clean, keptVars, CrashInv
  <2>1. /\ pc \in PayoutKinds /\ Handling /\ Accept
        /\ pc' = "saved" /\ indexed' = indexed
    BY <1>20 DEF Paid, Paying, PayoutKinds, Handling, Save, keptVars, storeVars
  <2>2. PICK s \in {"executing", "returning"} : Save(Sent(op, Len(payouts) + 1, s), "saved")
    BY <1>20 DEF Paid
  <2>3. UnpaidAtHand'
    BY <1>14, <2>2
  <2>4. PICK p \in Payout :
          payouts' = Append(payouts, p) /\ p.op = op.id /\ p.deposit = op.deposit
    BY <2>1, AcceptFacts
  <2>5. \A i \in DOMAIN payouts' :
          \/ i \in DOMAIN payouts /\ payouts'[i] = payouts[i]
          \/ i = Len(payouts) + 1 /\ payouts'[i] = p
    BY <1>1, <2>4, SMT
  <2>6. \A i \in DOMAIN payouts :
          payouts[i].deposit \in BGLDeposits =>
            /\ Closed(payouts[i].op)
            /\ payouts[i].op # op.id
            /\ \A j \in DOMAIN payouts : payouts[j].op = payouts[i].op => j = i
    BY <2>1 DEF CrashInv, Clean
  <2>7. \A i \in DOMAIN payouts :
          payouts[i].op = op.id => payouts[i].deposit = op.deposit
    <3>1. <<op.id, op.deposit>> \in issued
      BY <1>13, <2>1, SharedAssumption DEF StoreInv, Traced, IsIssued
    <3> QED
      BY <3>1 DEF StoreInv, Traced
  <2>8. ASSUME NEW i \in DOMAIN payouts', payouts'[i].deposit \in BGLDeposits
        PROVE  \A j \in DOMAIN payouts' : payouts'[j].op = payouts'[i].op => j = i
    BY <2>4, <2>5, <2>6, <2>7, <2>8
  <2>9. ASSUME NEW i \in DOMAIN payouts', payouts'[i].deposit \in BGLDeposits,
               NEW id, id = payouts'[i].op
        PROVE  Closed(id)'
    <3>1. CASE i \in DOMAIN payouts /\ payouts'[i] = payouts[i]
      <4>1. PayoutsOf(id) # {} /\ Closed(id)
        BY <2>6, <2>9, <3>1 DEF PayoutsOf
      <4> QED
        BY <4>1, ClosedStable
    <3>2. CASE payouts'[i] = p
      <4>1. PendingKey(id) \notin indexed'
        BY <2>1, <2>4, <2>9, <3>2 DEF CrashInv, Clean, PayoutKinds
      <4>2. client'[Exec].keys = {}
        BY <2>2 DEF Save, Call, ChangeCall, Request, TypeOK, SharedTypeOK
      <4> QED
        BY <2>1, <4>1, <4>2 DEF Closed
    <3> QED
      BY <2>5, <3>1, <3>2
  <2> QED
    BY <2>1, <2>3, <2>8, <2>9 DEF CrashInv, UnpaidAtHand, Closed, Handling
<1>21. ASSUME Saved PROVE CrashInv'
  <2>1. /\ UNCHANGED <<payouts, lostAnswers, redisErrors>>
        /\ pc' = "poll" /\ client'[Exec] = Idle
    BY <1>21 DEF Saved, Consume, Call, keptVars, TypeOK, SharedTypeOK
  <2> QED
    BY <1>2, <2>1, IdleFacts DEF Clean, UnpaidAtHand, Handling
<1>22. ASSUME NEW d \in Deposits, Register(d) PROVE CrashInv'
  BY <1>4, <1>22 DEF Register, storeVars, executorVars
<1>23. ASSUME NEW d \in Deposits, Queue(d) PROVE CrashInv'
  <2>1. /\ UNCHANGED <<payouts, lostAnswers, redisErrors, pc, op, indexed>>
        /\ client'[Exec] = client[Exec]
    BY <1>23 DEF Queue, Create, Call, storeVars, executorVars, TypeOK, SharedTypeOK
  <2> QED
    BY <1>1, <1>3, <2>1
<1>24. ASSUME SharedReset, ExecutorReset PROVE CrashInv'
  <2>1. /\ UNCHANGED <<payouts, lostAnswers, redisErrors>>
        /\ pc' = "poll" /\ client'[Exec] = Idle
    BY <1>24 DEF SharedReset, ExecutorReset, keptVars
  <2> QED
    BY <1>2, <2>1, IdleFacts DEF Clean, UnpaidAtHand, Handling
<1>25. ASSUME UNCHANGED vars PROVE CrashInv'
  BY <1>4, <1>25 DEF vars, sharedVars, keptVars, storeVars, executorVars
<1> QED
  BY <1>9, <1>10, <1>11, <1>15, <1>16, <1>17, <1>18, <1>19, <1>20, <1>21,
     <1>22, <1>23, <1>24, <1>25, Zenon DEF Next, ExecutorStep, ScannerStep

(* Nothing is paid initially.                                              *)
LEMMA InitPayments == Init => RunInv /\ CrashInv
<1> SUFFICES ASSUME Init PROVE RunInv /\ CrashInv
  OBVIOUS
<1>1. DOMAIN payouts = {} /\ pc = "poll" /\ client[Exec] = Idle
  BY ExecutorAssumption, SMT DEF Init, SharedInit, ExecutorInit
<1> QED
  BY <1>1, IdleFacts DEF RunInv, CrashInv

(* The invariant that makes the safety properties inductive.               *)
THEOREM Inductive == Spec => []IInv
<1>1. Init => IInv
  BY InitType, InitStore, InitPayments DEF IInv
<1>2. IInv /\ [Next]_vars => IInv'
  BY TypeStep, StoreInvStep, RunInvStep, CrashInvStep DEF IInv
<1> QED
  BY <1>1, <1>2, PTL DEF Spec

(* "emergency exit to avoid looping": whichever Redis commands fail,       *)
(* within one process lifetime an operation is paid out at most once.      *)
THEOREM NoDoublePayoutInARun == Spec => []OnePayoutPerRun
<1>1. IInv => OnePayoutPerRun
  BY DEF IInv, RunInv, OnePayoutPerRun, AtMostOne, PayoutsOf
<1> QED
  BY <1>1, Inductive, PTL

(* "update record immediately to prevent looped sending": wherever the     *)
(* process dies, a BGL deposit is paid out at most once, as long as Redis  *)
(* and the payment calls answer.                                           *)
THEOREM NoDoublePayoutAcrossCrashes == Spec => []OnePayoutAcrossCrashes
<1>1. IInv => OnePayoutAcrossCrashes
  BY DEF IInv, CrashInv, OnePayoutAcrossCrashes
<1> QED
  BY <1>1, Inductive, PTL

(***************************************************************************)
(* What is known of the payments that the worker makes: RecordsInv.        *)
(***************************************************************************)

(* An operation that is not settled and whose deposit is still held has    *)
(* not been paid when the worker has it in hand.                           *)
LEMMA HandlingUnpaid ==
  ASSUME TypeOK, StoreInv, RunInv, CrashInv, Handling, StillHeld(op.deposit)
  PROVE  PayoutsOf(op.id) = {}
<1>1. op # NoOp
  BY SMT DEF TypeOK, ExecutorTypeOK, Handling
<1>2. ASSUME NEW i \in DOMAIN payouts, payouts[i].op = op.id
      PROVE  FALSE
  <2>1. CASE restarts = 0
    <3>1. payouts[i] \in Payout
      BY SMT DEF TypeOK, ExecutorTypeOK
    <3>2. PaidInRun(i)
      BY <2>1, <3>1, SMT DEF PaidInRun, RunInv, Payout
    <3> QED
      BY <1>2, <3>2 DEF RunInv, StillHeld
  <2>2. CASE redisErrors = 0 /\ op.deposit \in BGLDeposits
    <3>1. payouts[i].deposit = op.deposit
      BY <1>1, <1>2 DEF StoreInv, Traced, IsIssued
    <3> QED
      BY <1>2, <2>2, <3>1 DEF CrashInv, StillHeld
  <2> QED
    BY <2>1, <2>2 DEF StillHeld
<1> QED
  BY <1>2 DEF PayoutsOf

(* Faults are only ever added to.                                          *)
LEMMA FaultsGrow ==
  ASSUME TypeOK, [Next]_vars
  PROVE  /\ lostAnswers \in Nat /\ restarts \in Nat /\ redisErrors \in Nat
         /\ lostAnswers' = lostAnswers \/ lostAnswers' = lostAnswers + 1
         /\ restarts' = restarts \/ restarts' = restarts + 1
         /\ redisErrors' = redisErrors \/ redisErrors' = redisErrors + 1
<1>1. lostAnswers \in Nat /\ restarts \in Nat /\ redisErrors \in Nat
  BY SharedAssumption, ExecutorAssumption, SMT
     DEF TypeOK, SharedTypeOK, ExecutorTypeOK
<1>2. lostAnswers' = lostAnswers \/ lostAnswers' = lostAnswers + 1
  BY Zenon
     DEF Next, vars, ExecutorStep, ScannerStep, Poll, Stop, Fetch, Unroutable,
         MarkExecuting, StartPayingBGL, Marked, Paid, Refused, AnswerLost,
         SenderFound, SenderUnknown, Saved, Register, Queue, SharedReset,
         ExecutorReset, executorVars
<1>3. restarts' = restarts \/ restarts' = restarts + 1
  BY Zenon
     DEF Next, vars, ExecutorStep, ScannerStep, Poll, Stop, Fetch, Unroutable,
         MarkExecuting, StartPayingBGL, Marked, Paid, Refused, AnswerLost,
         SenderFound, SenderUnknown, Saved, Register, Queue, SharedReset,
         ExecutorReset, executorVars, sharedVars, flags, StoreStep, SScan, Get,
         Write, RedisFails
<1>4. redisErrors' = redisErrors \/ redisErrors' = redisErrors + 1
  BY Zenon
     DEF Next, vars, ExecutorStep, ScannerStep, Poll, Stop, Fetch, Unroutable,
         MarkExecuting, StartPayingBGL, Marked, Paid, Refused, AnswerLost,
         SenderFound, SenderUnknown, Saved, Register, Queue, SharedReset,
         ExecutorReset, executorVars, sharedVars, keptVars, StoreStep, SScan,
         Get, Write, RedisFails, CommandFails
<1> QED
  BY <1>1, <1>2, <1>3, <1>4

(* The copies of operations are operations.                                *)
LEMMA CopiesType ==
  ASSUME TypeOK
  PROVE  Copies \subseteq BridgeOperation \union {NoOp}
BY ExecutorAssumption, ScannerAssumption, SMT
   DEF TypeOK, SharedTypeOK, ExecutorTypeOK, Copies, Client

(* The worker has an operation in hand to pay: no copy of it is settled.   *)
LEMMA PayingUnsettled ==
  ASSUME TypeOK, StoreInv, StatusOfCopies, Unsettled, Paying,
         NEW o \in Copies \ {NoOp}, o.id = op.id
  PROVE  o.status \in {"pending", "executing"}
<1>1. Handling /\ client[Exec] = Idle
  BY SMT DEF Handling, Paying, PayoutKinds, StoreInv, ExecutorAgrees
<1>2. ASSUME NEW k \in Keys, o = records[k]
      PROVE  o.status \in {"pending", "executing"}
  BY <1>1, <1>2 DEF Unsettled, Settled, StoreInv, Filed
<1>3. CASE o = client[Exec].op
  BY <1>1, <1>3, IdleFacts
<1>4. CASE o = client[Scanner].op
  BY <1>4 DEF StatusOfCopies
<1>5. CASE o = op
  BY <1>1, <1>5 DEF StatusOfCopies
<1> QED
  BY <1>2, <1>3, <1>4, <1>5 DEF Copies

(* A truthful copy stays so while payments are made, unless it says that   *)
(* nothing was paid.                                                       *)
LEMMA TruthfulSteady ==
  ASSUME TypeOK, [Next]_vars, NEW o \in BridgeOperation, Truthful(o),
         \/ payouts' = payouts
         \/ \E p \in Payout :
              /\ payouts' = Append(payouts, p)
              /\ p.op = o.id => o.status \in {"pending", "executing"}
  PROVE  Truthful(o)'
<1>1. payouts \in Seq(Payout) /\ o.destTx \in Nat
  BY SMT DEF TypeOK, ExecutorTypeOK, BridgeOperation
<1>2. StillHeld(o.deposit)' => StillHeld(o.deposit)
  BY FaultsGrow, SMT DEF StillHeld
<1>3. CASE payouts' = payouts
  BY <1>2, <1>3 DEF Truthful, NamesPayout, PayoutsOf
<1>4. ASSUME NEW p \in Payout, payouts' = Append(payouts, p),
             p.op = o.id => o.status \in {"pending", "executing"}
      PROVE  Truthful(o)'
  <2>1. /\ DOMAIN payouts' = DOMAIN payouts \union {Len(payouts) + 1}
        /\ payouts'[Len(payouts) + 1] = p
        /\ \A i \in DOMAIN payouts : payouts'[i] = payouts[i]
    BY <1>1, <1>4, SMT
  <2>2. ASSUME NEW kind, NamesPayout(o, kind) PROVE NamesPayout(o, kind)'
    BY <2>1, <2>2, SMT DEF NamesPayout, PayoutsOf
  <2>3. p.op # o.id => PayoutsOf(o.id)' = PayoutsOf(o.id)
    BY <2>1, SMT DEF PayoutsOf
  <2> QED
    BY <1>2, <1>4, <2>2, <2>3 DEF Truthful
<1> QED
  BY <1>3, <1>4

(* The copies stay truthful in a step that makes one new copy, or none.    *)
LEMMA CopiesKept ==
  ASSUME TypeOK, StoreInv, RecordsInv, [Next]_vars,
         NEW n, Copies' \subseteq Copies \union {NoOp, n},
         n \in Copies \union {NoOp} \/ Truthful(n)',
         payouts' = payouts \/ (Paying /\ Accept)
  PROVE  RecordsTruthful'
<1>1. ASSUME NEW o \in Copies \ {NoOp} PROVE Truthful(o)'
  <2>1. o \in BridgeOperation /\ Truthful(o)
    BY <1>1, CopiesType DEF RecordsInv, RecordsTruthful
  <2>2. CASE payouts' = payouts
    BY <2>1, <2>2, TruthfulSteady
  <2>3. CASE Paying /\ Accept
    <3>1. PICK p \in Payout : payouts' = Append(payouts, p) /\ p.op = op.id
      BY <2>3, AcceptFacts DEF Paying
    <3>2. p.op = o.id => o.status \in {"pending", "executing"}
      BY <2>3, <3>1, PayingUnsettled DEF RecordsInv
    <3> QED
      BY <2>1, <3>1, <3>2, TruthfulSteady
  <2> QED
    BY <2>2, <2>3
<1> QED
  BY <1>1 DEF RecordsTruthful

(* Nothing of what RecordsInv speaks of changes but the address book, the  *)
(* flag and the bounds' counters.                                          *)
LEMMA RecordsUnmoved ==
  ASSUME TypeOK, StoreInv, RecordsInv, [Next]_vars,
         UNCHANGED <<records, indexed, client, pc, op, payouts>>
  PROVE  RecordsInv'
<1>1. Copies' = Copies
  BY DEF Copies
<1>2. RecordsTruthful'
  BY <1>1, CopiesKept
<1>3. LeftAreClosed' /\ StatusOfCopies' /\ Unsettled'
  BY DEF RecordsInv, LeftAreClosed, StatusOfCopies, Unsettled, Closed, Handling
<1> QED
  BY <1>2, <1>3 DEF RecordsInv

(* A key that is left stays closed.                                        *)
LEMMA LeftStayClosed ==
  ASSUME TypeOK, StoreInv, RecordsInv, [Next]_vars,
         NEW k \in Keys, Left(k), records[k] # NoOp
  PROVE  Closed(k[2])'
<1>1. PICK id : id = k[2]
  OBVIOUS
<1>2. client[Scanner].cmd = "sadd" => client[Scanner].op.id # id
  BY <1>1 DEF RecordsInv, Unsettled
<1>3. Closed(id)'
  BY <1>1, <1>2, ClosedStays DEF RecordsInv, LeftAreClosed
<1> QED
  BY <1>1, <1>3

(* A command of a search by the worker.                                    *)
LEMMA RecordsRead ==
  ASSUME TypeOK, StoreInv, RecordsInv, [Next]_vars,
         SScan(Exec) \/ Get(Exec), UNCHANGED executorVars
  PROVE  RecordsInv'
<1> USE ExecutorAssumption, ScannerAssumption
<1>1. UNCHANGED <<records, indexed, pc, op, payouts>>
  BY ReadStep DEF TypeOK, executorVars
<1>2. PICK c \in Client :
        /\ client' = [client EXCEPT ![Exec] = c]
        /\ \/ c.op = client[Exec].op \/ c.op = NoOp
           \/ \E k \in client[Exec].keys : records[k] # NoOp /\ c.op = records[k]
  BY ReadStep DEF TypeOK
<1>3. client'[Exec] = c /\ client'[Scanner] = client[Scanner]
  BY <1>2 DEF TypeOK, SharedTypeOK
<1>4. client[Exec].keys \subseteq Keys
  BY SMT DEF TypeOK, SharedTypeOK, Client
<1>5. c.op \in Copies \union {NoOp}
  BY <1>2, <1>4 DEF Copies
<1>6. Copies' \subseteq Copies \union {NoOp}
  BY <1>1, <1>3, <1>5 DEF Copies
<1>7. RecordsTruthful'
  BY <1>1, <1>6, CopiesKept
<1>8. LeftAreClosed'
  BY <1>1, LeftStayClosed DEF LeftAreClosed
<1>9. pc = "fetch" /\ c.op # NoOp => c.op.status = "pending"
  BY <1>2, <1>4 DEF RecordsInv, StatusOfCopies, StoreInv, ExecutorAgrees, Filed
<1>10. StatusOfCopies' /\ Unsettled'
  BY <1>1, <1>3, <1>9 DEF RecordsInv, StatusOfCopies, Unsettled, Handling
<1> QED
  BY <1>7, <1>8, <1>10 DEF RecordsInv

(* A command that writes, of the worker or of the scanner.                 *)
LEMMA RecordsWrite ==
  ASSUME TypeOK, StoreInv, RecordsInv, [Next]_vars,
         NEW w \in {Exec, Scanner}, NEW c \in Client, WriteOrFail(w, c),
         UNCHANGED executorVars
  PROVE  RecordsInv'
<1> USE ExecutorAssumption, ScannerAssumption
<1>1. UNCHANGED <<pc, op, payouts>>
  BY DEF executorVars
<1>2. client'[w] = c /\ \A v \in Workers \ {w} : client'[v] = client[v]
  BY DEF WriteOrFail, TypeOK, SharedTypeOK
<1>3. client[w] \in Client
  BY DEF TypeOK, SharedTypeOK
<1>4. /\ c.op = client[w].op \/ c.op = NoOp
      /\ c.cmd \in {"set", "sadd"} => c.op = client[w].op /\ Writing(client[w])
  BY <1>3, ErrorFacts, SMT DEF WriteOrFail, Client, Effect, Following, Writing
(* A record that was not there is that of the operation being stored. *)
<1>5. ASSUME NEW k \in Keys, records'[k] # NoOp
      PROVE  \/ records'[k] = records[k]
             \/ /\ client[w].cmd = "set"
                /\ k = <<client[w].op.status, client[w].op.id>>
                /\ records'[k] = client[w].op
  BY <1>5 DEF WriteOrFail, Effect, storeVars, TypeOK, SharedTypeOK
<1>6. Copies' \subseteq Copies \union {NoOp}
  <2>1. {records'[k] : k \in Keys} \subseteq Copies \union {NoOp}
    BY <1>5 DEF Copies
  <2>2. {client'[v].op : v \in {Exec, Scanner}} \subseteq Copies \union {NoOp}
    BY <1>2, <1>4 DEF Copies
  <2> QED
    BY <1>1, <2>1, <2>2 DEF Copies
<1>7. RecordsTruthful'
  BY <1>1, <1>6, CopiesKept
(* The scanner stores pending operations, the worker those it has moved. *)
<1>8. ASSUME w = Exec, Writing(client[w])
      PROVE  /\ pc \in {"mark", "saved"} /\ client[w].op = op /\ op # NoOp
             /\ client[w].keys = {}
  BY <1>8, IdleFacts, SMT
     DEF StoreInv, ExecutorAgrees, Writing, TypeOK, ExecutorTypeOK, PayoutKinds
<1>9. ASSUME w = Scanner, Writing(client[w])
      PROVE  /\ client[w].op.status = "pending" /\ client[w].cmd \in {"set", "sadd"}
             /\ Untouched(client[w].op.id)
  BY <1>9, SMT DEF StoreInv, ScannerAgrees, Writing
<1>10. LeftAreClosed'
  <2> SUFFICES ASSUME NEW k \in Keys, Left(k), records'[k] # NoOp
               PROVE  Closed(k[2])'
    BY DEF LeftAreClosed
  <2>1. CASE records[k] # NoOp
    BY <2>1, LeftStayClosed
  <2>2. CASE records[k] = NoOp
    <3>1. /\ client[w].cmd = "set" /\ k = <<client[w].op.status, client[w].op.id>>
      BY <1>5, <2>2
    <3>2. w = Exec
      BY <1>9, <3>1 DEF Writing, Left
    <3>3. pc \in {"mark", "saved"} /\ PendingKey(k[2]) \notin indexed
      BY <1>8, <3>1, <3>2 DEF Writing, StoreInv, Moved
    <3>4. c.keys = {}
      BY <1>3, <1>8, <3>1, <3>2, ErrorFacts, SMT DEF WriteOrFail, Writing, Client
    <3>5. indexed' = indexed
      BY <3>1 DEF WriteOrFail, Effect, storeVars
    <3> QED
      BY <1>1, <1>2, <3>2, <3>3, <3>4, <3>5 DEF Closed, PendingKey
  <2> QED
    BY <2>1, <2>2
<1>11. StatusOfCopies'
  <2>1. client'[Scanner].op # NoOp => client'[Scanner].op.status = "pending"
    BY <1>2, <1>4 DEF RecordsInv, StatusOfCopies
  <2>2. pc = "fetch" /\ client'[Exec].op # NoOp => client'[Exec].op.status = "pending"
    BY <1>2, <1>4 DEF RecordsInv, StatusOfCopies
  <2> QED
    BY <1>1, <2>1, <2>2 DEF RecordsInv, StatusOfCopies, Handling
<1>12. Unsettled'
  <2> SUFFICES ASSUME NEW k \in Keys, records'[k] # NoOp
               PROVE  /\ Handling /\ Settled(k) => k[2] # op.id
                      /\ client'[Scanner].cmd \in {"set", "sadd"} /\ Left(k) =>
                           k[2] # client'[Scanner].op.id
    BY <1>1 DEF Unsettled, Handling
  <2>1. client'[Scanner].cmd \in {"set", "sadd"} =>
          client'[Scanner].op = client[Scanner].op /\ client[Scanner].cmd \in {"set", "sadd"}
    BY <1>2, <1>4, <1>9
  <2>2. CASE records[k] # NoOp
    BY <2>1, <2>2 DEF RecordsInv, Unsettled
  <2>3. CASE records[k] = NoOp
    <3>1. client[w].cmd = "set" /\ k = <<client[w].op.status, client[w].op.id>>
      BY <1>5, <2>3
    <3>2. CASE w = Scanner
      BY <1>9, <3>1, <3>2 DEF Writing, Left, Settled
    <3>3. CASE w = Exec
      <4>1. Handling => op.status \in {"pending", "executing"}
        BY DEF RecordsInv, StatusOfCopies
      <4>2. client[Scanner].cmd \in {"set", "sadd"} => client[Scanner].op.id # op.id
        BY <1>8, <3>1, <3>3 DEF Writing, StoreInv, ScannerAgrees, Untouched
      <4> QED
        BY <1>8, <2>1, <3>1, <3>3, <4>1, <4>2 DEF Writing, Settled
    <3> QED
      BY <3>2, <3>3
  <2> QED
    BY <2>2, <2>3
<1> QED
  BY <1>7, <1>10, <1>11, <1>12 DEF RecordsInv

(* The worker goes on in its loop, with n the operation it has then.       *)
LEMMA RecordsControl ==
  ASSUME TypeOK, StoreInv, RecordsInv, [Next]_vars,
         NEW c \in Client, client' = [client EXCEPT ![Exec] = c],
         UNCHANGED <<records, indexed>>,
         NEW n, n \in Copies \union {NoOp} \/ Truthful(n)',
         op' \in {NoOp, n}, c.op \in {NoOp, n},
         payouts' = payouts \/ (Paying /\ Accept),
         pc' = "fetch" => c.op = NoOp,
         pc' = "address" => n.status = "pending",
         Handling' =>
           /\ op' = n /\ n.status \in {"pending", "executing"}
           /\ \/ Handling /\ n.id = op.id
              \/ \A k \in Keys : records[k] # NoOp /\ Left(k) => k[2] # n.id
  PROVE  RecordsInv'
<1> USE ExecutorAssumption, ScannerAssumption
<1>1. client'[Exec] = c /\ client'[Scanner] = client[Scanner]
  BY DEF TypeOK, SharedTypeOK
<1>2. Copies' \subseteq Copies \union {NoOp, n}
  BY <1>1 DEF Copies
<1>3. RecordsTruthful'
  BY <1>2, CopiesKept
<1>4. LeftAreClosed'
  BY LeftStayClosed DEF LeftAreClosed
<1>5. StatusOfCopies'
  <2>1. pc' = "address" => Handling'
    BY DEF Handling
  <2> QED
    BY <1>1, <2>1 DEF RecordsInv, StatusOfCopies
<1>6. Unsettled'
  <2>1. \A k \in Keys : Settled(k) => Left(k)
    BY DEF Settled, Left
  <2> QED
    BY <1>1, <2>1 DEF RecordsInv, Unsettled
<1> QED
  BY <1>3, <1>4, <1>5, <1>6 DEF RecordsInv

(* The worker starts to save o, which is true of what was paid by then.    *)
LEMMA RecordsSave ==
  ASSUME TypeOK, StoreInv, RecordsInv, [Next]_vars, Handling,
         NEW o \in BridgeOperation, o.id = op.id, Truthful(o)',
         NEW next \in {"mark", "saved"}, Save(o, next),
         next = "mark" => o.status = "executing",
         UNCHANGED <<records, indexed>>,
         payouts' = payouts \/ (Paying /\ Accept)
  PROVE  RecordsInv'
<1> DEFINE c == ChangeCall(o, "pending")
<1>1. c \in Client /\ c.op = o
  BY ChangeCallFacts DEF Status
<1>2. client' = [client EXCEPT ![Exec] = c] /\ op' = o /\ pc' = next
  BY DEF Save, Call
<1>3. Handling' => next = "mark"
  BY <1>2 DEF Handling
<1> HIDE DEF c
<1> QED
  BY <1>1, <1>2, <1>3, RecordsControl

(* The worker goes on with the same operation. *)
LEMMA RecordsGoOn ==
  ASSUME TypeOK, StoreInv, RecordsInv, [Next]_vars, Handling,
         pc' \in {"forward", "return", "sender"}, op' = op,
         client' = client \/ client' = [client EXCEPT ![Exec] = Idle],
         client' = client => pc # "mark",
         UNCHANGED <<records, indexed>>,
         payouts' = payouts \/ (Paying /\ Accept)
  PROVE  RecordsInv'
<1> USE ExecutorAssumption
<1>1. client' = [client EXCEPT ![Exec] = Idle]
  <2>1. ASSUME client' = client PROVE client[Exec] = Idle
    BY <2>1, SMT DEF StoreInv, ExecutorAgrees, Handling
  <2> QED
    BY <2>1 DEF TypeOK, SharedTypeOK
<1>2. PICK n : n = op
  OBVIOUS
<1>3. n \in Copies /\ n.status \in {"pending", "executing"}
  BY <1>2 DEF Copies, RecordsInv, StatusOfCopies
<1>4. pc' # "fetch" /\ pc' # "address"
  OBVIOUS
<1> QED
  BY <1>1, <1>2, <1>3, <1>4, IdleFacts, RecordsControl

(* A deposit that is given up is still held, unless a fault excuses it.    *)
LEMMA GivenUpTruthful ==
  ASSUME TypeOK, StoreInv, RunInv, CrashInv, [Next]_vars, Handling,
         NEW s \in {"failed", "returnfail"}, NEW o, o = [op EXCEPT !.status = s],
         payouts' = payouts \/ lostAnswers' # 0
  PROVE  Truthful(o)' /\ o \in BridgeOperation /\ o.id = op.id
<1>1. op \in BridgeOperation
  BY SharedAssumption, SMT DEF TypeOK, ExecutorTypeOK, Handling
<1>2. /\ o \in BridgeOperation /\ o.status = s
      /\ o.id = op.id /\ o.deposit = op.deposit
  BY <1>1, SMT DEF BridgeOperation, Status
<1>3. StillHeld(o.deposit)' => StillHeld(op.deposit) /\ payouts' = payouts
  BY <1>2, FaultsGrow, SMT DEF StillHeld
<1>4. StillHeld(o.deposit)' => PayoutsOf(o.id)' = {}
  BY <1>2, <1>3, HandlingUnpaid DEF PayoutsOf
<1> QED
  BY <1>2, <1>4 DEF Truthful

(* Every step keeps RecordsInv: one case per action.                       *)
LEMMA RecordsInvStep == IInv /\ RecordsInv /\ [Next]_vars => RecordsInv'
<1> SUFFICES ASSUME TypeOK, StoreInv, RunInv, CrashInv, RecordsInv, [Next]_vars
             PROVE  RecordsInv'
  BY DEF IInv
<1> USE ExecutorAssumption, ScannerAssumption
<1>1. ASSUME NEW w \in {Exec, Scanner}, StoreStep(w), UNCHANGED executorVars
      PROVE  RecordsInv'
  <2>1. w = Scanner => ~ (SScan(w) \/ Get(w))
    BY SMT DEF StoreInv, ScannerAgrees, SScan, Get
  <2>2. CASE SScan(w) \/ Get(w)
    BY <1>1, <2>1, <2>2, RecordsRead
  <2>3. CASE Write(w) \/ RedisFails(w)
    BY <1>1, <2>3, WriteOrFailFacts, RecordsWrite
  <2> QED
    BY <1>1, <2>2, <2>3 DEF StoreStep
<1>2. ASSUME Poll PROVE RecordsInv'
  <2>1. /\ client' = [client EXCEPT ![Exec] = FindPending] /\ pc' = "fetch"
        /\ UNCHANGED <<records, indexed, op, payouts>> /\ op = NoOp
    BY <1>2 DEF Poll, Call, keptVars, storeVars, StoreInv, ExecutorAgrees
  <2>2. ~ Handling'
    BY <2>1 DEF Handling
  <2> QED
    BY <2>1, <2>2, FindPendingFacts, RecordsControl
<1>3. ASSUME Stop PROVE RecordsInv'
  <2>1. /\ pc = "poll" /\ client[Exec] = Idle /\ pc' = "exited"
        /\ UNCHANGED <<records, indexed, client, op, payouts>> /\ op = NoOp
    BY <1>3 DEF Stop, sharedVars, keptVars, storeVars, StoreInv, ExecutorAgrees
  <2>2. client' = [client EXCEPT ![Exec] = Idle]
    BY <2>1 DEF TypeOK, SharedTypeOK
  <2>3. ~ Handling'
    BY <2>1 DEF Handling
  <2> QED
    BY <2>1, <2>2, <2>3, IdleFacts, RecordsControl
<1>4. ASSUME Fetch PROVE RecordsInv'
  <2>1. PICK n : n = client[Exec].op
    OBVIOUS
  <2>2. /\ pc = "fetch" /\ client' = [client EXCEPT ![Exec] = Idle]
        /\ op' = n /\ pc' = IF n = NoOp THEN "poll" ELSE "address"
        /\ UNCHANGED <<records, indexed, payouts>>
    BY <1>4, <2>1 DEF Fetch, Consume, Call, keptVars, storeVars
  <2>3. /\ n \in Copies
        /\ n # NoOp => n.status = "pending"
    BY <2>1, <2>2 DEF Copies, RecordsInv, StatusOfCopies
  <2>4. /\ pc' \in {"poll", "address"}
        /\ Handling' \/ pc' = "address" => n # NoOp
    BY <2>2 DEF Handling
  <2>5. ASSUME n # NoOp, NEW k \in Keys, records[k] # NoOp, Left(k)
        PROVE  k[2] # n.id
    BY <2>1, <2>2, <2>5 DEF RecordsInv, LeftAreClosed, Closed
  <2>6. Handling' => \A k \in Keys : records[k] # NoOp /\ Left(k) => k[2] # n.id
    BY <2>4, <2>5
  <2>7. /\ Handling' \/ pc' = "address" => n.status = "pending"
        /\ Idle \in Client /\ Idle.op = NoOp
    BY <2>3, <2>4, IdleFacts
  <2> QED
    BY <2>2, <2>3, <2>6, <2>7, RecordsControl
<1>5. ASSUME Unroutable PROVE RecordsInv'
  <2>1. PICK o : o = [op EXCEPT !.status = "failed"]
    OBVIOUS
  <2>2. /\ Handling /\ Save(o, "saved")
        /\ UNCHANGED <<records, indexed, payouts>>
    BY <1>5, <2>1 DEF Unroutable, Handling, storeVars
  <2> QED
    BY <2>1, <2>2, GivenUpTruthful, RecordsSave
<1>6. ASSUME MarkExecuting PROVE RecordsInv'
  <2>1. PICK o : o = [op EXCEPT !.status = "executing"]
    OBVIOUS
  <2>2. /\ Handling /\ pc = "address" /\ op.deposit \in BGLDeposits /\ Save(o, "mark")
        /\ UNCHANGED <<records, indexed, payouts>>
    BY <1>6, <2>1 DEF MarkExecuting, Handling, keptVars, storeVars
  <2>3. op \in BridgeOperation /\ op # NoOp
    BY <2>2, SharedAssumption, SMT DEF TypeOK, ExecutorTypeOK
  <2>4. /\ o \in BridgeOperation /\ o.status = "executing" /\ o.destTx = op.destTx
        /\ o.id = op.id /\ o.deposit = op.deposit
    BY <2>1, <2>3, StatusUpdate DEF Status
  <2>5. op.destTx = 0
    BY <2>2, <2>3 DEF RecordsInv, StatusOfCopies, RecordsTruthful, Copies, Truthful
  <2>6. Truthful(o)'
    BY <2>2, <2>4, <2>5 DEF Truthful
  <2> QED
    BY <2>2, <2>4, <2>6, RecordsSave
<1>7. ASSUME StartPayingBGL \/ SenderFound PROVE RecordsInv'
  <2>1. /\ Handling /\ pc # "mark" /\ pc' \in {"forward", "return"}
        /\ UNCHANGED <<records, indexed, client, op, payouts>>
    BY <1>7 DEF StartPayingBGL, SenderFound, Handling, sharedVars, keptVars, storeVars
  <2> QED
    BY <2>1, RecordsGoOn
<1>8. ASSUME Marked PROVE RecordsInv'
  <2>1. /\ Handling /\ pc' = "forward" /\ client' = [client EXCEPT ![Exec] = Idle]
        /\ UNCHANGED <<records, indexed, op, payouts>>
    BY <1>8 DEF Marked, Handling, Consume, Call, keptVars, storeVars
  <2>2. pc = "mark" /\ client'[Exec] = Idle
    BY <1>8, <2>1 DEF Marked, TypeOK, SharedTypeOK
  <2>3. PICK n : n = op
    OBVIOUS
  <2>4. n \in Copies /\ n.status \in {"pending", "executing"}
    BY <2>1, <2>3 DEF Copies, RecordsInv, StatusOfCopies
  <2> QED
    BY <2>1, <2>3, <2>4, IdleFacts, RecordsControl
<1>9. ASSUME Paid PROVE RecordsInv'
  <2> DEFINE s == IF pc = "forward" THEN "executing" ELSE "returning"
             t == Len(payouts) + 1
  <2>1. PICK o : o = Sent(op, t, s)
    OBVIOUS
  <2>2. /\ Handling /\ Paying /\ Accept /\ Save(o, "saved")
        /\ UNCHANGED <<records, indexed>>
    BY <1>9, <2>1
       DEF Paid, Paying, PayoutKinds, Handling, keptVars, storeVars
  <2>3. op \in BridgeOperation /\ op # NoOp /\ payouts \in Seq(Payout)
    BY <2>2, SharedAssumption, SMT DEF TypeOK, ExecutorTypeOK, Handling
  <2>4. t \in Nat /\ s \in Status
    BY <2>3, SMT DEF Status
  <2>5. /\ o \in BridgeOperation /\ o.id = op.id /\ o.destTx = t /\ o.status = s
    BY <2>1, <2>3, <2>4, SentFacts
  <2>6. PICK p \in Payout :
          payouts' = Append(payouts, p) /\ p.op = op.id /\ p.kind = pc
    BY <2>2, AcceptFacts DEF Paying
  <2>7. t \in DOMAIN payouts' /\ payouts'[t] = p
    BY <2>3, <2>6, SMT
  <2>8. NamesPayout(o, p.kind)'
    BY <2>5, <2>6, <2>7 DEF NamesPayout, PayoutsOf
  <2>9. pc \in {"forward", "return"}
    BY <2>2 DEF Paying, PayoutKinds
  <2>10. Truthful(o)'
    BY <2>5, <2>6, <2>8, <2>9 DEF Truthful
  <2> QED
    BY <2>2, <2>5, <2>10, RecordsSave
<1>10. ASSUME AttemptFailed, Paying, UNCHANGED <<records, indexed>>,
              payouts' = payouts \/ Accept,
              payouts' = payouts \/ lostAnswers' # 0
       PROVE  RecordsInv'
  <2>1. Handling /\ pc \in {"forward", "return"}
    BY <1>10 DEF Paying, PayoutKinds, Handling
  <2>2. CASE UNCHANGED <<op, client>> /\ pc' \in {"forward", "return", "sender"}
    <3>1. pc # "mark"
      BY <2>1
    <3> QED
      BY <1>10, <2>1, <2>2, <3>1, RecordsGoOn
  <2>3. PICK o : o = [op EXCEPT !.status = "returnfail"]
    OBVIOUS
  <2>4. CASE Save(o, "saved")
    BY <1>10, <2>1, <2>3, <2>4, GivenUpTruthful, RecordsSave
  <2> QED
    BY <1>10, <2>1, <2>2, <2>3, <2>4, Zenon DEF AttemptFailed, GiveUp
<1>11. ASSUME Refused PROVE RecordsInv'
  BY <1>10, <1>11 DEF Refused, keptVars, storeVars
<1>12. ASSUME AnswerLost PROVE RecordsInv'
  <2>1. lostAnswers' # 0
    BY <1>12, SMT DEF AnswerLost, TypeOK, ExecutorTypeOK
  <2> QED
    BY <1>10, <1>12, <2>1 DEF AnswerLost, keptVars, storeVars
<1>13. ASSUME SenderUnknown PROVE RecordsInv'
  <2>1. PICK o : o = [op EXCEPT !.status = "returnfail"]
    OBVIOUS
  <2>2. /\ Handling /\ Save(o, "saved")
        /\ UNCHANGED <<records, indexed, payouts>>
    BY <1>13, <2>1 DEF SenderUnknown, Handling, keptVars, storeVars
  <2> QED
    BY <2>1, <2>2, GivenUpTruthful, RecordsSave
<1>14. ASSUME Saved PROVE RecordsInv'
  <2>1. /\ client' = [client EXCEPT ![Exec] = Idle] /\ op' = NoOp /\ pc' = "poll"
        /\ UNCHANGED <<records, indexed, payouts>>
    BY <1>14 DEF Saved, Consume, Call, keptVars, storeVars
  <2>2. ~ Handling'
    BY <2>1 DEF Handling
  <2> QED
    BY <2>1, <2>2, IdleFacts, RecordsControl
<1>15. ASSUME NEW d \in Deposits, Register(d) PROVE RecordsInv'
  BY <1>15, RecordsUnmoved DEF Register, storeVars, executorVars
<1>16. ASSUME NEW d \in Deposits, Queue(d) PROVE RecordsInv'
  <2>1. PICK id \in OpIds :
          /\ \A p \in issued : p[1] # id
          /\ client' = [client EXCEPT ![Scanner] =
               UpsertCall([id |-> id, status |-> "pending", deposit |-> d, destTx |-> 0])]
    BY <1>16 DEF Queue, Create, Call
  <2>2. PICK o : o = [id |-> id, status |-> "pending", deposit |-> d, destTx |-> 0]
    OBVIOUS
  <2>3. o \in BridgeOperation /\ o.status = "pending" /\ o.destTx = 0 /\ o.id = id
    BY <2>2, SMT DEF BridgeOperation, Status
  <2>4. /\ client'[Exec] = client[Exec] /\ client'[Scanner].op = o
        /\ UNCHANGED <<records, indexed, payouts, pc, op>>
    BY <1>16, <2>1, <2>2, <2>3, UpsertCallFacts
       DEF Queue, storeVars, executorVars, TypeOK, SharedTypeOK
  <2>5. RecordsTruthful'
    <3>1. Truthful(o)'
      BY <2>3 DEF Truthful
    <3>2. Copies' \subseteq Copies \union {NoOp, o}
      BY <2>4 DEF Copies
    <3> QED
      BY <2>4, <3>1, <3>2, CopiesKept
  <2>6. LeftAreClosed'
    BY <2>4, LeftStayClosed DEF LeftAreClosed
  <2>7. StatusOfCopies'
    BY <2>3, <2>4 DEF RecordsInv, StatusOfCopies, Handling
  <2>8. ASSUME NEW k \in Keys, records[k] # NoOp PROVE k[2] # id
    BY <2>1, <2>8 DEF StoreInv, Traced, IsIssued, Filed
  <2>9. Unsettled'
    BY <2>3, <2>4, <2>8 DEF RecordsInv, Unsettled, Handling
  <2> QED
    BY <2>5, <2>6, <2>7, <2>9 DEF RecordsInv
<1>17. ASSUME SharedReset, ExecutorReset PROVE RecordsInv'
  <2>1. /\ client'[Exec] = Idle /\ client'[Scanner] = Idle
        /\ op' = NoOp /\ pc' = "poll"
        /\ UNCHANGED <<records, indexed, payouts>>
    BY <1>17 DEF SharedReset, ExecutorReset, keptVars, storeVars
  <2>2. Copies' \subseteq Copies \union {NoOp}
    BY <2>1, IdleFacts DEF Copies
  <2>3. RecordsTruthful'
    BY <2>1, <2>2, CopiesKept
  <2>4. LeftAreClosed'
    BY <2>1, LeftStayClosed DEF LeftAreClosed
  <2>5. StatusOfCopies' /\ Unsettled'
    BY <2>1, IdleFacts DEF StatusOfCopies, Unsettled, Handling
  <2> QED
    BY <2>3, <2>4, <2>5 DEF RecordsInv
<1>18. ASSUME UNCHANGED vars PROVE RecordsInv'
  BY <1>18, RecordsUnmoved DEF vars, sharedVars, keptVars, storeVars, executorVars
<1> QED
  BY <1>1, <1>2, <1>3, <1>4, <1>5, <1>6, <1>7, <1>8, <1>9, <1>11, <1>12, <1>13,
     <1>14, <1>15, <1>16, <1>17, <1>18, Zenon
     DEF Next, ExecutorStep, ScannerStep

(* Initially there are no copies. *)
LEMMA InitRecords == Init => RecordsInv
<1> SUFFICES ASSUME Init PROVE RecordsInv
  OBVIOUS
<1>1. /\ \A k \in Keys : records[k] = NoOp
      /\ client[Exec] = Idle /\ client[Scanner] = Idle
      /\ op = NoOp /\ pc = "poll"
  BY ExecutorAssumption, ScannerAssumption DEF Init, SharedInit, ExecutorInit
<1> QED
  BY <1>1, IdleFacts
     DEF RecordsInv, RecordsTruthful, Copies, LeftAreClosed, StatusOfCopies,
         Unsettled, Handling

(* Records, goroutines and the operation at hand are true of the payments. *)
THEOREM RecordsHold == Spec => []RecordsInv
<1>1. Init => RecordsInv
  BY InitRecords
<1>2. IInv /\ RecordsInv /\ [Next]_vars => RecordsInv'
  BY RecordsInvStep
<1> QED
  BY <1>1, <1>2, Inductive, PTL DEF Spec

(* What the EVM scanner finalises an operation by is a payment of it.      *)
THEOREM DestTxNamesAPayout == Spec => []RecordNamesItsPayout
<1>1. IInv /\ RecordsInv => RecordNamesItsPayout
  <2> SUFFICES ASSUME TypeOK, Filed, RecordsTruthful, NEW k \in Keys, records[k] # NoOp
               PROVE  LET t == records[k].destTx
                      IN  /\ k[1] = "returning" =>
                               t \in PayoutsOf(k[2]) /\ payouts[t].kind = "return"
                          /\ k[1] = "executing" =>
                               \/ t \in PayoutsOf(k[2]) /\ payouts[t].kind = "forward"
                               \/ t = 0 /\ records[k].deposit \in BGLDeposits
    BY DEF IInv, StoreInv, RecordsInv, RecordNamesItsPayout
  <2>1. records[k].status = k[1] /\ records[k].id = k[2]
    BY DEF Filed
  <2>2. Truthful(records[k])
    BY DEF RecordsTruthful, Copies
  <2> QED
    BY <2>1, <2>2 DEF Truthful, NamesPayout
<1> QED
  BY <1>1, Inductive, RecordsHold, PTL

(* A deposit an operator finds unsettled has been neither paid out nor     *)
(* returned, unless a fault of the kind StillHeld excludes occurred.       *)
THEOREM UnsettledDepositsAreKept == Spec => []UnsettledMeansKept
<1>1. IInv /\ RecordsInv => UnsettledMeansKept
  <2> SUFFICES ASSUME Filed, RecordsTruthful, NEW k \in Keys, records[k] # NoOp,
                      k[1] \in {"failed", "returnfail"}, StillHeld(records[k].deposit)
               PROVE  PayoutsOf(k[2]) = {}
    BY DEF IInv, StoreInv, RecordsInv, UnsettledMeansKept, StillHeld
  <2>1. records[k].status = k[1] /\ records[k].id = k[2]
    BY DEF Filed
  <2>2. Truthful(records[k])
    BY DEF RecordsTruthful, Copies
  <2> QED
    BY <2>1, <2>2 DEF Truthful
<1> QED
  BY <1>1, Inductive, RecordsHold, PTL

(***************************************************************************)
(* Payments and faults.                                                    *)
(***************************************************************************)

(* The further payments and the paid operations are finitely many.         *)
LEMMA FinitelyPaid ==
  payouts \in Seq(Payout) =>
    /\ IsFiniteSet(Further) /\ Cardinality(Further) \in Nat
    /\ IsFiniteSet(Debts) /\ Cardinality(Debts) \in Nat
<1> SUFFICES ASSUME payouts \in Seq(Payout)
             PROVE  /\ IsFiniteSet(Further) /\ Cardinality(Further) \in Nat
                    /\ IsFiniteSet(Debts) /\ Cardinality(Debts) \in Nat
  OBVIOUS
<1>1. IsFiniteSet(Further) /\ IsFiniteSet(PaidIds)
  BY FinitelyMany DEF Further, Repeats, PaidIds, OpsIn
<1>2. IsFiniteSet(Debts)
  BY <1>1, FS_Subset DEF Debts
<1> QED
  BY <1>1, <1>2, FS_CardinalityType

(* The same after a step.                                                  *)
LEMMA FinitelyPaidAfter ==
  (payouts \in Seq(Payout) =>
     /\ IsFiniteSet(Further) /\ Cardinality(Further) \in Nat
     /\ IsFiniteSet(Debts) /\ Cardinality(Debts) \in Nat)'
BY FinitelyPaid, PTL

(* A payment is a further one exactly if its operation was paid before.    *)
LEMMA FurtherAppended ==
  ASSUME payouts \in Seq(Payout), NEW p \in Payout, payouts' = Append(payouts, p)
  PROVE  /\ PaidIds' = PaidIds \union {p.op}
         /\ payouts' # <<>> /\ payouts'[Len(payouts')].op = p.op
         /\ p.op \notin PaidIds => Cardinality(Further)' = Cardinality(Further)
         /\ p.op \in PaidIds => Cardinality(Further)' = Cardinality(Further) + 1
<1>1. PICK s : s = payouts
  OBVIOUS
<1>2. PICK t : t = payouts'
  OBVIOUS
<1>3. s \in Seq(Payout) /\ t = Append(s, p)
  BY <1>1, <1>2
<1>4. /\ PaidIds = OpsIn(s) /\ PaidIds' = OpsIn(t)
      /\ Further = Repeats(s) /\ Further' = Repeats(t)
  BY <1>1, <1>2 DEF PaidIds, OpsIn, Further, Repeats
<1>5. \A x : x \in OpsIn(t) <=> x \in OpsIn(s) \/ x = p.op
  BY <1>3, Appended
<1>6. t # <<>> /\ t[Len(t)].op = p.op
  BY <1>3, Appended
<1>7. /\ p.op \notin OpsIn(s) => Cardinality(Repeats(t)) = Cardinality(Repeats(s))
      /\ p.op \in OpsIn(s) => Cardinality(Repeats(t)) = Cardinality(Repeats(s)) + 1
  BY <1>3, Appended
<1>8. OpsIn(t) = OpsIn(s) \union {p.op}
  BY <1>5
<1> QED
  BY <1>2, <1>4, <1>6, <1>7, <1>8

(* Whoever is paid again is a debt; a payment made no longer is.           *)
LEMMA DebtsPaying ==
  ASSUME TypeOK, StoreInv, [Next]_vars, Paying, Accept
  PROVE  /\ op.id \in PaidIds => op.id \in Debts
         /\ op'.id = op.id /\ pc' # "fetch" => Debts' \subseteq Debts \union {op.id}
         /\ op'.id = op.id /\ pc' = "saved" => Debts' \subseteq Debts \ {op.id}
<1>1. /\ Handling /\ pc \in {"forward", "return"}
  BY DEF Paying, PayoutKinds, Handling
<1>2. PICK p \in Payout : payouts' = Append(payouts, p) /\ p.op = op.id
  BY <1>1, AcceptFacts DEF PayoutKinds
<1>3. /\ PaidIds' = PaidIds \union {op.id}
      /\ payouts' # <<>> /\ payouts'[Len(payouts')].op = op.id
  BY <1>2, FurtherAppended DEF TypeOK, ExecutorTypeOK
<1>4. ASSUME NEW id \in PaidIds, ~ Closed(id)' PROVE ~ Closed(id)
  <2>1. PayoutsOf(id) # {}
    BY <1>4 DEF PaidIds, PayoutsOf
  <2> QED
    BY <1>4, <2>1, ClosedStable
<1>5. \A id : ~ BeingSettled(id)
  BY <1>1 DEF BeingSettled
<1>6. ASSUME op'.id = op.id, NEW id \in Debts', id # op.id
      PROVE  id \in Debts
  <2>1. id \in PaidIds /\ Payable(id)'
    BY <1>3, <1>6 DEF Debts
  <2>2. Payable(id)
    BY <1>4, <1>6, <2>1 DEF Payable
  <2> QED
    BY <1>5, <2>1, <2>2 DEF Debts
<1>7. op'.id = op.id /\ pc' = "saved" => op.id \notin Debts'
  <2>1. PICK id : id = op.id
    OBVIOUS
  <2>2. op'.id = op.id /\ pc' = "saved" => BeingSettled(id)'
    BY <1>3, <2>1 DEF BeingSettled
  <2>3. op'.id = op.id /\ pc' = "saved" => id \notin Debts'
    BY <2>2 DEF Debts
  <2> QED
    BY <2>1, <2>3
<1>8. op.id \in PaidIds => op.id \in Debts
  BY <1>1, <1>5 DEF Debts, Payable
<1> QED
  BY <1>6, <1>7, <1>8

(* Without a payment and a restart no debt arises.                         *)
LEMMA DebtsPassing ==
  ASSUME TypeOK, StoreInv, [Next]_vars, payouts' = payouts, restarts' = restarts
  PROVE  Debts' \subseteq Debts
<1> USE ExecutorAssumption, ScannerAssumption
<1> SUFFICES ASSUME NEW id \in PaidIds, Payable(id)', ~ BeingSettled(id)'
             PROVE  Payable(id) /\ ~ BeingSettled(id)
  BY DEF Debts, PaidIds
<1>1. ~ Closed(id)' => ~ Closed(id)
  <2>1. PayoutsOf(id) # {}
    BY DEF PaidIds, PayoutsOf
  <2> QED
    BY <2>1, ClosedStable
<1>2. ASSUME UNCHANGED <<pc, op, workerShutdown>>
      PROVE  Payable(id) /\ ~ BeingSettled(id)
  BY <1>1, <1>2 DEF Payable, Handling, BeingSettled
(* The worker goes on with the operation it has, or with none. *)
<1>3. ASSUME Handling, op'.id = op.id \/ ~ Handling'
      PROVE  Payable(id) /\ ~ BeingSettled(id)
  BY <1>1, <1>3 DEF Payable, Handling, BeingSettled
<1>4. ASSUME NEW w \in {Exec, Scanner}, StoreStep(w), UNCHANGED executorVars
      PROVE  Payable(id) /\ ~ BeingSettled(id)
  BY <1>2, <1>4
     DEF StoreStep, SScan, Get, Write, RedisFails, executorVars, flags
<1>5. CASE Poll
  <2>1. /\ pc = "poll" /\ pc' = "fetch" /\ ~ workerShutdown
    BY <1>5 DEF Poll
  <2> QED
    BY <1>1, <2>1 DEF Payable, Handling, BeingSettled
<1>6. CASE Stop
  <2>1. pc = "poll" /\ pc' = "exited" /\ UNCHANGED <<op, workerShutdown>>
    BY <1>6 DEF Stop, sharedVars, flags
  <2> QED
    BY <1>1, <2>1 DEF Payable, Handling, BeingSettled
<1>7. CASE Fetch
  <2>1. /\ pc = "fetch" /\ op' = client[Exec].op
        /\ pc' = IF client[Exec].op = NoOp THEN "poll" ELSE "address"
    BY <1>7 DEF Fetch
  <2>2. Handling' => op' # NoOp
    BY <2>1 DEF Handling
  <2>3. Handling' /\ op'.id = id => ~ Closed(id)
    BY <2>1, <2>2 DEF Closed
  <2>4. ~ workerShutdown
    BY <2>1 DEF StoreInv, ExecutorAgrees
  <2> QED
    BY <1>1, <2>1, <2>3, <2>4 DEF Payable, BeingSettled
<1>8. ASSUME NEW s \in Status, Save([op EXCEPT !.status = s], "saved") \/
                                Save([op EXCEPT !.status = s], "mark"), Handling
      PROVE  Payable(id) /\ ~ BeingSettled(id)
  <2>1. op \in BridgeOperation
    BY <1>8, SharedAssumption, SMT DEF TypeOK, ExecutorTypeOK, Handling
  <2>2. [op EXCEPT !.status = s].id = op.id
    BY <2>1, StatusUpdate
  <2>3. op' = [op EXCEPT !.status = s]
    BY <1>8 DEF Save
  <2> QED
    BY <1>3, <1>8, <2>2, <2>3
<1>9. CASE Unroutable \/ MarkExecuting \/ SenderUnknown
  BY <1>8, <1>9
     DEF Unroutable, MarkExecuting, SenderUnknown, Handling, Status
<1>10. CASE StartPayingBGL \/ SenderFound \/ Marked
  BY <1>3, <1>10 DEF StartPayingBGL, SenderFound, Marked, Handling
<1>11. CASE Refused
  <2>1. Handling
    BY <1>11 DEF Refused, Paying, PayoutKinds, Handling
  <2>2. CASE op' = op
    BY <1>3, <2>1, <2>2
  <2>3. CASE Save([op EXCEPT !.status = "returnfail"], "saved")
    BY <1>8, <2>1, <2>3 DEF Status
  <2> QED
    BY <1>11, <2>2, <2>3, Zenon DEF Refused, AttemptFailed, GiveUp
<1>12. CASE Saved
  <2>1. /\ pc = "saved" /\ client[Exec].cmd \in {"ok", "err"}
        /\ workerShutdown' = (workerShutdown \/ client[Exec].cmd = "err")
        /\ pc' = "poll"
    BY <1>12 DEF Saved, Returned, Failed
  <2>2. ~ Handling' /\ ~ Closed(id)
    BY <1>1, <2>1 DEF Payable, Handling
  <2>3. client[Exec].cmd = "ok" => PendingKey(op.id) \notin indexed
    BY <2>1 DEF StoreInv, Moved
  <2>4. client[Exec].keys = {}
    BY <2>1 DEF StoreInv, ExecutorAgrees
  <2>5. client[Exec].cmd = "ok" /\ op.id = id => Closed(id)
    BY <2>1, <2>3, <2>4 DEF Closed
  <2>6. client[Exec].cmd = "err" /\ op.id = id => ~ BeingSettled(id)
    BY <2>1 DEF BeingSettled
  <2> QED
    BY <2>1, <2>2, <2>5, <2>6 DEF Payable, BeingSettled
<1>13. CASE Paid \/ AnswerLost
  <2>1. Paying /\ Accept
    BY <1>13 DEF Paid, AnswerLost
  <2>2. PICK p \in Payout : payouts' = Append(payouts, p)
    BY <2>1, AcceptFacts DEF Paying
  <2> QED
    BY <2>2, SMT DEF TypeOK, ExecutorTypeOK
<1>14. CASE \E d \in Deposits : Register(d) \/ Queue(d)
  BY <1>2, <1>14 DEF Register, Queue, executorVars, flags
<1>15. CASE SharedReset /\ ExecutorReset
  BY <1>15, SharedAssumption, SMT DEF SharedReset, TypeOK, SharedTypeOK
<1>16. CASE UNCHANGED vars
  BY <1>2, <1>16 DEF vars, sharedVars, flags, executorVars
<1> QED
  BY <1>4, <1>5, <1>6, <1>7, <1>9, <1>10, <1>11, <1>12, <1>13, <1>14, <1>15,
     <1>16, Zenon
     DEF Next, ExecutorStep, ScannerStep

(* A restart may bring back one operation: the one last paid.              *)
LEMMA DebtsRestarting ==
  ASSUME TypeOK, StoreInv, [Next]_vars, SharedReset, ExecutorReset
  PROVE  \E id : Debts' \subseteq Debts \union {id}
<1>1. PICK last : last = payouts[Len(payouts)].op
  OBVIOUS
<1>2. payouts' = payouts /\ ~ Handling'
  BY DEF ExecutorReset, Handling
<1>3. ASSUME NEW id \in PaidIds, id # last, Payable(id)'
      PROVE  id \in Debts
  <2>1. PayoutsOf(id) # {}
    BY <1>3 DEF PaidIds, PayoutsOf
  <2>2. ~ Closed(id)
    BY <1>2, <1>3, <2>1, ClosedStable DEF Payable
  <2> QED
    BY <1>1, <1>3, <2>2 DEF Debts, Payable, BeingSettled
<1>4. PaidIds' = PaidIds
  BY <1>2 DEF PaidIds
<1> QED
  BY <1>3, <1>4 DEF Debts

(* Every step keeps the account of payments and faults.                    *)
LEMMA WithinExcusesStep ==
  ASSUME TypeOK, StoreInv, WithinExcuses, [Next]_vars
  PROVE  WithinExcuses'
<1> DEFINE f == Cardinality(Further)
           d == Cardinality(Debts)
<1>1. /\ payouts \in Seq(Payout) /\ payouts' \in Seq(Payout)
      /\ restarts \in Nat /\ lostAnswers \in Nat
  BY TypeStep, FaultsGrow DEF TypeOK, ExecutorTypeOK
<1>2. /\ f \in Nat /\ d \in Nat /\ f' \in Nat /\ d' \in Nat
      /\ IsFiniteSet(Debts) /\ IsFiniteSet(Debts')
  BY <1>1, FinitelyPaid, FinitelyPaidAfter
<1>3. /\ Debts' \subseteq Debts => d' <= d
      /\ \A x : Debts' \subseteq Debts \union {x} =>
                d' <= d + 1 /\ (x \in Debts => d' <= d)
      /\ \A x : Debts' \subseteq Debts \ {x} =>
                d' <= d /\ (x \in Debts => d' <= d - 1)
  BY <1>2, OneApart
<1>4. f + d <= restarts + lostAnswers
  BY DEF WithinExcuses
<1>5. ASSUME f' + d' <= restarts' + lostAnswers' PROVE WithinExcuses'
  BY <1>5 DEF WithinExcuses
<1>6. CASE Paid \/ AnswerLost
  <2>1. Paying /\ Accept /\ restarts' = restarts
    BY <1>6 DEF Paid, AnswerLost, flags
  <2>2. PICK p \in Payout : payouts' = Append(payouts, p) /\ p.op = op.id
    BY <2>1, AcceptFacts DEF Paying
  <2>3. /\ op.id \notin PaidIds => f' = f
        /\ op.id \in PaidIds => f' = f + 1 /\ op.id \in Debts
    BY <1>1, <2>1, <2>2, FurtherAppended, DebtsPaying
  <2>4. op \in BridgeOperation
    BY <2>1, SharedAssumption, SMT DEF TypeOK, ExecutorTypeOK, Paying, PayoutKinds
  <2>5. CASE Paid
    <3>1. op'.id = op.id /\ pc' = "saved" /\ lostAnswers' = lostAnswers
      <4>1. \A s \in Status, t \in Nat : Sent(op, t, s).id = op.id
        BY <2>4, SentFacts
      <4>2. Len(payouts) + 1 \in Nat
        BY <1>1, SMT
      <4>3. (IF pc = "forward" THEN "executing" ELSE "returning") \in Status
        BY DEF Status
      <4> QED
        BY <2>5, <4>1, <4>2, <4>3 DEF Paid, Save
    <3>2. Debts' \subseteq Debts \ {op.id}
      BY <2>1, <3>1, DebtsPaying
    <3>3. /\ d' <= d
          /\ op.id \in Debts => d' <= d - 1
      BY <1>3, <3>2
    <3> QED
      BY <1>1, <1>2, <1>4, <1>5, <2>1, <2>3, <3>1, <3>3, SMT
  <2>6. CASE AnswerLost
    <3>1. op'.id = op.id /\ pc' # "fetch" /\ lostAnswers' = lostAnswers + 1
      <4>1. [op EXCEPT !.status = "returnfail"].id = op.id
        BY <2>4, StatusUpdate DEF Status
      <4> QED
        BY <2>1, <2>6, <4>1, Zenon
           DEF AnswerLost, AttemptFailed, GiveUp, Save, Paying, PayoutKinds
    <3>2. Debts' \subseteq Debts \union {op.id}
      BY <2>1, <3>1, DebtsPaying
    <3>3. /\ d' <= d + 1
          /\ op.id \in Debts => d' <= d
      BY <1>3, <3>2
    <3> QED
      BY <1>1, <1>2, <1>4, <1>5, <2>1, <2>3, <3>1, <3>3, SMT
  <2> QED
    BY <1>6, <2>5, <2>6
<1>7. CASE SharedReset /\ ExecutorReset
  <2>1. PICK id : Debts' \subseteq Debts \union {id}
    BY <1>7, DebtsRestarting
  <2>2. d' <= d + 1
    BY <1>3, <2>1
  <2>3. f' = f /\ restarts' = restarts + 1 /\ lostAnswers' = lostAnswers
    BY <1>7 DEF SharedReset, ExecutorReset, Further
  <2> QED
    BY <1>1, <1>2, <1>4, <1>5, <2>2, <2>3, SMT
<1>8. CASE UNCHANGED <<payouts, restarts, lostAnswers>>
  <2>1. d' <= d
    BY <1>3, <1>8, DebtsPassing
  <2>2. f' = f
    BY <1>8 DEF Further
  <2> QED
    BY <1>1, <1>2, <1>4, <1>5, <1>8, <2>1, <2>2, SMT
<1>9. \/ Paid \/ AnswerLost
      \/ SharedReset /\ ExecutorReset
      \/ UNCHANGED <<payouts, restarts, lostAnswers>>
  BY Zenon
     DEF Next, vars, ExecutorStep, ScannerStep, Poll, Stop, Fetch, Unroutable,
         MarkExecuting, StartPayingBGL, Marked, Refused, SenderFound,
         SenderUnknown, Saved, Register, Queue, executorVars, sharedVars, flags,
         StoreStep, SScan, Get, Write, RedisFails
<1> QED
  BY <1>6, <1>7, <1>8, <1>9

(* A payment too many is owed to a restart or a lost answer of its own.    *)
THEOREM FurtherPaymentsExcused == Spec => []WithinExcuses
<1>1. Init => WithinExcuses
  <2> SUFFICES ASSUME Init PROVE WithinExcuses
    OBVIOUS
  <2>1. payouts = <<>> /\ restarts = 0 /\ lostAnswers = 0
    BY DEF Init, SharedInit, ExecutorInit
  <2>2. Further = {} /\ Debts = {}
    BY <2>1, SMT DEF Further, Debts, PaidIds
  <2> QED
    BY <2>1, <2>2, FS_EmptySet, SMT DEF WithinExcuses
<1>2. IInv /\ WithinExcuses /\ [Next]_vars => WithinExcuses'
  BY WithinExcusesStep DEF IInv
<1> QED
  BY <1>1, <1>2, Inductive, PTL DEF Spec

(***************************************************************************)
(* Refinement of PayoutPromise: taken, ledger and excuses as PayoutSystem  *)
(* maps them.                                                              *)
(***************************************************************************)
Taken   == {p[1] : p \in issued}
Ledger  == [i \in DOMAIN payouts |-> payouts[i].op]
Excuses == restarts + lostAnswers - Cardinality(Further)

(* A step that takes no operation, pays nothing and meets no fault.        *)
LEMMA PromiseStutters ==
  ASSUME UNCHANGED <<issued, payouts, restarts, lostAnswers>>
  PROVE  UNCHANGED Promise!vars
BY DEF Promise!vars, Further

(* A payment is one that the promise allows.                               *)
LEMMA PromisePays ==
  ASSUME TypeOK, StoreInv, WithinExcuses, [Next]_vars, Paying, Accept,
         issued' = issued, restarts' = restarts,
         NEW new \in {0, 1}, lostAnswers' = lostAnswers + new
  PROVE  \E id \in OpIds : Promise!PayWith(id, new) /\ Taken' = Taken
<1>1. /\ payouts \in Seq(Payout) /\ restarts \in Nat /\ lostAnswers \in Nat
  BY FaultsGrow DEF TypeOK, ExecutorTypeOK
<1>2. /\ op \in BridgeOperation /\ op # NoOp
  BY SharedAssumption, SMT DEF TypeOK, ExecutorTypeOK, Paying, PayoutKinds
<1>3. op.id \in Taken /\ op.id \in OpIds
  <2>1. <<op.id, op.deposit>> \in issued
    BY <1>2 DEF StoreInv, Traced, IsIssued
  <2>2. op.id \in OpIds
    BY <1>2, SMT DEF BridgeOperation
  <2> QED
    BY <2>1, <2>2 DEF Taken
<1>4. PICK p \in Payout : payouts' = Append(payouts, p) /\ p.op = op.id
  BY AcceptFacts DEF Paying
<1>5. Ledger' = Append(Ledger, op.id)
  BY <1>1, <1>4, SMT DEF Ledger
<1>6. /\ op.id \in PaidIds => Cardinality(Further)' = Cardinality(Further) + 1
      /\ op.id \notin PaidIds => Cardinality(Further)' = Cardinality(Further)
  BY <1>1, <1>4, FurtherAppended
<1>7. Cardinality(Further) \in Nat /\ Cardinality(Debts) \in Nat /\ IsFiniteSet(Debts)
  BY <1>1, FinitelyPaid
<1>8. (\E i \in DOMAIN Ledger : Ledger[i] = op.id) <=> op.id \in PaidIds
  BY <1>1 DEF Ledger, PaidIds
<1>9. ASSUME op.id \in PaidIds PROVE Excuses > 0
  <2>1. op.id \in Debts
    BY <1>9, DebtsPaying
  <2>2. Cardinality(Debts) # 0
    BY <1>7, <2>1, FS_EmptySet
  <2> QED
    BY <1>1, <1>7, <2>2, SMT DEF WithinExcuses, Excuses
<1>10. /\ op.id \in PaidIds => Excuses' = Excuses + new - 1
       /\ op.id \notin PaidIds => Excuses' = Excuses + new
  BY <1>1, <1>6, <1>7, SMT DEF Excuses
<1>11. Taken' = Taken
  BY DEF Taken
<1>12. PICK id : id = op.id
  OBVIOUS
<1>13. Promise!PayWith(id, new)
  BY <1>3, <1>5, <1>8, <1>9, <1>10, <1>12
     DEF Promise!PayWith, Promise!IsPaid, Taken, Ledger, Excuses
<1> QED
  BY <1>3, <1>11, <1>12, <1>13

(* Every step is one the promise allows, or changes nothing it speaks of.  *)
LEMMA PromiseStep ==
  ASSUME TypeOK, StoreInv, WithinExcuses, [Next]_vars
  PROVE  [Promise!Next]_(Promise!vars)
<1>1. CASE Paid
  <2>1. /\ Paying /\ Accept /\ issued' = issued /\ restarts' = restarts
        /\ lostAnswers' = lostAnswers
    BY <1>1 DEF Paid, keptVars, flags
  <2>2. lostAnswers' = lostAnswers + 0
    BY <2>1, FaultsGrow, SMT
  <2>3. PICK id \in OpIds : Promise!PayWith(id, 0) /\ Taken' = Taken
    BY <2>1, <2>2, PromisePays
  <2>4. Promise!Pay(id)
    BY <2>3 DEF Promise!Pay, Taken
  <2> QED
    BY <2>3, <2>4 DEF Promise!Next
<1>2. CASE AnswerLost
  <2>1. /\ Paying /\ Accept /\ issued' = issued /\ restarts' = restarts
        /\ lostAnswers' = lostAnswers + 1
    BY <1>2 DEF AnswerLost, keptVars, flags
  <2>2. PICK id \in OpIds : Promise!PayWith(id, 1) /\ Taken' = Taken
    BY <2>1, PromisePays
  <2>3. Promise!PayUnanswered(id)
    BY <2>2 DEF Promise!PayUnanswered, Taken
  <2> QED
    BY <2>2, <2>3 DEF Promise!Next
<1>3. CASE SharedReset /\ ExecutorReset
  <2>1. /\ UNCHANGED <<issued, payouts, lostAnswers>> /\ restarts' = restarts + 1
    BY <1>3 DEF SharedReset, ExecutorReset, keptVars
  <2>2. Cardinality(Further)' = Cardinality(Further) /\ Taken' = Taken /\ Ledger' = Ledger
    BY <2>1 DEF Further, Taken, Ledger
  <2>3. Cardinality(Further) \in Nat /\ restarts \in Nat /\ lostAnswers \in Nat
    BY FinitelyPaid, FaultsGrow DEF TypeOK, ExecutorTypeOK
  <2>4. Excuses' = Excuses + 1
    BY <2>1, <2>2, <2>3, SMT DEF Excuses
  <2>5. Promise!Restart
    BY <2>2, <2>4 DEF Promise!Restart, Taken, Ledger, Excuses
  <2> QED
    BY <2>5 DEF Promise!Next
<1>4. CASE \E d \in Deposits : Queue(d)
  <2>1. PICK d \in Deposits, id \in OpIds :
          /\ \A p \in issued : p[1] # id
          /\ issued' = issued \union {<<id, d>>}
          /\ UNCHANGED <<payouts, restarts, lostAnswers>>
    BY <1>4 DEF Queue, Create, executorVars, flags
  <2>2. id \notin Taken /\ Taken' = Taken \union {id}
    <3>1. <<id, d>>[1] = id
      OBVIOUS
    <3>2. Taken' = {p[1] : p \in issued \union {<<id, d>>}}
      BY <2>1 DEF Taken
    <3> QED
      BY <2>1, <3>1, <3>2 DEF Taken
  <2>3. Ledger' = Ledger /\ Excuses' = Excuses
    BY <2>1 DEF Ledger, Excuses, Further
  <2>4. Promise!Take(id)
    BY <2>2, <2>3 DEF Promise!Take, Taken, Ledger, Excuses
  <2> QED
    BY <2>1, <2>4 DEF Promise!Next
<1>5. CASE UNCHANGED <<issued, payouts, restarts, lostAnswers>>
  BY <1>5, PromiseStutters
<1>6. \/ Paid \/ AnswerLost \/ \E d \in Deposits : Queue(d)
      \/ SharedReset /\ ExecutorReset
      \/ UNCHANGED <<issued, payouts, restarts, lostAnswers>>
  BY Zenon
     DEF Next, vars, ExecutorStep, ScannerStep, Poll, Stop, Fetch, Unroutable,
         MarkExecuting, StartPayingBGL, Marked, Refused, SenderFound,
         SenderUnknown, Saved, Register, executorVars, sharedVars, flags,
         keptVars, StoreStep, SScan, Get, Write, RedisFails
<1> QED
  BY <1>1, <1>2, <1>3, <1>4, <1>5, <1>6

(* "emergency exit to avoid looping", "update record immediately to        *)
(* prevent looped sending": seen from outside, the sending worker pays an  *)
(* operation once, and once more only for a restart or a lost answer that  *)
(* no other further payment was owed to, whatever Redis commands fail.     *)
THEOREM ImplementsPromise == Spec => KeepsPromise
<1>1. Init => Promise!Init
  <2> SUFFICES ASSUME Init PROVE Promise!Init
    OBVIOUS
  <2>1. payouts = <<>> /\ restarts = 0 /\ lostAnswers = 0 /\ issued = {}
    BY DEF Init, SharedInit, ExecutorInit
  <2>2. Further = {}
    BY <2>1, SMT DEF Further
  <2>3. Ledger = <<>>
    BY <2>1, SMT DEF Ledger
  <2>4. Excuses = 0
    BY <2>1, <2>2, FS_EmptySet, SMT DEF Excuses
  <2> QED
    BY <2>1, <2>3, <2>4 DEF Promise!Init, Ledger, Excuses
<1>2. IInv /\ WithinExcuses /\ [Next]_vars => [Promise!Next]_(Promise!vars)
  BY PromiseStep DEF IInv
<1> QED
  BY <1>1, <1>2, Inductive, FurtherPaymentsExcused, PTL
     DEF Spec, KeepsPromise, Promise!Spec

=============================================================================
