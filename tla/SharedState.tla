---------------------------- MODULE SharedState ----------------------------
(***************************************************************************)
(* What the goroutines of the bridge process share (redis/redis.go,        *)
(* types/types.go, config/config.go, workers/sync.go):                     *)
(*                                                                         *)
(*   - the bridge operations kept in Redis: one value per key              *)
(*     "bridgeop:<status>:<id>" and, per status, a Redis set holding the   *)
(*     keys of the operations in that status;                              *)
(*   - the address book, also in Redis;                                    *)
(*   - the WorkerShutdown flag in memory.                                  *)
(*                                                                         *)
(* Redis executes one command at a time and nothing else is atomic: a      *)
(* procedure of redis.go is a sequence of commands, and the commands of    *)
(* several goroutines interleave.  client[w] is goroutine w inside such a  *)
(* procedure; every step below is one command of w.                        *)
(***************************************************************************)
EXTENDS Integers

CONSTANTS
  Workers,         \* goroutines that call the store
  OpIds,           \* values of BridgeOperation.ID (uuid.New)
  Deposits,        \* incoming transfers: one output or one Transfer log each
  BGLDeposits,     \* those on the BGL chain; the others are on an EVM chain
  SourceTx,        \* SourceTx[d]: hash of the transaction that carries d
  NoOp,            \* a nil *BridgeOperation, or an absent record
  SearchFirst,     \* bound: pairs <<s, t>>, status s is searched before t
  MaxRedisErrors,  \* bound: Redis commands that fail in a behaviour
  MaxRestarts      \* bound: process restarts

(* config.RedisStatusSets: the statuses, one Redis set for each. *)
Status == {"pending", "failed", "executing", "success",
           "returning", "returnfail", "returnsuccess"}

(* types.BridgeOperation.  deposit stands for SourceTxHash, SourceAddress, *)
(* SourceChain and Amount, which are copied from the transfer; destTx is   *)
(* DestTxHash, 0 for the empty string.                                     *)
BridgeOperation ==
  [id : OpIds, status : Status, deposit : Deposits, destTx : Nat]

ASSUME SharedAssumption ==
  /\ NoOp \notin BridgeOperation
  /\ BGLDeposits \subseteq Deposits
  /\ DOMAIN SourceTx = Deposits
  /\ SearchFirst \subseteq Status \X Status
  /\ MaxRedisErrors \in Nat
  /\ MaxRestarts \in Nat

(* Record keys "bridgeop:<status>:<id>". *)
Keys == Status \X OpIds

VARIABLES
  records,         \* value of each record key, NoOp when the key is absent
  indexed,         \* keys that are members of the Redis set of their status
  issued,          \* pairs <<id, deposit>>: operations created so far
  bound,           \* deposits whose source address is in the address book
  client,          \* client[w]: goroutine w inside a procedure of redis.go
  redisErrors,     \* Redis commands that failed so far
  workerShutdown,  \* workers.WorkerShutdown
  restarts         \* times the process was started again

storeVars  == <<records, indexed>>
keptVars   == <<storeVars, issued, bound, redisErrors>>
flags      == <<workerShutdown, restarts>>
sharedVars == <<keptVars, client, flags>>

(***************************************************************************)
(* A goroutine inside the store: the command it sends next ("ok" and "err" *)
(* once the procedure has returned), the operation it was given or has     *)
(* found, the status it moves the operation away from, and the search it   *)
(* makes: field and value, statuses not yet scanned, keys not yet read.    *)
(***************************************************************************)
Commands == {"sscan", "get", "srem", "del", "set", "sadd"}

Client == [cmd : Commands \union {"ok", "err"},
           op : BridgeOperation \union {NoOp}, prev : Status,
           field : {"Status", "SourceTxHash", "DestTxHash"},
           value : {SourceTx[d] : d \in Deposits} \union Nat,
           todo : SUBSET Status, keys : SUBSET Keys]

Request(cmd, op, prev) ==
  [cmd |-> cmd, op |-> op, prev |-> prev,
   field |-> "Status", value |-> 0, todo |-> {}, keys |-> {}]

FindCall(field, value, statuses) ==
  [cmd |-> "sscan", op |-> NoOp, prev |-> "pending",
   field |-> field, value |-> value, todo |-> statuses, keys |-> {}]

(* What a procedure returns: no operation, an operation, an error. *)
Idle      == Request("ok", NoOp, "pending")
Found(op) == Request("ok", op, "pending")
Error     == Request("err", NoOp, "pending")

(* FindBridgeOperationStatus("pending") *)
FindPending == FindCall("Status", 0, {"pending"})

(* FindBridgeOperationSourceTxHash, FindBridgeOperationDestinationTxHash:  *)
(* every status, in the random order of a Go map.  SearchFirst restricts   *)
(* the orders explored; when it is empty they all are.                     *)
FindSourceTx(hash) == FindCall("SourceTxHash", hash, Status)
FindDestTx(hash)   == FindCall("DestTxHash", hash, Status)

(* A worker starts a procedure / takes note of its result. *)
Call(w, c) == client' = [client EXCEPT ![w] = c]
Consume(w) == Call(w, Idle)

(* Mutant: the old key stays in its set. *)
ChangeWithoutSRem(op, prev)  == Request("del", op, prev)

UpsertCall(op)       == Request("set", op, "pending")
ChangeCall(op, prev) == Request("srem", op, prev)

Returned(w) == client[w].cmd \in {"ok", "err"}
Failed(w)   == client[w].cmd = "err"

(* The comparison of a record with the search; mutant: any payment matches. *)
MatchesAnyPayment(op, c) ==
  \/ c.field = "Status"       /\ op.status = "pending"
  \/ c.field = "SourceTxHash" /\ SourceTx[op.deposit] = c.value
  \/ c.field = "DestTxHash"   /\ op.destTx # 0

Matches(op, c) ==
  \/ c.field = "Status"       /\ op.status = "pending"
  \/ c.field = "SourceTxHash" /\ SourceTx[op.deposit] = c.value
  \/ c.field = "DestTxHash"   /\ op.destTx = c.value

SharedInit ==
  /\ records = [k \in Keys |-> NoOp]
  /\ indexed = {}
  /\ issued = {}
  /\ client = [w \in Workers |-> Idle]
  /\ redisErrors = 0
  /\ workerShutdown = FALSE
  /\ restarts = 0

(***************************************************************************)
(* The searches.  SSCAN reads the whole set of a status; the keys it       *)
(* returns are then read one GET at a time, and by then a key may be gone: *)
(* json.Unmarshal of the missing value is an error and ends the search.    *)
(***************************************************************************)
Continue(c) ==
  [c EXCEPT !.cmd = CASE c.keys # {}                -> "get"
                      [] c.keys = {} /\ c.todo # {} -> "sscan"
                      [] OTHER                      -> "ok"]

Listed(c, s) ==
  Continue([c EXCEPT !.todo = c.todo \ {s}, !.keys = {k \in indexed : k[1] = s}])

SScan(w) ==
  /\ client[w].cmd = "sscan"
  /\ \E s \in client[w].todo :
       /\ \A t \in client[w].todo : <<t, s>> \notin SearchFirst
       /\ Call(w, Listed(client[w], s))
  /\ UNCHANGED <<keptVars, flags>>

Get(w) ==
  /\ client[w].cmd = "get"
  /\ \E k \in client[w].keys :
       \/ /\ records[k] = NoOp
          /\ Call(w, Error)
       \/ /\ records[k] # NoOp /\ Matches(records[k], client[w])
          /\ Call(w, Found(records[k]))
       \/ /\ records[k] # NoOp /\ ~ Matches(records[k], client[w])
          /\ Call(w, Continue([client[w] EXCEPT !.keys = client[w].keys \ {k}]))
  /\ UNCHANGED <<keptVars, flags>>

(***************************************************************************)
(* The writes.  UpsertBridgeOperation is SET, SADD;                        *)
(* ChangeBridgeOperationStatus is SREM, DEL, SET, SADD.                    *)
(***************************************************************************)
Effect(c) ==
  \/ /\ c.cmd = "srem"
     /\ indexed' = indexed \ {<<c.prev, c.op.id>>}
     /\ UNCHANGED records
  \/ /\ c.cmd = "del"
     /\ records' = [records EXCEPT ![<<c.prev, c.op.id>>] = NoOp]
     /\ UNCHANGED indexed
  \/ /\ c.cmd = "set"
     /\ records' = [records EXCEPT ![<<c.op.status, c.op.id>>] = c.op]
     /\ UNCHANGED indexed
  \/ /\ c.cmd = "sadd"
     /\ indexed' = indexed \union {<<c.op.status, c.op.id>>}
     /\ UNCHANGED records

Following(cmd) ==
  CASE cmd = "srem" -> "del"
    [] cmd = "del"  -> "set"
    [] cmd = "set"  -> "sadd"
    [] cmd = "sadd" -> "ok"

Write(w) ==
  /\ Effect(client[w])
  /\ Call(w, [client[w] EXCEPT !.cmd = Following(client[w].cmd)])
  /\ UNCHANGED <<issued, bound, redisErrors, flags>>

(* A command fails: it never reached Redis, or it took effect and the      *)
(* reply was lost (read timeout).  Either way the procedure returns err.   *)
RedisFails(w) ==
  /\ client[w].cmd \in Commands
  /\ redisErrors < MaxRedisErrors
  /\ redisErrors' = redisErrors + 1
  /\ Call(w, Error)
  /\ Effect(client[w]) \/ UNCHANGED storeVars
  /\ UNCHANGED <<issued, bound, flags>>

StoreStep(w) == SScan(w) \/ Get(w) \/ Write(w) \/ RedisFails(w)

(* A single command issued outside a procedure (address book, cursors)     *)
(* that fails.                                                             *)
CommandFails ==
  /\ redisErrors < MaxRedisErrors
  /\ redisErrors' = redisErrors + 1

(* A scanner stores a new operation for deposit d under a fresh uuid. *)
Create(w, d, status) ==
  \E id \in OpIds :
    /\ \A p \in issued : p[1] # id
    /\ issued' = issued \union {<<id, d>>}
    /\ Call(w, UpsertCall([id |-> id, status |-> status,
                           deposit |-> d, destTx |-> 0]))

(***************************************************************************)
(* The process ends at any point of any goroutine (crash, or a signal:     *)
(* Worker_HTTP returns and main with it, waiting for nobody) and is        *)
(* started again.  What was in memory is gone.                             *)
(***************************************************************************)
SharedReset ==
  /\ restarts < MaxRestarts
  /\ restarts' = restarts + 1
  /\ client' = [w \in Workers |-> Idle]
  /\ workerShutdown' = FALSE
  /\ UNCHANGED keptVars

(* WorkerShutdown is raised: a worker sees it when its loop comes round.   *)
RaiseShutdown ==
  /\ ~ workerShutdown
  /\ workerShutdown' = TRUE
  /\ UNCHANGED <<keptVars, client, restarts>>

SharedTypeOK ==
  /\ records \in [Keys -> BridgeOperation \union {NoOp}]
  /\ indexed \subseteq Keys
  /\ issued \subseteq OpIds \X Deposits
  /\ bound \subseteq Deposits
  /\ client \in [Workers -> Client]
  /\ \A w \in Workers :
       client[w].cmd \in {"srem", "del", "set", "sadd"} => client[w].op # NoOp
  /\ redisErrors \in 0 .. MaxRedisErrors
  /\ workerShutdown \in BOOLEAN
  /\ restarts \in 0 .. MaxRestarts

(***************************************************************************)
(* Stored operations are found through the sets: FindBridgeOperation...    *)
(* returns an error for a member whose record is gone, and that error      *)
(* aborts every later search that meets the member.  So a key must not be  *)
(* in a set without its record, whatever commands of a procedure ran.      *)
(***************************************************************************)
IndexedHaveRecords == \A k \in indexed : records[k] # NoOp

(* An operation for deposit d is on record. *)
Recorded(d) == \E k \in indexed : records[k] # NoOp /\ records[k].deposit = d

(* The operations that would pay source transaction h out. *)
Queued(h) ==
  {k \in indexed : /\ k[1] = "pending" /\ records[k] # NoOp
                   /\ SourceTx[records[k].deposit] = h}

(* "never add record if a record present with same source tx hash,         *)
(* otherwise could be double send" (scanBGL.go:44, scanEVM.go:105).        *)
QueuedOnce ==
  \A h \in {SourceTx[d] : d \in Deposits} :
    \A k, l \in Queued(h) : k = l

=============================================================================
