------------------------- MODULE SharedStateProofs -------------------------
(***************************************************************************)
(* What one command of a goroutine does to the shared state: lemmas about  *)
(* the actions of SharedState that hold in every system built from it; and *)
(* about the lists of payments and the sets that accounts of them count.   *)
(***************************************************************************)
EXTENDS SharedState, Sequences, FiniteSetTheorems, TLAPS

(* The fields of a request.                                                *)
LEMMA RequestFacts ==
  ASSUME NEW cmd \in Commands \union {"ok", "err"},
         NEW o \in BridgeOperation \union {NoOp}, NEW prev \in Status
  PROVE  /\ Request(cmd, o, prev) \in Client
         /\ Request(cmd, o, prev).cmd = cmd
         /\ Request(cmd, o, prev).op = o
         /\ Request(cmd, o, prev).prev = prev
         /\ Request(cmd, o, prev).todo = {}
         /\ Request(cmd, o, prev).keys = {}
BY SMT DEF Request, Client

(* A goroutine that has consumed its result.                               *)
LEMMA IdleFacts ==
  /\ Idle \in Client
  /\ Idle.cmd = "ok" /\ Idle.op = NoOp /\ Idle.keys = {} /\ Idle.todo = {}
BY RequestFacts DEF Idle, Commands, Status

(* A procedure that returned an error.                                     *)
LEMMA ErrorFacts ==
  /\ Error \in Client
  /\ Error.cmd = "err" /\ Error.op = NoOp /\ Error.keys = {} /\ Error.todo = {}
BY RequestFacts DEF Error, Commands, Status

(* A search that returned an operation.                                    *)
LEMMA FoundFacts ==
  ASSUME NEW o \in BridgeOperation \union {NoOp}
  PROVE  /\ Found(o) \in Client
         /\ Found(o).cmd = "ok" /\ Found(o).op = o
         /\ Found(o).keys = {} /\ Found(o).todo = {}
BY RequestFacts DEF Found, Commands, Status

(* The start of UpsertBridgeOperation.                                     *)
LEMMA UpsertCallFacts ==
  ASSUME NEW o \in BridgeOperation
  PROVE  /\ UpsertCall(o) \in Client
         /\ UpsertCall(o).cmd = "set" /\ UpsertCall(o).op = o
         /\ UpsertCall(o).prev = "pending" /\ UpsertCall(o).keys = {}
BY RequestFacts DEF UpsertCall, Commands, Status

(* The start of ChangeBridgeOperationStatus.                               *)
LEMMA ChangeCallFacts ==
  ASSUME NEW o \in BridgeOperation, NEW prev \in Status
  PROVE  /\ ChangeCall(o, prev) \in Client
         /\ ChangeCall(o, prev).cmd = "srem" /\ ChangeCall(o, prev).op = o
         /\ ChangeCall(o, prev).prev = prev
         /\ ChangeCall(o, prev).keys = {}
BY RequestFacts DEF ChangeCall, Commands, Status

(* The start of a search for a pending operation.                          *)
LEMMA FindPendingFacts ==
  /\ FindPending \in Client
  /\ FindPending.cmd = "sscan" /\ FindPending.op = NoOp
  /\ FindPending.todo = {"pending"} /\ FindPending.keys = {}
BY SMT DEF FindPending, FindCall, Client, Commands, Status

(* The start of a search for an operation with the same source.           *)
LEMMA FindSourceTxFacts ==
  ASSUME NEW d \in Deposits
  PROVE  LET c == FindSourceTx(SourceTx[d])
         IN  /\ c \in Client
             /\ c.cmd = "sscan" /\ c.op = NoOp
             /\ c.field = "SourceTxHash" /\ c.value = SourceTx[d]
             /\ c.todo = Status /\ c.keys = {}
<1> DEFINE h == SourceTx[d]
<1>1. h \in {SourceTx[e] : e \in Deposits} \union Nat
  OBVIOUS
<1> HIDE DEF h
<1>2. /\ FindSourceTx(h) \in Client
      /\ FindSourceTx(h).cmd = "sscan" /\ FindSourceTx(h).op = NoOp
      /\ FindSourceTx(h).field = "SourceTxHash" /\ FindSourceTx(h).value = h
      /\ FindSourceTx(h).todo = Status /\ FindSourceTx(h).keys = {}
  BY <1>1, SMT DEF FindSourceTx, FindCall, Client, Commands, Status
<1> QED
  BY <1>2 DEF h

(* The start of a search for the operation of a payment.                   *)
LEMMA FindDestTxFacts ==
  ASSUME NEW t \in Nat
  PROVE  /\ FindDestTx(t) \in Client
         /\ FindDestTx(t).cmd = "sscan" /\ FindDestTx(t).op = NoOp
         /\ FindDestTx(t).field = "DestTxHash" /\ FindDestTx(t).value = t
         /\ FindDestTx(t).todo = Status /\ FindDestTx(t).keys = {}
BY SMT DEF FindDestTx, FindCall, Client, Commands, Status

(* A new operation. *)
LEMMA CreateFacts ==
  ASSUME NEW w, NEW d \in Deposits, NEW s \in Status, Create(w, d, s)
  PROVE  \E o \in BridgeOperation :
           /\ o.status = s /\ o.deposit = d /\ o.destTx = 0
           /\ \A p \in issued : p[1] # o.id
           /\ issued' = issued \union {<<o.id, d>>}
           /\ client' = [client EXCEPT ![w] = UpsertCall(o)]
<1>1. PICK id \in OpIds :
        /\ \A p \in issued : p[1] # id
        /\ issued' = issued \union {<<id, d>>}
        /\ Call(w, UpsertCall([id |-> id, status |-> s, deposit |-> d, destTx |-> 0]))
  BY DEF Create
<1> DEFINE o == [id |-> id, status |-> s, deposit |-> d, destTx |-> 0]
<1>2. /\ o \in BridgeOperation
      /\ o.id = id /\ o.status = s /\ o.deposit = d /\ o.destTx = 0
  BY SMT DEF BridgeOperation
<1> QED
  BY <1>1, <1>2 DEF Call

(* Only the status of an operation changes.                                *)
LEMMA StatusUpdate ==
  ASSUME NEW o \in BridgeOperation, NEW s \in Status
  PROVE  /\ [o EXCEPT !.status = s] \in BridgeOperation
         /\ [o EXCEPT !.status = s].status = s
         /\ [o EXCEPT !.status = s].id = o.id
         /\ [o EXCEPT !.status = s].deposit = o.deposit
         /\ [o EXCEPT !.status = s].destTx = o.destTx
BY SMT DEF BridgeOperation

(* A search that goes on keeps all but its next command.                   *)
LEMMA ContinueFacts ==
  ASSUME NEW c \in Client
  PROVE  /\ Continue(c) \in Client
         /\ Continue(c).cmd \in {"get", "sscan", "ok"}
         /\ Continue(c).op = c.op
         /\ Continue(c).todo = c.todo
         /\ Continue(c).keys = c.keys
<1>1. CASE c.keys # {}
  BY <1>1, SMT DEF Continue, Client, Commands
<1>2. CASE c.keys = {} /\ c.todo # {}
  BY <1>2, SMT DEF Continue, Client, Commands
<1>3. CASE c.keys = {} /\ c.todo = {}
  BY <1>3, SMT DEF Continue, Client, Commands
<1>4. QED
  BY <1>1, <1>2, <1>3

(* What is left to read decides the next command of a search. *)
LEMMA ContinuedSearch ==
  ASSUME NEW c \in Client
  PROVE  /\ Continue(c).cmd \in {"get", "sscan", "ok"}
         /\ Continue(c).op = c.op /\ Continue(c).todo = c.todo
         /\ Continue(c).keys = c.keys
         /\ Continue(c).field = c.field /\ Continue(c).value = c.value
         /\ Continue(c).cmd = "sscan" => c.keys = {}
         /\ Continue(c).cmd = "ok" => c.keys = {} /\ c.todo = {}
<1>1. CASE c.keys # {}
  BY <1>1, SMT DEF Continue, Client, Commands
<1>2. CASE c.keys = {} /\ c.todo # {}
  BY <1>2, SMT DEF Continue, Client, Commands
<1>3. CASE c.keys = {} /\ c.todo = {}
  BY <1>3, SMT DEF Continue, Client, Commands
<1> QED
  BY <1>1, <1>2, <1>3

(* SSCAN takes a status off the list and puts its keys on it.              *)
LEMMA ListedFacts ==
  ASSUME NEW c \in Client, NEW s \in Status, indexed \subseteq Keys
  PROVE  /\ Listed(c, s) \in Client
         /\ Listed(c, s).cmd \in {"get", "sscan", "ok"}
         /\ Listed(c, s).op = c.op
         /\ Listed(c, s).todo = c.todo \ {s}
         /\ Listed(c, s).keys = {k \in indexed : k[1] = s}
         /\ Listed(c, s).field = c.field /\ Listed(c, s).value = c.value
<1> DEFINE K == {k \in indexed : k[1] = s}
           d == [c EXCEPT !.todo = c.todo \ {s}, !.keys = K]
<1>1. K \in SUBSET Keys
  OBVIOUS
<1> HIDE DEF K
<1>2. c.todo \ {s} \in SUBSET Status
  BY SMT DEF Client
<1>3. /\ d \in Client /\ d.op = c.op /\ d.todo = c.todo \ {s} /\ d.keys = K
      /\ d.field = c.field /\ d.value = c.value
  <2> DEFINE e == [c EXCEPT !.todo = c.todo \ {s}]
  <2>1. /\ e \in Client /\ e.op = c.op /\ e.todo = c.todo \ {s}
        /\ e.field = c.field /\ e.value = c.value
    BY <1>2, SMT DEF Client
  <2>2. d = [e EXCEPT !.keys = K]
    BY SMT DEF Client
  <2> HIDE DEF e, d
  <2> QED
    BY <1>1, <2>1, <2>2, SMT DEF Client
<1>4. Listed(c, s) = Continue(d)
  BY DEF Listed, K
<1> HIDE DEF d
<1>5. /\ Continue(d) \in Client
      /\ Continue(d).cmd \in {"get", "sscan", "ok"}
      /\ Continue(d).op = d.op /\ Continue(d).todo = d.todo /\ Continue(d).keys = d.keys
      /\ Continue(d).field = d.field /\ Continue(d).value = d.value
  BY <1>3, ContinueFacts, ContinuedSearch
<1> QED
  BY <1>3, <1>4, <1>5 DEF K

(* SSCAN keeps the types.                                                  *)
LEMMA SScanType ==
  ASSUME SharedTypeOK, NEW w \in Workers, SScan(w)
  PROVE  SharedTypeOK'
<1>1. PICK s \in client[w].todo : client' = [client EXCEPT ![w] = Listed(client[w], s)]
  BY DEF SScan, Call
<1>2. client[w] \in Client /\ s \in Status /\ indexed \subseteq Keys
  BY SMT DEF SharedTypeOK, Client
<1>3. Listed(client[w], s) \in Client /\ Listed(client[w], s).cmd \in {"get", "sscan", "ok"}
  BY <1>2, ListedFacts
<1>4. QED
  BY <1>1, <1>3, SMT DEF SScan, SharedTypeOK, keptVars, storeVars, flags

(* GET takes a key off the list.                                           *)
LEMMA DroppedFacts ==
  ASSUME NEW c \in Client, NEW k
  PROVE  LET d == Continue([c EXCEPT !.keys = c.keys \ {k}])
         IN  /\ d \in Client
             /\ d.cmd \in {"get", "sscan", "ok"}
             /\ d.op = c.op /\ d.todo = c.todo /\ d.keys = c.keys \ {k}
             /\ d.field = c.field /\ d.value = c.value
<1> DEFINE e == [c EXCEPT !.keys = c.keys \ {k}]
<1>1. /\ e \in Client /\ e.op = c.op /\ e.todo = c.todo /\ e.keys = c.keys \ {k}
      /\ e.field = c.field /\ e.value = c.value
  BY SMT DEF Client
<1> QED
  BY <1>1, ContinueFacts, ContinuedSearch

(* GET keeps the types.                                                    *)
LEMMA GetType ==
  ASSUME SharedTypeOK, NEW w \in Workers, Get(w)
  PROVE  SharedTypeOK'
<1>1. PICK k \in client[w].keys :
       \/ Call(w, Error)
       \/ records[k] # NoOp /\ Call(w, Found(records[k]))
       \/ Call(w, Continue([client[w] EXCEPT !.keys = client[w].keys \ {k}]))
  BY DEF Get
<1>2. client[w] \in Client /\ k \in Keys
  BY SMT DEF SharedTypeOK, Client
<1> DEFINE d == Continue([client[w] EXCEPT !.keys = client[w].keys \ {k}])
<1>3. d \in Client /\ d.cmd \in {"get", "sscan", "ok"}
  BY <1>2, DroppedFacts
<1>4. UNCHANGED <<keptVars, flags>>
  BY DEF Get
<1> HIDE DEF d
<1>5. \E c \in Client : c.cmd \notin {"srem", "del", "set", "sadd"} /\ client' = [client EXCEPT ![w] = c]
  <2>1. Error \in Client /\ Error.cmd = "err"
    BY ErrorFacts
  <2>2. Found(records[k]) \in Client /\ Found(records[k]).cmd = "ok"
    BY FoundFacts, <1>2, SMT DEF SharedTypeOK
  <2> QED
    BY <1>1, <1>3, <2>1, <2>2 DEF Call, d
<1> QED
  BY <1>5, <1>4, SMT DEF SharedTypeOK, keptVars, storeVars, flags

(* A search changes nothing but the goroutine that makes it: it goes on    *)
(* with keys that are indexed now, or ends with an operation it has read   *)
(* and that matches.                                                       *)
LEMMA ReadStep ==
  ASSUME SharedTypeOK, NEW w \in Workers, SScan(w) \/ Get(w)
  PROVE  /\ client[w].cmd \in {"sscan", "get"}
         /\ UNCHANGED <<records, indexed, issued, bound, redisErrors,
                        workerShutdown, restarts>>
         /\ \E c \in Client :
              /\ client' = [client EXCEPT ![w] = c]
              /\ c.cmd \in {"sscan", "get", "ok", "err"}
              /\ c.todo \subseteq client[w].todo
              /\ \A k \in c.keys :
                   \/ k \in client[w].keys
                   \/ k \in indexed /\ k[1] \in client[w].todo
              /\ c.cmd \in {"sscan", "get"} =>
                   c.field = client[w].field /\ c.value = client[w].value
              /\ \/ c.op = client[w].op \/ c.op = NoOp
                 \/ \E k \in client[w].keys : /\ records[k] # NoOp /\ c.op = records[k]
                                              /\ Matches(records[k], client[w])
<1>1. client[w] \in Client /\ indexed \subseteq Keys
  BY SMT DEF SharedTypeOK
<1>2. CASE SScan(w)
  <2>1. PICK s \in client[w].todo : client' = [client EXCEPT ![w] = Listed(client[w], s)]
    BY <1>2 DEF SScan, Call
  <2>2. s \in Status
    BY <1>1, SMT DEF Client
  <2>3. /\ Listed(client[w], s) \in Client
        /\ Listed(client[w], s).cmd \in {"get", "sscan", "ok"}
        /\ Listed(client[w], s).op = client[w].op
        /\ Listed(client[w], s).todo = client[w].todo \ {s}
        /\ Listed(client[w], s).keys = {k \in indexed : k[1] = s}
        /\ Listed(client[w], s).field = client[w].field
        /\ Listed(client[w], s).value = client[w].value
    BY <1>1, <2>2, ListedFacts
  <2>4. client[w].cmd = "sscan" /\ UNCHANGED <<keptVars, flags>>
    BY <1>2 DEF SScan
  <2> QED
    BY <2>1, <2>3, <2>4 DEF keptVars, storeVars, flags
<1>3. CASE Get(w)
  <2>1. client[w].cmd = "get" /\ UNCHANGED <<keptVars, flags>>
    BY <1>3 DEF Get
  <2>2. PICK k \in client[w].keys :
          \/ Call(w, Error)
          \/ /\ records[k] # NoOp /\ Matches(records[k], client[w])
             /\ Call(w, Found(records[k]))
          \/ Call(w, Continue([client[w] EXCEPT !.keys = client[w].keys \ {k}]))
    BY <1>3 DEF Get
  <2>3. CASE Call(w, Error)
    <3> DEFINE c == Error
    <3>1. c \in Client /\ c.cmd = "err" /\ c.todo = {} /\ c.keys = {} /\ c.op = NoOp
      BY ErrorFacts
    <3> QED
      BY <2>1, <2>3, <3>1 DEF Call, keptVars, storeVars, flags
  <2>4. CASE /\ records[k] # NoOp /\ Matches(records[k], client[w])
             /\ Call(w, Found(records[k]))
    <3> DEFINE c == Found(records[k])
    <3>1. /\ c \in Client /\ c.cmd = "ok" /\ c.todo = {} /\ c.keys = {}
          /\ c.op = records[k]
      BY <1>1, FoundFacts, SMT DEF SharedTypeOK, Client
    <3> QED
      BY <2>1, <2>4, <3>1 DEF Call, keptVars, storeVars, flags
  <2>5. CASE Call(w, Continue([client[w] EXCEPT !.keys = client[w].keys \ {k}]))
    <3> DEFINE c == Continue([client[w] EXCEPT !.keys = client[w].keys \ {k}])
    <3>1. /\ c \in Client /\ c.cmd \in {"get", "sscan", "ok"}
          /\ c.op = client[w].op /\ c.todo = client[w].todo
          /\ c.keys = client[w].keys \ {k}
          /\ c.field = client[w].field /\ c.value = client[w].value
      BY <1>1, DroppedFacts
    <3> HIDE DEF c
    <3>2. client' = [client EXCEPT ![w] = c]
      BY <2>5 DEF c, Call
    <3> QED
      BY <2>1, <3>1, <3>2 DEF keptVars, storeVars, flags
  <2> QED
    BY <2>2, <2>3, <2>4, <2>5
<1> QED
  BY <1>2, <1>3

(* The effect of a write is well typed.                                    *)
LEMMA EffectType ==
  ASSUME SharedTypeOK, NEW w \in Workers, Effect(client[w])
  PROVE  /\ records' \in [Keys -> BridgeOperation \union {NoOp}]
         /\ indexed' \subseteq Keys
BY SharedAssumption, SMT
   DEF SharedTypeOK, Effect, Client, Commands, Status, Keys, BridgeOperation

(* A write keeps the types.                                                *)
LEMMA WriteType ==
  ASSUME SharedTypeOK, NEW w \in Workers, Write(w)
  PROVE  SharedTypeOK'
<1> DEFINE c == [client[w] EXCEPT !.cmd = Following(client[w].cmd)]
<1>1. /\ client[w] \in Client
      /\ client[w].cmd \in {"srem", "del", "set", "sadd"}
      /\ client[w].op # NoOp
  BY SMT DEF SharedTypeOK, Write, Effect
<1>2. Following(client[w].cmd) \in {"del", "set", "sadd", "ok"}
  BY <1>1, SMT DEF Following
<1>3. c \in Client /\ c.op = client[w].op
  BY <1>1, <1>2, SMT DEF Client, Commands
<1> QED
  BY EffectType, <1>3, <1>1, SMT DEF SharedTypeOK, Write, Call, flags

(* A failed command keeps the types.                                       *)
LEMMA RedisFailsType ==
  ASSUME SharedTypeOK, NEW w \in Workers, RedisFails(w)
  PROVE  SharedTypeOK'
BY SharedAssumption, EffectType, ErrorFacts, SMT
   DEF SharedTypeOK, Call, RedisFails, Client, Commands, Status, keptVars,
       storeVars, flags, Keys

(* A goroutine that is given a new command, and nothing but issued new.    *)
LEMMA CallType ==
  ASSUME SharedTypeOK, NEW w \in Workers, NEW c \in Client,
         client' = [client EXCEPT ![w] = c],
         c.cmd \in {"srem", "del", "set", "sadd"} => c.op # NoOp,
         issued' \subseteq OpIds \X Deposits, redisErrors' \in 0 .. MaxRedisErrors,
         UNCHANGED <<records, indexed, bound, flags>>
  PROVE  SharedTypeOK'
<1>1. /\ client' \in [Workers -> Client]
      /\ \A v \in Workers : client'[v] = IF v = w THEN c ELSE client[v]
  BY DEF SharedTypeOK
<1>2. ASSUME NEW v \in Workers, client'[v].cmd \in {"srem", "del", "set", "sadd"}
      PROVE  client'[v].op # NoOp
  BY <1>1, <1>2 DEF SharedTypeOK
<1>3. /\ records' = records /\ indexed' = indexed /\ bound' = bound
      /\ workerShutdown' = workerShutdown /\ restarts' = restarts
  BY DEF flags
<1> QED
  BY <1>1, <1>2, <1>3, Zenon DEF SharedTypeOK

(* A goroutine that creates an operation. *)
LEMMA CreateType ==
  ASSUME SharedTypeOK, NEW w \in Workers, NEW d \in Deposits, NEW s \in Status,
         Create(w, d, s),
         UNCHANGED <<storeVars, bound, redisErrors, flags>>
  PROVE  SharedTypeOK'
<1>1. PICK id \in OpIds :
        /\ issued' = issued \union {<<id, d>>}
        /\ Call(w, UpsertCall([id |-> id, status |-> s, deposit |-> d, destTx |-> 0]))
  BY DEF Create
<1> DEFINE c == UpsertCall([id |-> id, status |-> s, deposit |-> d, destTx |-> 0])
<1>2. [id |-> id, status |-> s, deposit |-> d, destTx |-> 0] \in BridgeOperation
  BY SMT DEF BridgeOperation
<1>3. c \in Client /\ c.op # NoOp
  BY <1>2, UpsertCallFacts, SharedAssumption
<1>4. issued' \subseteq OpIds \X Deposits
  BY <1>1 DEF SharedTypeOK
<1>5. client' = [client EXCEPT ![w] = c]
  BY <1>1 DEF Call
<1> HIDE DEF c
<1> QED
  BY <1>3, <1>4, <1>5, CallType DEF SharedTypeOK, storeVars

(* A goroutine that takes note of a result. *)
LEMMA ConsumeType ==
  ASSUME SharedTypeOK, NEW w \in Workers, Consume(w), UNCHANGED <<keptVars, flags>>
  PROVE  SharedTypeOK'
BY IdleFacts, CallType DEF SharedTypeOK, Consume, Call, keptVars, storeVars

(* A command outside a procedure that fails. *)
LEMMA CommandFailsType ==
  ASSUME SharedTypeOK, CommandFails, UNCHANGED <<storeVars, issued, bound, client, flags>>
  PROVE  SharedTypeOK'
<1>1. redisErrors' \in 0 .. MaxRedisErrors
  BY SharedAssumption, SMT DEF SharedTypeOK, CommandFails
<1> QED
  BY <1>1 DEF SharedTypeOK, storeVars, flags

(* The process starts again. *)
LEMMA ResetType ==
  ASSUME SharedTypeOK, SharedReset
  PROVE  SharedTypeOK'
<1>1. restarts' \in 0 .. MaxRestarts
  BY SharedAssumption, SMT DEF SharedReset, SharedTypeOK
<1>2. client' \in [Workers -> Client] /\ \A w \in Workers : client'[w].cmd = "ok"
  BY IdleFacts DEF SharedReset
<1> QED
  BY <1>1, <1>2 DEF SharedReset, SharedTypeOK, keptVars, storeVars

(***************************************************************************)
(* Lists of payments, each with the operation that it was made for, and    *)
(* the sizes of sets, as the accounts of payments and faults need them.    *)
(***************************************************************************)
OpsIn(s)   == {s[i].op : i \in DOMAIN s}
Repeats(s) == {i \in DOMAIN s : \E j \in 1 .. i - 1 : s[j].op = s[i].op}

(* A list names finitely many operations and repeats finitely many.        *)
LEMMA FinitelyMany ==
  ASSUME NEW S, NEW s \in Seq(S)
  PROVE  IsFiniteSet(OpsIn(s)) /\ IsFiniteSet(Repeats(s))
<1>1. Len(s) \in Nat /\ DOMAIN s = 1 .. Len(s)
  BY SMT
<1>2. IsFiniteSet(DOMAIN s)
  BY <1>1, FS_Interval, SMT
<1>3. IsFiniteSet(Repeats(s))
  BY <1>2, FS_Subset DEF Repeats
<1>4. IsFiniteSet(OpsIn(s))
  <2> DEFINE f == [i \in DOMAIN s |-> s[i].op]
  <2>1. f \in Surjection(DOMAIN s, OpsIn(s))
    BY DEF Surjection, OpsIn
  <2> QED
    BY <1>2, <2>1, FS_Surjection
<1> QED
  BY <1>3, <1>4

(* A payment is a repeated one exactly if its operation was paid before.   *)
LEMMA Appended ==
  ASSUME NEW S, NEW s \in Seq(S), NEW p \in S, NEW t, t = Append(s, p)
  PROVE  /\ \A x : x \in OpsIn(t) <=> x \in OpsIn(s) \/ x = p.op
         /\ t # <<>> /\ t[Len(t)].op = p.op
         /\ p.op \notin OpsIn(s) => Cardinality(Repeats(t)) = Cardinality(Repeats(s))
         /\ p.op \in OpsIn(s) => Cardinality(Repeats(t)) = Cardinality(Repeats(s)) + 1
<1> DEFINE n == Len(s) + 1
<1>1. /\ n \in Nat /\ DOMAIN s = 1 .. n - 1 /\ DOMAIN t = 1 .. n
      /\ t[n] = p /\ Len(t) = n
      /\ \A i \in 1 .. n - 1 : t[i] = s[i]
  BY SMT
<1>2. t # <<>>
  BY <1>1, SMT
<1> HIDE DEF n
<1>3. \A x : x \in OpsIn(t) <=> x \in OpsIn(s) \/ x = p.op
  BY <1>1, SMT DEF OpsIn
<1>4. \A i \in 1 .. n - 1 : i \in Repeats(t) <=> i \in Repeats(s)
  BY <1>1, SMT DEF Repeats
<1>5. n \in Repeats(t) <=> p.op \in OpsIn(s)
  BY <1>1, SMT DEF Repeats, OpsIn
<1>6. Repeats(t) \subseteq 1 .. n /\ Repeats(s) \subseteq 1 .. n - 1
  BY <1>1 DEF Repeats
<1>7. 1 .. n = (1 .. n - 1) \union {n} /\ n \notin 1 .. n - 1
  BY <1>1, SMT
<1>8. CASE p.op \notin OpsIn(s)
  <2>1. Repeats(t) = Repeats(s)
    BY <1>4, <1>5, <1>6, <1>7, <1>8
  <2> QED
    BY <1>1, <1>2, <1>3, <1>8, <2>1
<1>9. CASE p.op \in OpsIn(s)
  <2>1. Repeats(t) = Repeats(s) \union {n} /\ n \notin Repeats(s)
    BY <1>4, <1>5, <1>6, <1>7, <1>9
  <2>2. Cardinality(Repeats(t)) = Cardinality(Repeats(s)) + 1
    BY <2>1, FinitelyMany, FS_AddElement
  <2> QED
    BY <1>1, <1>2, <1>3, <1>9, <2>2
<1> QED
  BY <1>8, <1>9

(* Sets that are one element apart.                                        *)
LEMMA OneApart ==
  ASSUME NEW S, NEW T, IsFiniteSet(S), IsFiniteSet(T)
  PROVE  /\ T \subseteq S => Cardinality(T) <= Cardinality(S)
         /\ \A x : T \subseteq S \union {x} =>
                   /\ Cardinality(T) <= Cardinality(S) + 1
                   /\ x \in S => Cardinality(T) <= Cardinality(S)
         /\ \A x : T \subseteq S \ {x} =>
                   /\ Cardinality(T) <= Cardinality(S)
                   /\ x \in S => Cardinality(T) <= Cardinality(S) - 1
<1>1. ASSUME NEW U, IsFiniteSet(U), T \subseteq U
      PROVE  Cardinality(T) <= Cardinality(U)
  BY <1>1, FS_Subset
<1>2. Cardinality(S) \in Nat /\ Cardinality(T) \in Nat
  BY FS_CardinalityType
<1>3. ASSUME NEW x, T \subseteq S \union {x}
      PROVE  /\ Cardinality(T) <= Cardinality(S) + 1
             /\ x \in S => Cardinality(T) <= Cardinality(S)
  <2>1. /\ IsFiniteSet(S \union {x})
        /\ Cardinality(S \union {x}) = IF x \in S THEN Cardinality(S) ELSE Cardinality(S) + 1
    BY FS_AddElement
  <2>2. Cardinality(T) <= Cardinality(S \union {x})
    BY <1>1, <1>3, <2>1
  <2> QED
    BY <1>2, <2>1, <2>2, SMT
<1>4. ASSUME NEW x, T \subseteq S \ {x}
      PROVE  /\ Cardinality(T) <= Cardinality(S)
             /\ x \in S => Cardinality(T) <= Cardinality(S) - 1
  <2>1. /\ IsFiniteSet(S \ {x})
        /\ Cardinality(S \ {x}) = IF x \in S THEN Cardinality(S) - 1 ELSE Cardinality(S)
    BY FS_RemoveElement
  <2>2. Cardinality(T) <= Cardinality(S \ {x})
    BY <1>1, <1>4, <2>1
  <2> QED
    BY <1>2, <2>1, <2>2, SMT
<1> QED
  BY <1>1, <1>3, <1>4

=============================================================================
