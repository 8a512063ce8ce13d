# A TLA+ model of the BGL–WBGL bridge

The repository is a single Go process that swaps BGL (a Bitcoin-derived coin)
for WBGL (an ERC-20 token on four EVM chains) and back. Users send coins to
the bridge on one chain; the bridge records the transfer as a *bridge
operation* in Redis and pays it out on the other chain, less a fee. Payments
cannot be taken back, Redis is the only memory, and seven goroutines work on it
without a transaction or a lock. The models are about that: what is paid, how
often, and what the records say about it, whatever the order of the commands
and wherever the process dies.

Paths below are relative to the repository; `R` stands for `redis/redis.go`,
`P` for `workers/processExecution.go`, `B` for `workers/scanBGL.go`, `V` for
`workers/scanEVM.go`.

## 1. Inventory

| part | state | operations | interacts with |
|---|---|---|---|
| store of operations (`R`, `types/types.go`, `config/config.go`) | `bridgeop:<status>:<id>` records; one Redis set of keys per status | `UpsertBridgeOperation` (SET, SADD), `ChangeBridgeOperationStatus` (SREM, DEL, SET, SADD), the searches (SSCAN, then GET per key) | called by every worker, one Redis command at a time |
| address book (`R` 270–334) | `addrbook:<chain type>:<address>` | upsert by the handlers, read by the BGL scanner and the sending worker | HTTP, scanner, worker |
| sending worker (`P`) | locals only | find a pending operation, pay it forward, or return it, save it | store, address book, BGL node, EVM nodes, `WorkerShutdown` |
| BGL scanner (`B`) | Redis key `BGLBlockHash` | list wallet transactions since the block, record deposits, save the block | store, address book, BGL node |
| EVM scanner, one per chain (`V`) | Redis key `chainBlockScanned:<chain>` | read transfer logs in batches, record deposits, settle payments, save the block | store, EVM nodes |
| EVM access (`EVMRPC/EVMRPC.go`, `P` 271–337) | none | first node of the list that answers; nonce, gas price, transfer, up to three times | EVM nodes |
| lifecycle (`cmd/server/main.go`, `workers/http.go`, `workers/sync.go`) | `WorkerShutdown` in memory | start all, stop on a signal | everybody |
| HTTP API (`workers/handlers`) | none of its own | two submit handlers that write the address book; read-only rest | address book, nodes |

What is hard here: the commands of several goroutines interleave inside every
procedure of `R`; a command fails, or takes effect and loses its answer; the
process dies between any two commands or between a payment and its record; RPC
nodes lag behind each other; scans overlap on purpose (the safety window) and
depend on duplicate detection. `PROJECT.json` lists these hazards line by line.

What makes each part correct:

- store: a key is in a status set only with its record; an operation is in one
  set; a record names the payment that was made for it.
- sending worker: an operation is paid once, forward and return together; what
  is reported as failed was not paid; the queue drains.
- scanners: nothing a saved block leaves behind is unrecorded; no transfer is
  queued twice; an operation is settled by its own payment only.
- EVM access: an error means unpaid and a success means paid; a retry repeats no payment.
- address book: a registered source is found, and its deposits are paid to what it named, net of the fee.
- together: every deposit ends in a payment or before the operator's eyes.

## 2. Modules

    SharedState ──┬── Executor ──── PayoutSystem ── PayoutInvariants ── MCPayoutSystem
                  │                    └ PayoutPromise
                  ├── ScanBGL ───── BglIntake ───── BglIntakeInvariants ── MCBglIntake
                  ├── ScanEVM ───── EvmIntake ───── EvmIntakeInvariants ── MCEvmIntake
                  └── (all three) ─ Bridge ──────── BridgeInvariants ── MCBridge
                                       └ PayoutPromise
    Executor ── ExecutorPromise: how PayoutSystem and Bridge map to PayoutPromise
             ── ExecutorInvariants: what PayoutInvariants and BridgeInvariants share

    SendWBGL ────────────────────────────────────── SendInvariants ── MCSendWBGL
       └ PaymentCalls
    AddressBook, Amounts ─ Routing ──────────────── RoutingInvariants ── MCRouting

    SharedStateProofs            the lemmas about the store
    PayoutSystemProofs           types, dangling keys, double payments, what records say;
                                 PayoutSystem implements PayoutPromise
    BglIntakeProofs              the BGL scanner
    ScanEVMProofs                the lemmas about the EVM scanner
    EvmIntakeProofs              the EVM scanner
    BridgeProofs                 all workers together; Bridge implements PayoutPromise
    SendWBGLProofs               payment attempts; SendWBGL implements PaymentCalls
    RoutingProofs                where payments go, floating-point numbers, how much is paid

An indented `└` is an abstract specification that the module above it is shown to implement.

**SharedState** is Redis, the flag and the process. `records` and `indexed` are
the record keys and the members of the status sets. `client[w]` is goroutine
`w` inside a procedure of `R`: the next command, the operation, the search. Each
action is one Redis command (`SScan`, `Get`, `Write`), or one that fails
(`RedisFails`), with or without effect. `Create` is a scanner building an operation under a
fresh uuid. `SharedReset` is the end of the process at any point, by a crash or
by a signal: `Worker_HTTP` returns and `main` with it, waiting for nobody.
`RaiseShutdown` is the flag raised by another goroutine, seen before the process
ends; it is part of the intake systems, where no sending worker raises it.
Names kept from the code: `records` keys, the statuses, `UpsertCall` for
`UpsertBridgeOperation`, `ChangeCall` for `ChangeBridgeOperationStatus`,
`FindPending`, `FindSourceTx`, `FindDestTx` for the three searches.

**Executor** is `Worker_processExecution`. `pc` is the place in the loop, `op`
the local `pending`, `payouts` the payments any chain has accepted (the index
is the transaction hash). `Poll`/`Fetch` find an operation; `Unroutable` is a
missing or unreadable address book record; `MarkExecuting`/`Marked` save a BGL
deposit as executing before WBGL is sent; `Paid`, `Refused`, `AnswerLost` are
the outcomes of a payment attempt, where `GiveUp` goes on to the return or to
`returnfail`; `SenderFound`/`SenderUnknown` look up who to return BGL to;
`Saved` ends the round and raises `WorkerShutdown` if the save failed.
`sendWBGL` is its retry counter `tries`.

**ScanBGL** and **ScanEVM** are the two scanners, one action per call or
decision of the loop, on a chain that only grows. `BglList` is `ListSinceBlock`
and the filter on confirmations. In `ScanEVM`, `Batch` computes the block range,
`NodeHeight` the heights at which the nodes of the RPC list may answer, `EvmBreak` is
the `break` on a settled or unexpected operation, `BreakOut` what every `break` does.

**SendWBGL** is what `Executor` counts as payment attempts of `sendWBGL`
(`P` 271–337) and `WithClient`, down to the nodes. `chain` is the blockchain
and what each node knows of it: `mined`, `height[n]`, `pool[n]`. `GetNonce`,
`GetPrice` and `Submitted`/`Refused`/`AnswerLost` are the three calls, each put
to one node after the other; `Failed` is the `continue` of the retry loop. The early return on a key that cannot be
parsed (`P` 298–305) is not a branch of its own: the key comes from the configuration, and the outcome is that of a last attempt
that failed, an error with nothing sent.
**PaymentCalls** says what `Executor` assumes of a call: attempts that are paid
and answered, not paid, or paid without an answer, the last two looking alike.

**AddressBook** is the two submit handlers, each request in a goroutine of its own,
and the lookup with its two spellings. A record has the number of its request,
and a BGL address the number of the request it was made for. **Amounts** is
the arithmetic of `P` 58–74 and 158–169, with every rounding. **Routing** joins
them: a deposit takes its chain from the record the scanner reads and its address
from the record the worker reads. An operation there is the deposit with a
status; that it is handled once is what the other modules are about.

**PayoutPromise** is what the sending worker promises about money, with neither
Redis nor statuses: an operation is paid once, and every repetition is owed to
a restart or to a lost answer, each of which excuses one repetition.

**PayoutSystem**, **BglIntake** and **EvmIntake** put one worker into the
smallest environment that feeds it, so that faults of every kind can be
explored deeply. **Bridge** composes all three on one store; `MaxDeposits`
bounds how many of its deposits reach a chain. The MC modules only
give values to constants; **MCShared** holds the search orders.

Operators marked *Mutant* stand next to the definition they distort. They are
used by no specification; each stands for a plausible bug, and putting it in
place of its original makes TLC report the property that `PROJECT.json` pairs
it with.

## 3. Runs

| run | question | constants |
|---|---|---|
| `payout_faults` | does the worker keep its promises under faults, and does the queue drain? | a deposit per direction, 2 attempts, 2 Redis errors, 1 restart, 1 lost answer |
| `bgl_intake` | does the BGL scanner lose or repeat deposits? | 3 deposits, two of them in one transaction, 2 confirmations, 5 blocks, 1 error, 1 restart |
| `evm_intake` | does the EVM scanner lose or repeat deposits, or fail to settle? | 1 deposit, 1 payment of either kind under way, 4 new blocks, window 1, batch 2, nodes 1 block behind, 1 error, 1 restart |
| `bridge_two` | do the workers get in each other's way? | a deposit per direction, payments may be refused, no other faults |
| `bridge_served` | does a deposit go through all workers, and only once? | 1 deposit of either direction, payments may be refused, 1 restart |
| `send_wbgl` | what is a payment attempt worth? | 2 payments, 2 nodes, 2 attempts, 2 prices, 1 lost answer per payment |
| `routing` | is the right person paid the right amount? | 2 wallets, 2 requests (or earlier registrations), 3 chain names, 1 deposit, 2 errors on the address book, 34 amounts |

What they show:

- `OnePayoutPerRun`: the "emergency exit to avoid looping" works. Whatever Redis
  commands fail, one lifetime pays an operation at most once, if no accepted
  payment lost its answer.
- `OnePayoutAcrossCrashes`: a BGL deposit, saved before it is sent, is paid at most once
  over all lifetimes if Redis and the payment calls answer. The other direction
  sends first and has no such property.
- `UnsettledMeansKept`: `failed` and `returnfail` really mean that the deposit
  is still with the bridge, within the conditions it states.
- `RecordNamesItsPayout`, `SettledByItsPayment`: `DestTxHash` always leads to a payment
  of that operation of the right kind, and only such a payment, once in a block, settles it.
- `NothingBehindCursor`, `DepositsBehindWindow`, `PaymentsBehindWindow`: a saved block leaves
  nothing behind, in spite of crashes, lagging nodes and batches, except for what the findings below say.
- `QueuedOnce`: overlapping scans and repeated scans after a crash do not queue a transfer twice, while nobody else moves operations
  (`bridge_double_send` is about the rest).
- `IndexedHaveRecords`: with one mover, no cut through the four commands leaves
  a key without its record, so searches do not fail.
- `KeepsPromise`: `PayoutSystem`, and `Bridge` with its scanners, implement `PayoutPromise`. `taken` is `issued`,
  `ledger` the operations of `payouts`, and `excuses` the restarts and lost
  answers minus the repetitions so far. A step that is none of the abstract
  ones is a stutter. Redis errors are no excuse.
- `SendsAsAssumed`: `SendWBGL` implements `PaymentCalls`, so `Executor` may treat a call as it does.
- `MinedOncePerLostAnswer`, `ErrorMeansUnsent`: retrying with a nonce asked for anew makes no payment
  twice, and an error means that nothing is on its way, however the nodes
  disagree; the one exception is an attempt that was accepted and whose answer was lost.
- `SentIsMined`: what was reported as sent is mined, if the nodes agree again before the next payment
  begins (`calm`). The code's whole provision for this is a pause of five seconds.
  Without it a node that has not heard of a payment gives its nonce away
  again, one of the two payments displaces the other, and both stay recorded as
  sent; the property says that nothing else can happen to a payment.
- `DanglingIsSettled`: with several movers a key can be left without its record after all, when the EVM
  scanner settles a payment between the worker's SET and SADD; this is the only way, and
  the operation is settled by then. Later searches trip over the key all the same.
- `BglDepositPaidOnce`: without faults the overlap of the BGL scanner and the worker pays no deposit twice.
- `KnownSourceIsFound`: a deposit from a source that has a record never fails as unknown, although the
  lookup is two commands and requests store records at any moment.
- `NotBySupersededRecord`: a WBGL deposit never goes by a record that had been replaced when it was sent.
  A record stored later, up to the moment the worker reads it, is used.
- `PaidWhereAsked`, `ReturnedToSender`: chain and address of a payment belong together although they were
  read from two copies of the record at different times.
- `NetOfFee`: for all roundings and truncations, a payment in WBGL is less than one unit of 10^-8 BGL from the exact value;
  one in BGL, in whole units, is less than a unit above it and at most a unit below its whole units.
- `QueueDrains`, `DepositsServed`: nothing waits forever.
- `WithinExcuses`: the account behind `KeepsPromise`, an invariant of its own: every further payment of an
  operation, and every one that may still come without another restart, has a restart or a lost answer to itself.
- `RecordsInv`, `SendInv`, `BglInv`, `EvmInv`, `BridgeInv`, `RoutingInv`: the inductive invariants of section 4, checked where they are
  proved, so that a change of the model shows up in seconds.

Runs that are expected to find a violation check one claim of a comment or of the README each:

| run | claim | what happens |
|---|---|---|
| `payout_two_sets` | `R:97` one set per operation | after a failed WBGL payment the second save moves the operation from *pending* again; it stays in *executing* too |
| `bgl_failed_store` | `B:63` block not considered processed | `break` leads straight to saving the block |
| `evm_break` | `README.md:6`, `V:177` | the `break` for a settled payment skips the deposits after it while it is in the window |
| `bridge_double_send` | `V:105` | during SREM … SADD an operation is in no set: the duplicate search misses it and the deposit is paid twice, without any fault |
| `bridge_passed_over` | `README.md:8`, `R:245` "don't crash" | while the BGL scanner searches for a duplicate, the worker deletes a record whose key the search holds; the search fails, the deposit is skipped and the saved block passes it for good, without any fault |

### Observed

While modelling, without a run of its own:

- `P:173` makes the payment although saving *executing* failed. The record is
  still pending, and a restart pays again; `KeepsPromise` says that it takes one.
- Two outputs of one transaction have the same `SourceTxHash`: the search of `B:45` finds the first,
  and the second is never recorded (`NothingBehindCursor` asks for one of them only). So have two transfer
  logs of one EVM transaction (`V:105`, `OnRecord`).
- With a safety window longer than a batch the saved block would walk backwards: a scan that ends early, after its
  first batch, saves a block before the one it started from, time after time. Every chain in `config/config.go:55-83`
  has a window shorter than its batch; `ScanEVMAssumption` says so.
- Between DEL and SET (`R` 166–175) a record is in the memory of the process only: a failed SET, or the end of the process
  there, loses the operation. Between SET and SADD the record stays, in no set, where no search looks.
- A SET of the address book that was answered with an error may have taken effect (`R:298`): the handler reports that
  binding failed (`SubmitWBGL.go:133`, and likewise in `SubmitBGL.go`), and deposits go by the new record.
- A key left dangling (`V:188` between the commands of `P:253`) makes every
  later search that meets it fail, until somebody removes it by hand.
- Nobody looks for a BGL payment on the chain: an operation with a BGL
  destination stays in *executing* or *returning* for good.
- `executing` is documented as "desination transaction sent successfully" (`config/config.go:90`), and for
  a BGL deposit it is written before sending.
- A failed store of the EVM scanner (`V:134`) has the flaw of the BGL one, softened by the window.
- The handlers validate `HexToAddress(address).Hex()`, which is well formed
  whatever the user sent; the record keeps what was sent.
- The README promises round-robin over the RPC nodes; `WithClient` always starts
  with the first. `MinConfirmations` is not used.

### Bounds

- *Identifiers.* `OpIds` is large enough that `Create` never runs out of uuids: one
  for each deposit, and one more for each error or restart that may repeat it. In
  `bridge_double_send` and `bridge_two` the second one may be a duplicate. `bridge_served` has one:
  a second is needed only after a restart with the first issued, and
  `DepositsServed` asks for nothing then.
- *Deposits.* One per direction suffices for the worker, which handles one
  operation at a time; two are needed where order inside a scan matters
  (`bgl_intake`) and a deposit with other transfers before it in `evm_intake` and `evm_break`.
  The bridge runs take one of each; `bridge_served` lets only one of them reach its chain, and a second deposit
  would run into what `bridge_passed_over` shows. `Routing` handles each deposit by itself, so one is enough.
- *Calls.* Two nodes can disagree, two attempts are one retry, two payments one
  nonce given away twice, two prices one that replaces and one that does not.
- *Requests.* Two of them, or registrations with an earlier version, are a record and the one that replaces it.
- *Amounts.* Floating-point numbers have 10 bits instead of 53, BGL 100 units instead of 10^8 and
  a unit of BGL 10 of WBGL instead of 10^10; `PaymentsAreNetOfFee` is about the real ones too. As in the code, the largest amount
  leaves two bits of the significand to spare, and a WBGL amount does not fit into it.
- *Payment faults.* Lost answers are explored in `payout_faults` and `send_wbgl`; the
  bridge runs have payments that succeed or are refused.
- *Faults.* The fault counters bound a behaviour, not a place: every command may be the one that fails.
- *Blocks.* The chains are long enough for a transfer to be scanned, scanned
  again from the window, and left behind. `FirstHeight` keeps block numbers positive: the conversion of a negative
  number to `uint64` (`V:67`) happens only on a chain shorter than the window.
- *Search order.* `FindBridgeOperationAllStatuses` ranges over a Go map. `SearchFirst` restricts the orders,
  and the runs use a single one, that of `RedisStatusSets`: without a second mover the order cannot
  matter to a search over a store that does not change. In the `bridge` runs one
  order is a real restriction, recorded as such.
- *SSCAN* returns a set in one piece, as Redis does for small sets.
- *Symmetry* is used over `OpIds`, over the two outputs of one transaction and over wallets, and never in
  runs with a temporal property.
- `CHECK_DEADLOCK FALSE`: the system may stop, when the flag is up or a bound is reached.

### Fairness

`WF` of each worker's steps: a goroutine that is not blocked runs, and Redis
either answers or fails within its five-second timeouts. `SF` of `BglList`, `EvmLatest`
and `EvmFilter`: a node that is asked every 10 or 30 seconds answers again and
again. In `SendWBGL`, `WF` of `Gossip`, `Mine` and `SeeBlock`: transactions spread, and
blocks are made and seen; only `SentIsMined` needs it. Otherwise nothing is assumed of users, of block production, of payments being accepted or of restarts
(`run.sh` starts the process once).

## 4. Proofs

The theorems hold for every number of operations, deposits, payments, nodes, retries and requests and every
bound on faults, under the named assumptions of the modules (`SharedAssumption`, `ExecutorAssumption`,
`ScannerAssumption`, `ScanBGLAssumption`, `ScanEVMAssumption`, `EvmIntakeAssumption`, `SendWBGLAssumption`,
`BridgeAssumption`, `AddressBookAssumption`, `AmountsAssumption`, `RoutingAssumption`). They say what kind of thing a constant is,
that every worker is a goroutine of its own (`cmd/server/main.go:37-42`), that the sets of statuses and wallets are finite, what separates
key spaces, and, of the EVM chains, that the safety window is no longer than a batch and that nodes
are behind by no more than the window. Of amounts they say that a floating-point number has at least 10 bits (53 in the code) and holds
both units, that deposits leave two bits of it to spare, as the 21 * 10^14 units of BGL that will ever exist do,
and that the fee is below 100 per cent, which the code leaves to whoever writes the configuration: of 100 per cent nothing would be
left to pay. TLC evaluates the assumptions in the runs.

| module | theorem | says |
|---|---|---|
| `PayoutSystemProofs` | `TypeCorrect` | `Spec => []TypeOK` |
| | `NoDanglingKey` | `Spec => []IndexedHaveRecords` |
| | `NoDoublePayoutInARun` | `Spec => []OnePayoutPerRun` |
| | `NoDoublePayoutAcrossCrashes` | `Spec => []OnePayoutAcrossCrashes` |
| | `Inductive` | `Spec => []IInv`, from which these follow |
| | `RecordsHold` | `Spec => []RecordsInv` |
| | `DestTxNamesAPayout` | `Spec => []RecordNamesItsPayout` |
| | `UnsettledDepositsAreKept` | `Spec => []UnsettledMeansKept` |
| | `FurtherPaymentsExcused` | `Spec => []WithinExcuses` |
| | `ImplementsPromise` | `Spec => KeepsPromise`, the refinement of `PayoutPromise` |
| `BglIntakeProofs` | `ScanHolds`, `ScanTypes` | `Spec => [](TypeOK /\ BglInv)` |
| | `NoDepositBehindTheCursor` | `Spec => []NothingBehindCursor` |
| | `NoTransactionQueuedTwice` | `Spec => []QueuedOnce` |
| | `ScanLeavesNoDanglingKey` | `Spec => []IndexedHaveRecords` |
| `EvmIntakeProofs` | `EvmScanHolds`, `EvmScanTypes` | `Spec => [](TypeOK /\ EvmInv)` |
| | `NoDepositBehindTheWindow` | `Spec => []DepositsBehindWindow` |
| | `PaymentsBehindTheWindow` | `Spec => []PaymentsBehindWindow` |
| | `NoLogQueuedTwice` | `Spec => []QueuedOnce` |
| | `EvmScanLeavesNoDanglingKey` | `Spec => []IndexedHaveRecords` |
| `BridgeProofs` | `BridgeHolds`, `BridgeTyped` | `Spec => [](TypeOK /\ BridgeInv)` |
| | `BridgeSettlesTruly` | `Spec => []SettledByItsPayment` |
| | `BridgeDanglingSettled` | `Spec => []DanglingIsSettled` |
| | `BridgePaysBglOnce` | `Spec => []BglDepositPaidOnce` |
| | `BridgeFurtherExcused` | `Spec => []WithinExcuses` |
| | `BridgeKeepsPromise` | `Spec => KeepsPromise`, the refinement of `PayoutPromise` by the whole process |
| `SendWBGLProofs` | `AttemptsAreCounted`, `SendTypes` | `Spec => [](TypeOK /\ SendInv)` |
| | `PaidOncePerLostAnswer` | `Spec => []MinedOncePerLostAnswer` |
| | `FailedPaymentsAreUnsent` | `Spec => []ErrorMeansUnsent` |
| | `ImplementsCalls` | `Spec => SendsAsAssumed`, the refinement of `PaymentCalls` |
| `RoutingProofs` | `RoutingHolds` | `Spec => []RoutingInv` |
| | `SourcesAreFound` | `Spec => []KnownSourceIsFound` |
| | `NoSupersededRecordPays` | `Spec => []NotBySupersededRecord` |
| | `PaymentsGoWhereAsked` | `Spec => []PaidWhereAsked` |
| | `ReturnsGoToSender` | `Spec => []ReturnedToSender` |
| | `PaymentsAreNetOfFee` | `Spec => []NetOfFee` |
| | `RoutingTyped` | `Spec => []TypeOK` |

**The sending worker.** `IInv` (`PayoutInvariants`) has four parts, each inductive relative to
the ones before:

1. `TypeOK`.
2. `StoreInv`: a record lies under its own key (`Filed`); every copy of an
   operation goes back to one that was issued, and an id belongs to one deposit
   (`Traced`); what a goroutine is waiting for matches where it is (`ExecutorAgrees`,
   `ScannerAgrees`); an operation whose SADD is outstanding has its record
   (`SetBeforeAdd`); after SREM it is out of the queue (`Moved`). `IndexedHaveRecords` alone is not inductive: a SADD adds a key,
   and only `SetBeforeAdd` says that the record is there.
3. `RunInv`: an operation paid in this lifetime is either the one being saved, or
   `Closed` (no key and no search result leads to it any more), or the worker
   is about to stop. That is why the flag may be looked at as late as it is.
4. `CrashInv`: without errors a BGL deposit is `Closed` before it is paid; being
   closed survives a restart because it speaks of Redis.

`RecordsInv` adds what the records tell. `RecordNamesItsPayout` speaks of records; a record is
written from a copy that the worker has carried since a search, so the statement has to be made of every copy
(`RecordsTruthful`). `failed` is true when it is written and would become false with a later payment: that none
comes needs `LeftAreClosed` (whatever has left *pending* cannot be found again) and
`Unsettled` (the operation at hand has no record saying it is settled).

`WithinExcuses` is the account of the refinement. `Further` are the payments after the first of an operation.
`Debts` are the paid operations the worker can still come by, except for the last one paid while it is being saved or,
after its saving failed, while the flag is up. A payment repeats an operation only if it was a debt, so the sum does not
grow; an operation becomes a debt only by a restart or a lost answer, which raises the right-hand side. `ImplementsPromise` then maps every
step: `Create` to the taking of a deposit, an accepted payment to one in the ledger, with an excuse used up
exactly if it is a further one, a restart and a lost answer to a new excuse, and everything else to a stutter.

**The BGL scanner.** `BglInv` says of a search under way that every operation with the
hash sought is found or still to be read (`Searching`), and of a store under way that nothing with its hash is queued (`Storing`):
hence `QueuedOnce`. For the saved block, `ScanCovers` follows the deposits up to the
block that will be saved: each is covered, in hand, or in the list yet to be gone through.

**The EVM scanner.** `Searching` and `StoringDeposit` in `EvmInv` are as for the other scanner; `Settling` follows the payment's operation
through SREM, DEL, SET and SADD, and `PaymentIsKept` says that without a fault it is in one of its two sets or in the scanner's hands.
For the two window properties, `Covered` says of the scan under way: every log up to the end of the
batch, and no younger than a window before the height the scan started with, is done or is among the logs in hand.
Only the younger ones may be missing from a node's answer, and they will be read again, because the saved block is
never above that height. The logs a `break` passes over are in one batch with the payment it stopped at, so less than
`BlockBatch` blocks after it: they are `Overshadowed`, and that is all the two properties except. `PaymentDone` of a log in hand
is what a settlement establishes; it survives since nothing moves an operation once it is settled.

**The bridge.** With three goroutines inside the store at once little of what the other invariants say survives:
a record that a search has found may be moved before the finder acts, and a key may stand without its record. `BridgeInv` has two halves.

The first holds whatever fails. `CopiesInv` says of every copy of an operation, in Redis, in the hands of a worker or inside a
command, that it goes back to a deposit (`Traced`) and that its `DestTxHash` and status are true of the payments and the chain
(`CopiesTruthful`). That has to be made of *copies*, because a goroutine acts on the one it took commands ago: a copy stays true since payments and
blocks are never undone. `SettledByItsPayment` is then what it says of records. `NewAreUntouched`: until its first SADD an
operation is known to nobody but its scanner. `Moved`: after the SREM of the worker its key is not pending.

The second, `CalmInv`, holds as long as no command fails and the process lives. `Gone(id)` says that the worker cannot come by
operation `id` again, neither by a key, nor by a search under way, nor as the operation in hand. What the EVM scanner may find in
*returning* is gone (`ReturnedAreGone`), so that the two movers never move the same operation except in *executing*, after the first save of a BGL deposit:
`KeysHaveRecords` names the one key that can lose its record there (`Overtaken`), and with it `DanglingIsSettled`. What has been paid is gone, or being saved
(`PaidAreGone`), so each operation is paid once; `ListedOnce` follows the deposits through list, search and store of the BGL scanner,
up to the block that is saved or will be, so each BGL deposit has one operation. Together that is `BglDepositPaidOnce`.
The account `WithinExcuses` holds in the whole process as it does for the worker alone. What is new is that a paid operation must
stay closed to the worker whatever the scanners write: a scanner adds a key to *pending* only for an operation it has just created,
and one that was paid is none of those (`Touched`, from `NewAreUntouched`). So no interleaving of commands is one more reason for a
second payment of an *operation*. `bridge_double_send` shows what is left: a second operation for the same deposit.
Each action is first brought into one of a few shapes (`ExecutorShapes`, `BglShapes`, `EvmShapes`), and each part
of the invariant is shown to survive each shape.

**Payment attempts.** Every transaction that a node holds or a block contains goes back to an attempt that was accepted
(`FromAttempts`). Of the accepted attempts of one payment all but one had their answer lost (`AttemptsCounted`), and
the n-th attempt has a nonce below n (`NoncesCounted`), which keeps the numbers finite. A chain has one transaction per nonce, so the mined transactions of a
payment inject into its accepted attempts; that gives `MinedOncePerLostAnswer`.

**Routing.** `BookInv` says that a key leads to a record of its own wallet and, in lower
case, or in mixed case until there is one in lower case, to the *latest* one; the handlers never write a
mixed-case key. `RightFor` says that an answer of the address book stays right for the deposit it was asked for: requests only grow,
and records change only towards later ones, so an answer cannot become one of a record that was replaced when the deposit was sent.
The two-command lookup is what makes this delicate: after a miss in lower case a request may store the record there, and
the mixed-case record read next has been replaced by then, though not before the deposit.

**Amounts.** `Pow2` is a recursive function, and the provers know nothing of recursion: that it is what its definition says
(`Pow2Def`) is shown by the least number for which it would not be, since a set of natural numbers has a least. From it follow
the laws of powers, and that some shift gives the significand its bits (`SomeShift`). Two numbers are `Near` when they differ by at most one part
in 2^`Bits`; a conversion, a product, a quotient and a difference are each near the exact value (`FloatIsNear`, `TimesIsNear`,
`OverIsNear`, `MinusIsNear`), and an integer that fits is exact (`FloatOfInteger`). Exponents differ from number to number, so all of them are
compared as multiples of one power of two that is small enough for every step (`Units`). `BGLAmount` rounds five times.
With two bits to spare a step is off by at most a quarter of a unit, the steps of the fee by at most a quarter of the fee's share of one;
all together are off by less than one unit (`FiveRoundings`), and the truncation takes away less than another (`BGLAmountIs`).
`WBGLAmount` rounds twice, and its fee is an integer (`WBGLAmountIs`). With `Counted`, the numbers and
bounds that `RoutesTypeOK` leaves out, `NetOfFee` is inductive relative to `RoutingInv`.
TLC cannot evaluate the amounts of the code, which are beyond its integers; the theorem covers them.

Only model-checked, and why:

- all liveness (`QueueDrains`, `DepositsServed`, `SentIsMined`): reasoning under fairness is beyond this prover.

## 5. Not modelled

Reverted transactions and chain reorganisations; signature and JSON checking
in the submit handlers, which changes no state; the read-only handlers; a
second EVM scanner beside the first (the same code on a cursor of its own); sets so large that SSCAN
returns them in pieces; TLS and configuration; the generated contract binding;
`workers/operations` (comments only). `PROJECT.json` gives the reason for each.

## 6. Plan

Done: SharedState, Executor, PayoutSystem, ScanBGL, BglIntake, ScanEVM, EvmIntake, Bridge with two deposits, PayoutPromise, SendWBGL,
PaymentCalls, AddressBook, Amounts, Routing; the proofs of section 4.

Next, in this order:

1. *Bridge*: a second EVM scanner, several search orders, SSCAN in pieces.
2. Reorganising chains: what `SafetyWindow` is worth then.
