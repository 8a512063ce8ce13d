------------------------------ MODULE Routing -------------------------------
(***************************************************************************)
(* Where a deposit is paid to, and how much: users, the address book of    *)
(* AddressBook.tla, and what the BGL scanner (workers/scanBGL.go) and the  *)
(* sending worker (workers/processExecution.go) make of it, with the       *)
(* amounts of Amounts.tla.  How an operation is kept in Redis and paid     *)
(* once is the subject of Bridge.tla; here each is found, queued and taken *)
(* once, in any order.                                                     *)
(***************************************************************************)
EXTENDS AddressBook, Amounts

CONSTANTS
  MaxDeposits,    \* bound: deposits made
  DepositSats     \* bound: amounts of deposits, in 10^-8 BGL

(* All the BGL there will ever be, 21 * 10^14 units, leave two bits of a   *)
(* float64 to spare, and so do the amounts of deposits.                    *)
ASSUME RoutingAssumption ==
  /\ MaxDeposits \in Nat
  /\ \A n \in DepositSats : n \in Nat /\ 4 * (n + 2) <= Pow2[Bits]

VARIABLES
  deposits,   \* the deposits so far, each with its operation
  worker      \* locals of the sending worker: pc, deposit, amount, value

vars == <<bookVars, deposits, worker>>

EvmChains == {ChainId(c) : c \in ChainNames \intersect Supported}

(* BGL addresses of users: named by a request, or the sender of a deposit. *)
NamedBy(i)  == <<"named", i>>
SenderOf(d) == <<"sender", d>>

(***************************************************************************)
(* A deposit and its operation.  source is the number of the BGL address   *)
(* or the wallet, chain the chain id (0 is BGL), at how many records had   *)
(* been stored when it was sent; destChain is set by the scanner, by is    *)
(* the record that the worker went by, to and toChain are what was paid.   *)
(* "missing" and "unread" are both the status failed.                      *)
(***************************************************************************)
Deposit(kind, source, chain) ==
  [kind |-> kind, source |-> source, chain |-> chain, at |-> Len(stored),
   status |-> "sent", destChain |-> 0, by |-> 0, to |-> <<>>, toChain |-> 0]

Idle == [pc |-> "idle", deposit |-> 0, amount |-> 0, value |-> 0]

Init ==
  /\ \E old \in SUBSET Wallets : BookInit(old)
  /\ deposits = <<>>
  /\ worker = Idle

(***************************************************************************)
(* Users send BGL to the addresses they were told, and WBGL from any       *)
(* wallet on any chain.                                                    *)
(***************************************************************************)
Send ==
  /\ Len(deposits) < MaxDeposits
  /\ \/ \E i \in DOMAIN requests :
          /\ requests[i].kind = "bgl" /\ requests[i].pc = "told"
          /\ deposits' = Append(deposits, Deposit("bgl", i, 0))
     \/ \E w \in Wallets, c \in EvmChains :
          deposits' = Append(deposits, Deposit("wbgl", w, c))
  /\ UNCHANGED <<bookVars, worker>>

Update(d, status) == deposits' = [deposits EXCEPT ![d].status = status]

Finish(g) == look' = [look EXCEPT ![g] = NotLooking]

BookKept == UNCHANGED <<requests, book, stored, bookErrors>>

(***************************************************************************)
(* The scanners.  A WBGL deposit is queued as it is; a BGL deposit takes   *)
(* its destination chain from the address book, and is passed over when    *)
(* the address book cannot be read.                                        *)
(***************************************************************************)
EvmScan(d) ==
  /\ deposits[d].kind = "wbgl" /\ deposits[d].status = "sent"
  /\ Update(d, "pending")
  /\ UNCHANGED <<bookVars, worker>>

BglScan(d) ==
  /\ look["BGL scanner"].pc = "idle"
  /\ deposits[d].kind = "bgl" /\ deposits[d].status = "sent"
  /\ Update(d, "scanned")
  /\ LookUp("BGL scanner", BGLKey(deposits[d].source))
  /\ BookKept /\ UNCHANGED worker

BglScanned(d) ==
  LET g == "BGL scanner"
  IN  /\ deposits[d].status = "scanned"
      /\ \/ /\ Found(g)
            /\ deposits' = [deposits EXCEPT
                              ![d].status = "pending",
                              ![d].destChain = ChainId(requests[look[g].id].chain)]
         \/ Absent(g) /\ Update(d, "missing")
         \/ look[g].pc = "error" /\ Update(d, "passed over")
      /\ Finish(g)
      /\ BookKept /\ UNCHANGED worker

(***************************************************************************)
(* The sending worker.  The address book is read again; what is found then *)
(* decides.                                                                *)
(***************************************************************************)
SourceKey(d) ==
  IF deposits[d].kind = "bgl" THEN BGLKey(deposits[d].source)
                              ELSE EVMKey(deposits[d].source)

Take(d) ==
  /\ worker.pc = "idle"
  /\ deposits[d].status = "pending"
  /\ worker' = [Idle EXCEPT !.pc = "address", !.deposit = d]
  /\ LookUp("sending worker", SourceKey(d))
  /\ BookKept /\ UNCHANGED deposits

(* Mutant: the status is misspelt. *)
UnroutableMisspelt ==
  /\ worker.pc = "address"
  /\ Absent("sending worker") \/ look["sending worker"].pc = "error"
  /\ Update(worker.deposit, "fail")
  /\ worker' = Idle /\ Finish("sending worker")
  /\ BookKept

Unroutable ==
  /\ worker.pc = "address"
  /\ \/ Absent("sending worker") /\ Update(worker.deposit, "missing")
     \/ look["sending worker"].pc = "error" /\ Update(worker.deposit, "unread")
  /\ worker' = Idle /\ Finish("sending worker")
  /\ BookKept

(* What the deposit was is chosen where it begins to matter.  A WBGL       *)
(* amount may have a part that BGL is too coarse for.                      *)
Compute ==
  /\ worker.pc = "address" /\ Found("sending worker")
  /\ \E sat \in DepositSats :
       \/ /\ deposits[worker.deposit].kind = "bgl"
          /\ worker' = [worker EXCEPT !.pc = "forward", !.amount = sat,
                                      !.value = WBGLAmount(sat)]
       \/ /\ deposits[worker.deposit].kind = "wbgl"
          /\ \E rest \in {0, WeiPerSat - 1} :
               worker' = [worker EXCEPT !.pc = "forward",
                                        !.amount = sat * WeiPerSat + rest,
                                        !.value = BGLAmount(sat * WeiPerSat + rest)]
  /\ UNCHANGED <<bookVars, deposits>>

Pay(status, address, chain) ==
  /\ deposits' = [deposits EXCEPT ![worker.deposit].status = status,
                                  ![worker.deposit].by = look["sending worker"].id,
                                  ![worker.deposit].to = address,
                                  ![worker.deposit].toChain = chain]
  /\ worker' = Idle /\ Finish("sending worker")
  /\ BookKept

Record == requests[look["sending worker"].id]

(* A payment of nothing is refused by the BGL node. *)
Forward ==
  /\ worker.pc = "forward"
  /\ LET d == deposits[worker.deposit]
     IN  \/ d.kind = "bgl" /\ Pay("executing", Record.wallet, d.destChain)
         \/ /\ d.kind = "wbgl" /\ worker.value > 0
            /\ Pay("executing", NamedBy(look["sending worker"].id), 0)

(* What is given back is the deposit as it is. *)
ForwardFails ==
  /\ worker.pc = "forward"
  /\ worker' = [worker EXCEPT !.pc = "return", !.amount = 0, !.value = 0]
  /\ UNCHANGED <<bookVars, deposits>>

(* Mutant: WBGL goes back on the chain that the record names. *)
GiveBackOnRecordChain ==
  /\ worker.pc = "return"
  /\ LET d == deposits[worker.deposit]
     IN  \/ d.kind = "bgl" /\ Pay("returning", SenderOf(worker.deposit), 0)
         \/ d.kind = "wbgl" /\ Pay("returning", Record.wallet, ChainId(Record.chain))

(* BGL goes to the sender of the transaction, WBGL to the source address   *)
(* of the record, on the chain of the deposit.                             *)
GiveBack ==
  /\ worker.pc = "return"
  /\ LET d == deposits[worker.deposit]
     IN  \/ d.kind = "bgl" /\ Pay("returning", SenderOf(worker.deposit), 0)
         \/ d.kind = "wbgl" /\ Pay("returning", Record.wallet, d.chain)

GiveBackFails ==
  /\ worker.pc = "return"
  /\ Update(worker.deposit, "returnfail")
  /\ worker' = Idle /\ Finish("sending worker")
  /\ BookKept

WorkerStep ==
  \/ \E d \in DOMAIN deposits : Take(d)
  \/ Unroutable \/ Compute
  \/ Forward \/ ForwardFails \/ GiveBack \/ GiveBackFails

Next ==
  \/ (HandlerStep \/ LookupStep) /\ UNCHANGED <<deposits, worker>>
  \/ Send
  \/ \E d \in DOMAIN deposits : EvmScan(d) \/ BglScan(d) \/ BglScanned(d)
  \/ WorkerStep

Spec == Init /\ [][Next]_vars

(* The address book, the deposits and the worker's locals have their types. *)
TypeOK ==
  /\ BookTypeOK
  /\ Len(deposits) <= MaxDeposits
  /\ \A d \in DOMAIN deposits :
       /\ deposits[d].status \in
            {"sent", "scanned", "passed over", "pending", "missing", "unread",
             "executing", "returning", "returnfail"}
       /\ {deposits[d].destChain, deposits[d].toChain} \subseteq EvmChains \union {0}
       /\ deposits[d].by \in {0} \union DOMAIN requests
  /\ worker.pc \in {"idle", "address", "forward", "return"}
  /\ worker.deposit \in {0} \union DOMAIN deposits
  /\ {worker.amount, worker.value} \subseteq Nat

(***************************************************************************)
(* Safety.                                                                 *)
(***************************************************************************)

(* Records of the wallet that Redis held when deposit d was sent. *)
Bindings(d) ==
  {n \in 1 .. deposits[d].at :
     /\ requests[stored[n]].kind = "wbgl"
     /\ requests[stored[n]].wallet = deposits[d].source}

(* SubmitBGL.go:95, redis.go:315: "Missing address book record" is never   *)
(* the end of a deposit to an address that a user was told, or from a      *)
(* wallet bound before by either version of the code, whatever commands    *)
(* fail.                                                                   *)
KnownSourceIsFound ==
  \A d \in DOMAIN deposits :
    deposits[d].status = "missing" =>
      deposits[d].kind = "wbgl" /\ Bindings(d) = {}

(* redis.go:291,315: the key of a wallet is overwritten and exists in two  *)
(* spellings, read one after the other.  A WBGL deposit is not paid by a   *)
(* record that another one had taken the place of when it was sent.        *)
NotBySupersededRecord ==
  \A d \in DOMAIN deposits :
    deposits[d].kind = "wbgl" /\ deposits[d].by # 0 =>
      \E n \in DOMAIN stored :
        /\ stored[n] = deposits[d].by
        /\ \A b \in Bindings(d) : b <= n

(* config.go:48-85: the chains by their names. *)
Named(chain) ==
  CASE chain = 1     -> "eth" [] chain = 10 -> "op" [] chain = 56 -> "bnb"
    [] chain = 42161 -> "arb" [] OTHER      -> "unknown"

(* The chain of a payment comes from the scanner's copy of the record, its *)
(* address from the worker's: a BGL deposit is paid to the wallet and on   *)
(* the chain that the user named, and a WBGL deposit to a BGL address that *)
(* its wallet has named.                                                   *)
PaidWhereAsked ==
  \A d \in DOMAIN deposits :
    deposits[d].status = "executing" =>
      \/ /\ deposits[d].kind = "bgl"
         /\ deposits[d].to = requests[deposits[d].source].wallet
         /\ Named(deposits[d].toChain) = requests[deposits[d].source].chain
      \/ /\ deposits[d].kind = "wbgl"
         /\ \E i \in DOMAIN requests :
              /\ deposits[d].to = NamedBy(i)
              /\ requests[i].kind = "wbgl" /\ requests[i].wallet = deposits[d].source

(* processExecution.go:106: WBGL is returned to the address in the record, *)
(* which was found without the chain: it is the sender's, and the chain is *)
(* that of the deposit.                                                    *)
ReturnedToSender ==
  \A d \in DOMAIN deposits :
    deposits[d].status = "returning" /\ deposits[d].kind = "wbgl" =>
      /\ deposits[d].to = deposits[d].source
      /\ deposits[d].toChain = deposits[d].chain

(* processExecution.go:63-74,158-169: for all the rounding, the payment is *)
(* the deposit less the fee, to one unit of 10^-8 BGL: WBGL is less than a *)
(* unit off; BGL, paid in whole units, is less than a unit above it and at *)
(* most a unit below its whole units.                                      *)
NetOfFee ==
  worker.pc = "forward" =>
    \/ /\ deposits[worker.deposit].kind = "bgl"
       /\ LET net == worker.amount * WeiPerSat * (100 - FeePercentage)
          IN  /\ worker.value * 100 < net + 100 * WeiPerSat
              /\ worker.value * 100 > net - 100 * WeiPerSat
    \/ /\ deposits[worker.deposit].kind = "wbgl"
       /\ LET net == (worker.amount \div WeiPerSat) * (100 - FeePercentage)
          IN  /\ worker.value * 100 < net + 100
              /\ worker.value >= net \div 100 - 1

=============================================================================
