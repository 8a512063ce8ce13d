-------------------------- MODULE RoutingInvariants --------------------------
(***************************************************************************)
(* What keeps a deposit on its way to where its user asked: the address    *)
(* book leads from a source to its latest record, an answer of the address *)
(* book stays good for the deposit it was asked for however many requests  *)
(* come in before it is used, and what was paid was paid by such answers.  *)
(* RoutingInv is inductive.                                                *)
(***************************************************************************)
EXTENDS Routing

(***************************************************************************)
(* Types.  The amounts are left out: how large they are is the subject of  *)
(* NetOfFee alone.                                                         *)
(***************************************************************************)
Keys == {<<>>} \union ({0} \X Nat \X {"lower"}) \union ({1} \X Wallets \X {"lower"})

Lookups ==
  [pc : {"idle", "lower", "mixed", "done", "error"}, key : Keys, id : Nat]

Statuses ==
  {"sent", "scanned", "passed over", "pending", "missing", "unread",
   "executing", "returning", "returnfail"}

Addresses == {<<>>} \union Wallets \union ({"named", "sender"} \X Nat)

Chains == EvmChains \union {0}

Deposits ==
  [kind : {"bgl", "wbgl"}, source : Nat \union Wallets,
   chain : Chains, at : Nat, status : Statuses,
   destChain : Chains, by : Nat, to : Addresses,
   toChain : Chains]

RoutesTypeOK ==
  /\ requests \in Seq(Request)
  /\ stored \in Seq(Nat)
  /\ look \in [BookLookers -> Lookups]
  /\ deposits \in Seq(Deposits)
  /\ worker = [pc |-> worker.pc, deposit |-> worker.deposit,
                amount |-> worker.amount, value |-> worker.value]
  /\ worker.pc \in {"idle", "address", "forward", "return"}
  /\ worker.deposit \in Nat

(***************************************************************************)
(* The address book.                                                       *)
(***************************************************************************)

(* A key leads to a record of the address it is made from, which is stored. *)
LeadsTo(k, i) ==
  /\ i \in DOMAIN requests
  /\ \/ requests[i].kind = "bgl" /\ k = BGLKey(i)
     \/ /\ requests[i].kind = "wbgl"
        /\ \/ k = EVMKey(requests[i].wallet)
           \/ k = MixedKey(EVMKey(requests[i].wallet))

KeysLead ==
  \A k \in DOMAIN book :
    LeadsTo(k, book[k]) /\ \E n \in DOMAIN stored : stored[n] = book[k]

StoredAreRequests == \A n \in DOMAIN stored : stored[n] \in DOMAIN requests

(* A user is told an address only once its key is there, and only for a    *)
(* chain of the bridge.                                                    *)
ToldAreStored ==
  \A i \in DOMAIN requests :
    /\ requests[i].pc \in {"address", "told"} => requests[i].chain \in Supported
    /\ requests[i].pc = "told" /\ requests[i].kind = "bgl" =>
         BGLKey(i) \in DOMAIN book

(* The n-th stored record binds wallet w. *)
Binds(n, w) ==
  requests[stored[n]].kind = "wbgl" /\ requests[stored[n]].wallet = w

Latest(i, w) ==
  \E n \in DOMAIN stored :
    stored[n] = i /\ \A m \in DOMAIN stored : Binds(m, w) => m <= n

(* In lower case, and until there is one in lower case in mixed case, the  *)
(* key of a wallet leads to its latest record; without a key it has none.  *)
LatestIsFound(w) ==
  /\ EVMKey(w) \in DOMAIN book => Latest(book[EVMKey(w)], w)
  /\ EVMKey(w) \notin DOMAIN book =>
       IF MixedKey(EVMKey(w)) \in DOMAIN book
       THEN Latest(book[MixedKey(EVMKey(w))], w)
       ELSE \A n \in DOMAIN stored : ~ Binds(n, w)

BookInv ==
  /\ StoredAreRequests /\ KeysLead /\ ToldAreStored
  /\ \A w \in Wallets : LatestIsFound(w)

(***************************************************************************)
(* The deposits and the answers of the address book.                       *)
(***************************************************************************)

(* A deposit is from a known address or a wallet, and once scanned goes to *)
(* the chain that was asked for.                                           *)
Known(d) ==
  /\ deposits[d].at <= Len(stored)
  /\ deposits[d].kind = "wbgl" => deposits[d].source \in Wallets
  /\ deposits[d].kind = "bgl" =>
       /\ deposits[d].source \in DOMAIN requests
       /\ requests[deposits[d].source].kind = "bgl"
       /\ requests[deposits[d].source].pc = "told"
       /\ deposits[d].status \notin {"sent", "scanned", "passed over"} =>
            deposits[d].destChain = ChainId(requests[deposits[d].source].chain)

(* Record i is one of the source of deposit d, and none that the deposit   *)
(* found stored is later.                                                  *)
NotBefore(d, i) ==
  /\ i \in DOMAIN requests
  /\ requests[i].kind = "wbgl" /\ requests[i].wallet = deposits[d].source
  /\ \E n \in DOMAIN stored : stored[n] = i /\ \A b \in Bindings(d) : b <= n

(* What looker g has been told so far is right for deposit d, and what it  *)
(* will read in mixed case still is.                                       *)
RightFor(d, g) ==
  /\ look[g].key = SourceKey(d)
  /\ look[g].pc \in {"lower", "mixed", "done", "error"}
  /\ deposits[d].kind = "bgl" =>
       /\ look[g].pc # "mixed"
       /\ look[g].pc = "done" => look[g].id = deposits[d].source
  /\ deposits[d].kind = "wbgl" =>
       LET mixed == MixedKey(look[g].key)
       IN  /\ look[g].pc = "mixed" =>
                IF mixed \in DOMAIN book THEN NotBefore(d, book[mixed])
                                         ELSE Bindings(d) = {}
           /\ look[g].pc = "done" =>
                IF look[g].id = 0 THEN Bindings(d) = {}
                                  ELSE NotBefore(d, look[g].id)

(* The BGL scanner looks up one deposit at a time, and so does the worker, *)
(* which goes on only with a record.                                       *)
ScannerIsRight ==
  \A d \in DOMAIN deposits :
    deposits[d].status = "scanned" =>
      /\ deposits[d].kind = "bgl"
      /\ RightFor(d, "BGL scanner")
      /\ \A e \in DOMAIN deposits : deposits[e].status = "scanned" => e = d

WorkerIsRight ==
  \A d \in DOMAIN deposits :
    worker.pc # "idle" /\ worker.deposit = d =>
      /\ deposits[d].status = "pending"
      /\ RightFor(d, "sending worker")
      /\ worker.pc \in {"forward", "return"} => Found("sending worker")

WorkerHasDeposit == worker.pc # "idle" => worker.deposit \in DOMAIN deposits

(***************************************************************************)
(* The inductive invariant: with the above, the four properties, of every  *)
(* deposit.                                                                *)
(***************************************************************************)
RoutingInv ==
  /\ RoutesTypeOK
  /\ BookInv
  /\ \A d \in DOMAIN deposits : Known(d)
  /\ ScannerIsRight /\ WorkerHasDeposit /\ WorkerIsRight
  /\ KnownSourceIsFound /\ NotBySupersededRecord
  /\ PaidWhereAsked /\ ReturnedToSender

=============================================================================
