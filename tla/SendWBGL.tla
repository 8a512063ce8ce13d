------------------------------ MODULE SendWBGL ------------------------------
(***************************************************************************)
(* A series of WBGL payments on one EVM chain: sendWBGL (workers/          *)
(* processExecution.go), which asks for a nonce, asks for a gas price and  *)
(* submits a transfer, over WithClient (EVMRPC/EVMRPC.go), which puts each *)
(* of the three to one node of RPCList after the other until one answers.  *)
(* The nodes need not agree: a transaction spreads, and a block is seen,   *)
(* with delay.                                                             *)
(***************************************************************************)
EXTENDS Integers, Sequences, FiniteSets

CONSTANTS
  NumNodes,       \* length of RPCList
  EvmRetries,     \* config.EVM_RETRIES
  Prices,         \* gas prices a node may suggest
  MaxPayments,    \* bound: payments made
  MaxLostAnswers  \* bound: transfers accepted whose answer was an error

ASSUME SendWBGLAssumption ==
  /\ {NumNodes, EvmRetries} \subseteq Nat \ {0}
  /\ Prices \subseteq Nat
  /\ {MaxPayments, MaxLostAnswers} \subseteq Nat

Nodes    == 1 .. NumNodes
Payments == 1 .. MaxPayments

(* A signed transfer: payment stands for recipient and amount. *)
Tx == [payment : Payments, nonce : Nat, price : Prices]

VARIABLES
  mined,      \* transfers of the bridge wallet in the chain; nonces 0, 1, ...
  height,     \* height[n]: how many of them node n has seen
  pool,       \* pool[n]: transfers pending at node n
  payment,    \* number of the last payment begun
  call,       \* locals of sendWBGL: pc, tries, nonce, price, node, taken
  sent,       \* sent[p]: transfers that some node accepted, one per attempt
  result,     \* result[p]: what sendWBGL returned
  lost,       \* lost[p]: answers lost while paying p
  calm        \* the nodes agree again before the next payment begins

chain == <<mined, height, pool>>
vars  == <<chain, payment, call, sent, result, lost, calm>>

(* The locals of sendWBGL: its progress, and one iteration's transfer. *)
Locals ==
  [pc : {"idle", "nonce", "price", "transfer"}, tries : 0 .. EvmRetries - 1,
   nonce : Nat, price : Prices \union {0}, node : Nodes, taken : BOOLEAN]

Idle ==
  [pc |-> "idle", tries |-> 0, nonce |-> 0, price |-> 0, node |-> 1, taken |-> FALSE]

Init ==
  /\ mined = <<>>
  /\ height = [n \in Nodes |-> 0]
  /\ pool = [n \in Nodes |-> {}]
  /\ payment = 0
  /\ call = Idle
  /\ sent = [p \in Payments |-> <<>>]
  /\ result = [p \in Payments |-> "none"]
  /\ lost = [p \in Payments |-> 0]
  /\ calm \in BOOLEAN

(***************************************************************************)
(* A node (go-ethereum).  It takes a transfer with a nonce that it has not *)
(* seen mined, in place of one of the same nonce if the price is higher.   *)
(***************************************************************************)

(* Mutant: the nonce asked for leaves out what is pending (NonceAt). *)
NonceAt(n) == height[n]

PendingNonceAt(n) ==
  CHOOSE k \in height[n] .. Len(mined) + MaxPayments * EvmRetries :
    /\ \A t \in pool[n] : t.nonce # k
    /\ \A j \in height[n] .. k - 1 : \E t \in pool[n] : t.nonce = j

Acceptable(n, tx) ==
  /\ tx.nonce >= height[n]
  /\ \A t \in pool[n] : t.nonce = tx.nonce => t.price < tx.price

Add(n, tx) ==
  pool' = [pool EXCEPT ![n] = {t \in @ : t.nonce # tx.nonce} \union {tx}]

Gossip ==
  /\ \E m, n \in Nodes : \E tx \in pool[m] : Acceptable(n, tx) /\ Add(n, tx)
  /\ UNCHANGED <<mined, height, payment, call, sent, result, lost, calm>>

Mine ==
  /\ \E n \in Nodes : \E tx \in pool[n] :
       tx.nonce = Len(mined) /\ mined' = Append(mined, tx)
  /\ UNCHANGED <<height, pool, payment, call, sent, result, lost, calm>>

SeeBlock ==
  /\ \E n \in Nodes :
       /\ height[n] < Len(mined)
       /\ height' = [height EXCEPT ![n] = @ + 1]
       /\ pool' = [pool EXCEPT ![n] = {t \in @ : t.nonce > height[n]}]
  /\ UNCHANGED <<mined, payment, call, sent, result, lost, calm>>

(***************************************************************************)
(* The call.  The worker sleeps five seconds after a payment: "don't rush, *)
(* it's decentralized nodes, etc." (processExecution.go:130,261).  When    *)
(* that is enough, calm, the nodes agree before the next payment.          *)
(***************************************************************************)
Agreed == \A m, n \in Nodes : pool[m] = pool[n] /\ height[m] = height[n]

Begin ==
  /\ call.pc = "idle"
  /\ payment < MaxPayments
  /\ calm => Agreed
  /\ payment' = payment + 1
  /\ call' = [Idle EXCEPT !.pc = "nonce"]
  /\ UNCHANGED <<chain, sent, result, lost, calm>>

(* The nodes before n do not answer. *)
GetNonce ==
  /\ call.pc = "nonce"
  /\ \E n \in Nodes :
       call' = [call EXCEPT !.pc = "price", !.nonce = PendingNonceAt(n)]
  /\ UNCHANGED <<chain, payment, sent, result, lost, calm>>

GetPrice ==
  /\ call.pc = "price"
  /\ \E p \in Prices :
       call' = [call EXCEPT !.pc = "transfer", !.price = p, !.node = 1]
  /\ UNCHANGED <<chain, payment, sent, result, lost, calm>>

(* The signed transfer, the same for every node of one iteration. *)
Transfer == [payment |-> payment, nonce |-> call.nonce, price |-> call.price]

Return(answer) ==
  /\ result' = [result EXCEPT ![payment] = answer]
  /\ call' = Idle

(* One iteration ends; taken tells whether a node accepted its transfer. *)
Attempted(taken) ==
  sent' = [sent EXCEPT ![payment] = IF taken THEN Append(@, Transfer) ELSE @]

(* Mutant: one iteration too many. *)
FailedLate(taken) ==
  /\ Attempted(taken)
  /\ \/ /\ call.tries + 1 <= EvmRetries
        /\ call' = [Idle EXCEPT !.pc = "nonce", !.tries = call.tries + 1]
        /\ UNCHANGED result
     \/ /\ call.tries + 1 > EvmRetries
        /\ Return("error")

(* Mutant: an iteration that does not count. *)
FailedUncounted(taken) ==
  /\ Attempted(taken)
  /\ call' = [Idle EXCEPT !.pc = "nonce", !.tries = call.tries]
  /\ UNCHANGED result

(* continue, or return tx, reterr after the last iteration. *)
Failed(taken) ==
  /\ Attempted(taken)
  /\ \/ /\ call.tries + 1 < EvmRetries
        /\ call' = [Idle EXCEPT !.pc = "nonce", !.tries = call.tries + 1]
        /\ UNCHANGED result
     \/ /\ call.tries + 1 >= EvmRetries
        /\ Return("error")

NoAnswer ==
  /\ call.pc \in {"nonce", "price"}
  /\ Failed(FALSE)
  /\ UNCHANGED <<chain, payment, lost, calm>>

(* WithClient goes on to the next node, or gives up after the last. *)
NextNode(taken) ==
  \/ /\ call.node < NumNodes
     /\ call' = [call EXCEPT !.node = @ + 1, !.taken = taken]
     /\ UNCHANGED <<sent, result>>
  \/ /\ call.node = NumNodes
     /\ Failed(taken)

(* Mutant: the loop goes on after a transfer that was accepted. *)
SubmittedGoingOn ==
  /\ call.pc = "transfer"
  /\ Acceptable(call.node, Transfer)
  /\ Add(call.node, Transfer)
  /\ Failed(TRUE)
  /\ UNCHANGED <<mined, height, payment, lost, calm>>

Submitted ==
  /\ call.pc = "transfer"
  /\ Acceptable(call.node, Transfer)
  /\ Add(call.node, Transfer)
  /\ Attempted(TRUE)
  /\ Return("sent")
  /\ UNCHANGED <<mined, height, payment, lost, calm>>

(* The node cannot be reached, or does not take the transfer. *)
Refused ==
  /\ call.pc = "transfer"
  /\ NextNode(call.taken)
  /\ UNCHANGED <<chain, payment, lost, calm>>

AnswerLost ==
  /\ call.pc = "transfer"
  /\ lost[payment] < MaxLostAnswers
  /\ lost' = [lost EXCEPT ![payment] = @ + 1]
  /\ Acceptable(call.node, Transfer)
  /\ Add(call.node, Transfer)
  /\ NextNode(TRUE)
  /\ UNCHANGED <<mined, height, payment, calm>>

Sending ==
  \/ GetNonce \/ GetPrice \/ NoAnswer
  \/ Submitted \/ Refused \/ AnswerLost

Next == Begin \/ Sending \/ Gossip \/ Mine \/ SeeBlock

Spec == Init /\ [][Next]_vars

(* Transactions spread, blocks are made and seen. *)
Fairness == WF_vars(Gossip) /\ WF_vars(Mine) /\ WF_vars(SeeBlock)

FairSpec == Spec /\ Fairness

(* The chain, the nodes and the call have their types. *)
TypeOK ==
  /\ mined \in Seq(Tx)
  /\ height \in [Nodes -> 0 .. Len(mined)]
  /\ pool \in [Nodes -> SUBSET Tx]
  /\ payment \in 0 .. MaxPayments
  /\ call \in Locals
  /\ sent \in [Payments -> Seq(Tx)]
  /\ \A p \in Payments : Len(sent[p]) <= EvmRetries
  /\ result \in [Payments -> {"none", "sent", "error"}]
  /\ lost \in [Payments -> 0 .. MaxLostAnswers]
  /\ calm \in BOOLEAN

(***************************************************************************)
(* Safety.                                                                 *)
(***************************************************************************)
MinedFor(p) == {i \in DOMAIN mined : mined[i].payment = p}

(* processExecution.go:327-331: an iteration that fails is repeated with a *)
(* nonce asked for again.  A payment is in the chain once more than        *)
(* intended only for an answer that was lost, however the nodes disagree.  *)
MinedOncePerLostAnswer ==
  \A p \in Payments : Cardinality(MinedFor(p)) <= 1 + lost[p]

(* processExecution.go:336: after an error the worker returns the deposit, *)
(* so nothing may be on its way, at any node, unless an answer was lost.   *)
ErrorMeansUnsent ==
  \A p \in Payments :
    result[p] = "error" /\ lost[p] = 0 =>
      /\ MinedFor(p) = {}
      /\ \A n \in Nodes : \A t \in pool[n] : t.payment # p

(***************************************************************************)
(* Liveness: what sendWBGL reports as sent is paid in the end, if the      *)
(* pause between two payments is long enough for the nodes to agree.  If   *)
(* it is not, a node that has not seen a payment gives its nonce away      *)
(* again, and of two payments with one nonce the chain takes one.          *)
(***************************************************************************)
Displaced(p) ==
  \E i \in DOMAIN mined, k \in DOMAIN sent[p] :
    mined[i].nonce = sent[p][k].nonce /\ mined[i].payment # p

SentIsMined ==
  \A p \in Payments :
    result[p] = "sent" ~> (MinedFor(p) # {} \/ (~ calm /\ Displaced(p)))

(***************************************************************************)
(* Refinement: the attempts of a call are those of PaymentCalls.           *)
(***************************************************************************)
Calls == INSTANCE PaymentCalls WITH
  paying   <- IF call.pc = "idle" THEN 0 ELSE payment,
  tries    <- call.tries,
  accepted <- [p \in Payments |-> Len(sent[p])]

(* processExecution.go:271-337: Paid, Refused and AnswerLost of            *)
(* Executor.tla are all that a call of sendWBGL can come to.               *)
SendsAsAssumed == Calls!Spec

=============================================================================
