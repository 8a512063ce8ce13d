--------------------------- MODULE SendWBGLProofs ---------------------------
(***************************************************************************)
(* Proofs about a series of WBGL payments: TypeOK and the inductive        *)
(* invariant SendInv of SendInvariants, from them the safety properties of *)
(* SendWBGL and that it implements PaymentCalls, for every number of       *)
(* nodes, retries and payments, however the nodes disagree.                *)
(***************************************************************************)
EXTENDS SendInvariants, TLAPS, FiniteSetTheorems, WellFoundedInduction

(* A set of naturals has a least element. *)
LEMMA LeastNatural ==
  ASSUME NEW S \in SUBSET Nat, S # {}
  PROVE  \E k \in S : \A j \in S : k <= j
<1>1. PICK k \in S : \A j \in S : ~ (<<j, k>> \in OpToRel(<, Nat))
  BY NatLessThanWellFounded, WFMin, Zenon
<1>2. ASSUME NEW j \in S PROVE k <= j
  <2>1. ~ (j < k)
    BY <1>1, <1>2, Zenon DEF OpToRel
  <2> QED
    BY <1>2, <2>1, SMT
<1> QED
  BY <1>2

(* Facts of arithmetic and typing that the steps below share.              *)
LEMMA Bounds ==
  ASSUME TypeOK
  PROVE  /\ payment \in Nat /\ MaxPayments \in Nat /\ payment <= MaxPayments
         /\ EvmRetries \in Nat /\ EvmRetries > 0
         /\ call.tries \in Nat /\ call.tries < EvmRetries
         /\ call.nonce \in Nat /\ call.node \in Nodes /\ call.taken \in BOOLEAN
         /\ \A n \in Nodes : height[n] \in Nat /\ height[n] <= Len(mined)
         /\ Len(mined) \in Nat /\ DOMAIN mined = 1 .. Len(mined)
         /\ \A p \in Payments : lost[p] \in Nat /\ sent[p] \in Seq(Tx)
  BY SendWBGLAssumption, SMT DEF TypeOK, Locals, Payments

LEMMA TransfersTyped ==
  ASSUME TypeOK
  PROVE  /\ \A tx \in Tx : tx.payment \in Payments /\ tx.nonce \in Nat
         /\ \A n \in Nodes : \A tx \in pool[n] : tx \in Tx
         /\ \A i \in DOMAIN mined : mined[i] \in Tx
         /\ \A p \in Payments : \A k \in DOMAIN sent[p] : sent[p][k] \in Tx
<1>1. \A tx \in Tx : tx.payment \in Payments /\ tx.nonce \in Nat
  BY SMT DEF Tx
<1>2. \A i \in DOMAIN mined : mined[i] \in Tx
  BY SMT DEF TypeOK
<1>3. ASSUME NEW p \in Payments, NEW k \in DOMAIN sent[p] PROVE sent[p][k] \in Tx
  <2>1. sent[p] \in Seq(Tx)
    BY DEF TypeOK
  <2> QED
    BY <1>3, <2>1, SMT
<1> QED
  BY <1>1, <1>2, <1>3 DEF TypeOK

LEMMA BegunFacts ==
  ASSUME TypeOK, InOrder
  PROVE  Begun \in Nat /\ Begun <= MaxPayments * EvmRetries
<1> DEFINE all    == MaxPayments * EvmRetries
           others == (MaxPayments - payment) * EvmRetries
           with   == payment * EvmRetries
           before == (payment - 1) * EvmRetries
<1>1. all = with + others /\ with = before + EvmRetries
  <2>1. all = with + others
    BY Bounds, SMT
  <2>2. with = before + EvmRetries
    BY Bounds, SMT
  <2> QED
    BY <2>1, <2>2
<1>2. /\ others \in Nat /\ with \in Nat
      /\ payment # 0 => before \in Nat
  <2>1. MaxPayments - payment \in Nat /\ (payment # 0 => payment - 1 \in Nat)
    BY Bounds, SMT
  <2>2. \A a, b \in Nat : a * b \in Nat
    BY SMT
  <2> QED
    BY <2>1, <2>2, Bounds
<1>3. Begun = IF Busy THEN before + call.tries ELSE with
  BY DEF Begun
<1>4. Busy => payment # 0
  BY DEF InOrder
<1> HIDE DEF all, others, with, before
<1>5. EvmRetries \in Nat /\ call.tries \in Nat /\ call.tries < EvmRetries
  BY Bounds
<1>6. ASSUME Busy PROVE Begun \in Nat /\ Begun <= all
  BY <1>1, <1>2, <1>3, <1>4, <1>5, <1>6, SMT
<1>7. ASSUME ~ Busy PROVE Begun \in Nat /\ Begun <= all
  BY <1>1, <1>2, <1>3, <1>7, SMT
<1> QED
  BY <1>6, <1>7 DEF all

(* Every nonce in use belongs to an attempt begun before, so each node has *)
(* a pending nonce to offer, and it is at most the number of those.        *)
LEMMA PendingNonceFacts ==
  ASSUME TypeOK, SendInv, ~ call.taken, NEW n \in Nodes
  PROVE  PendingNonceAt(n) \in Nat /\ PendingNonceAt(n) <= Begun
<1> DEFINE F(k) == \A t \in pool[n] : t.nonce # k
           S == {k \in Nat : k >= height[n] /\ F(k)}
           P(k) == /\ F(k)
                   /\ \A j \in height[n] .. k - 1 : \E t \in pool[n] : t.nonce = j
           D == height[n] .. Len(mined) + MaxPayments * EvmRetries
<1>1. Begun \in Nat /\ Begun <= MaxPayments * EvmRetries
  BY BegunFacts DEF SendInv
<1>2. ASSUME NEW tx, tx \in pool[n] \/ \E i \in DOMAIN mined : tx = mined[i]
      PROVE  tx.nonce < Begun /\ tx \in Tx
  <2>1. tx \in Tx
    BY <1>2, SMT DEF TypeOK
  <2>2. Concluded(tx) /\ tx.payment \in Payments
    BY <1>2, <2>1, SMT DEF SendInv, FromAttempts, Attempt, UnderWay, Tx
  <2> QED
    BY <2>1, <2>2 DEF SendInv, NoncesCounted, Concluded
<1>3. height[n] <= Begun
  <2>1. ASSUME Len(mined) # 0 PROVE Len(mined) <= Begun
    <3>1. Len(mined) \in DOMAIN mined /\ mined[Len(mined)].nonce = Len(mined) - 1
      BY <2>1, Bounds, SMT DEF SendInv, FromAttempts
    <3>2. mined[Len(mined)].nonce < Begun
      BY <1>2, <3>1
    <3> QED
      BY <1>1, <3>1, <3>2, Bounds, SMT
  <2> QED
    BY <1>1, <2>1, Bounds, SMT
<1>4. Begun \in S
  BY <1>1, <1>2, <1>3, SMT
<1>5. PICK m \in S : \A j \in S : m <= j
  BY <1>4, LeastNatural
<1>6. m \in D /\ P(m)
  <2>1. m <= Begun /\ m \in Nat /\ height[n] <= m /\ F(m)
    BY <1>4, <1>5
  <2>2. m \in D
    BY <1>1, <2>1, Bounds, SMT
  <2>3. ASSUME NEW j \in height[n] .. m - 1 PROVE \E t \in pool[n] : t.nonce = j
    <3>1. j \in Nat /\ j >= height[n] /\ ~ (m <= j)
      BY <2>1, <2>3, Bounds, SMT
    <3> QED
      BY <1>5, <3>1
  <2> QED
    BY <2>1, <2>2, <2>3
<1>7. PendingNonceAt(n) \in D /\ P(PendingNonceAt(n))
  <2>1. PendingNonceAt(n) = CHOOSE k \in D : P(k)
    BY DEF PendingNonceAt
  <2> HIDE DEF P, D
  <2> QED
    BY <1>6, <2>1
<1>8. PendingNonceAt(n) \in Nat /\ PendingNonceAt(n) >= height[n]
  BY <1>1, <1>7, Bounds, SMT
<1>9. ASSUME PendingNonceAt(n) > Begun PROVE FALSE
  <2>1. Begun \in height[n] .. PendingNonceAt(n) - 1
    BY <1>1, <1>3, <1>8, <1>9, Bounds, SMT
  <2>2. PICK t \in pool[n] : t.nonce = Begun
    BY <1>7, <2>1
  <2> QED
    BY <1>1, <1>2, <2>2, SMT
<1> HIDE DEF P, D, S
<1> QED
  BY <1>1, <1>8, <1>9, SMT

(***************************************************************************)
(* The nodes and the chain: Gossip, Mine and SeeBlock.                     *)
(***************************************************************************)

(* What a node takes over is among what was attempted, and so is a block.  *)
LEMMA NodesStep ==
  ASSUME TypeOK, SendInv, Gossip \/ Mine \/ SeeBlock
  PROVE  TypeOK' /\ SendInv'
<1>1. UNCHANGED <<payment, call, sent, result, lost, calm>>
  BY DEF Gossip, Mine, SeeBlock
<1>2. /\ mined \in Seq(Tx) /\ pool \in [Nodes -> SUBSET Tx]
      /\ height \in [Nodes -> 0 .. Len(mined)]
  BY DEF TypeOK
<1>3. \A tx : Attempt(tx)' <=> Attempt(tx)
  BY <1>1 DEF Attempt, Concluded, UnderWay, Transfer
<1>4. InOrder' /\ AttemptsCounted' /\ NoncesCounted'
  BY <1>1
     DEF SendInv, InOrder, AttemptsCounted, NoncesCounted, Busy, AcceptedOf, Begun
<1>5. CASE Gossip
  <2>1. PICK m \in Nodes, n \in Nodes : \E tx \in pool[m] : Add(n, tx)
    BY <1>5 DEF Gossip
  <2>2. PICK tx \in pool[m] : Add(n, tx)
    BY <2>1
  <2>3. UNCHANGED <<mined, height>>
    BY <1>5 DEF Gossip
  <2>4. pool' = [pool EXCEPT ![n] = {t \in pool[n] : t.nonce # tx.nonce} \union {tx}]
    BY <2>2 DEF Add
  <2>5. pool' \in [Nodes -> SUBSET Tx]
    BY <1>2, <2>2, <2>4
  <2>6. ASSUME NEW k \in Nodes, NEW t \in pool'[k] PROVE Attempt(t)
    BY <1>2, <2>2, <2>4, <2>6 DEF SendInv, FromAttempts
  <2>7. FromAttempts'
    BY <1>3, <2>3, <2>6 DEF SendInv, FromAttempts
  <2> QED
    BY <1>1, <1>4, <2>3, <2>5, <2>7 DEF TypeOK, SendInv
<1>6. CASE Mine
  <2>0. PICK n \in Nodes : \E tx \in pool[n] :
          tx.nonce = Len(mined) /\ mined' = Append(mined, tx)
    BY <1>6 DEF Mine
  <2>1. PICK tx \in pool[n] : tx.nonce = Len(mined) /\ mined' = Append(mined, tx)
    BY <2>0
  <2>2. UNCHANGED <<height, pool>>
    BY <1>6 DEF Mine
  <2>3. tx \in Tx
    BY <1>2, <2>1
  <2>4. /\ mined' \in Seq(Tx) /\ Len(mined') = Len(mined) + 1 /\ Len(mined) \in Nat
        /\ DOMAIN mined' = 1 .. Len(mined) + 1
        /\ mined'[Len(mined) + 1] = tx
        /\ \A i \in 1 .. Len(mined) : mined'[i] = mined[i] /\ i \in DOMAIN mined
    BY <1>2, <2>1, <2>3, SMT
  <2>5. height' \in [Nodes -> 0 .. Len(mined')]
    BY <1>2, <2>2, <2>4, SMT
  <2>6. ASSUME NEW i \in DOMAIN mined'
        PROVE  Attempt(mined'[i]) /\ mined'[i].nonce = i - 1
    <3>1. CASE i \in 1 .. Len(mined)
      BY <2>4, <3>1 DEF SendInv, FromAttempts
    <3>2. CASE i = Len(mined) + 1
      <4>1. Attempt(tx) /\ tx.nonce = i - 1
        BY <2>1, <2>4, <3>2, SMT DEF SendInv, FromAttempts
      <4> QED
        BY <2>4, <3>2, <4>1
    <3> QED
      BY <2>4, <3>1, <3>2, SMT
  <2>7. FromAttempts'
    BY <1>3, <2>2, <2>6 DEF SendInv, FromAttempts
  <2> QED
    BY <1>1, <1>4, <2>2, <2>4, <2>5, <2>7 DEF TypeOK, SendInv
<1>7. CASE SeeBlock
  <2>1. PICK n \in Nodes :
          /\ height[n] < Len(mined)
          /\ height' = [height EXCEPT ![n] = height[n] + 1]
          /\ pool' = [pool EXCEPT ![n] = {t \in pool[n] : t.nonce > height[n]}]
    BY <1>7, Zenon DEF SeeBlock
  <2>2. UNCHANGED mined
    BY <1>7 DEF SeeBlock
  <2>3. height' \in [Nodes -> 0 .. Len(mined)]
    BY <1>2, <2>1, Bounds, SMT
  <2>4. pool' \in [Nodes -> SUBSET Tx]
    BY <1>2, <2>1
  <2>5. \A k \in Nodes : pool'[k] \subseteq pool[k]
    BY <1>2, <2>1
  <2>6. FromAttempts'
    BY <1>3, <2>2, <2>5 DEF SendInv, FromAttempts
  <2> QED
    BY <1>1, <1>4, <2>2, <2>3, <2>4, <2>6 DEF TypeOK, SendInv
<1> QED
  BY <1>5, <1>6, <1>7

(***************************************************************************)
(* The call.                                                               *)
(***************************************************************************)

(* A step of sendWBGL that leaves the nodes and the attempts alone.        *)
LEMMA AskingStep ==
  ASSUME TypeOK, SendInv, ~ call.taken, ~ call'.taken,
         UNCHANGED <<chain, sent, result, lost, calm>>
  PROVE  FromAttempts'
<1>1. \A tx : Attempt(tx) => Attempt(tx)'
  BY DEF Attempt, Concluded, UnderWay
<1> QED
  BY <1>1 DEF SendInv, FromAttempts, chain

(* The locals between two calls, and the first values of a call. *)
LEMMA IdleLocals ==
  /\ Idle \in Locals /\ 1 \in Nodes /\ 0 \in 0 .. EvmRetries - 1
  /\ Idle.pc = "idle" /\ Idle.taken = FALSE
<1>1. 1 \in Nodes /\ 0 \in 0 .. EvmRetries - 1
  BY SendWBGLAssumption, SMT DEF Nodes
<1> QED
  BY <1>1, SMT DEF Idle, Locals

(* The next iteration. *)
LEMMA AgainLocals ==
  ASSUME NEW t \in 0 .. EvmRetries - 1
  PROVE  LET c == [Idle EXCEPT !.pc = "nonce", !.tries = t]
         IN  c \in Locals /\ c.pc = "nonce" /\ c.tries = t /\ c.taken = FALSE
<1> DEFINE c == [Idle EXCEPT !.pc = "nonce", !.tries = t]
<1>1. c \in Locals
  BY IdleLocals, Zenon DEF Locals
<1>2. c.pc = "nonce" /\ c.tries = t
  BY IdleLocals, SMT DEF Locals
<1>3. c.taken = FALSE
  BY IdleLocals, Zenon DEF Locals
<1> QED
  BY <1>1, <1>2, <1>3

LEMMA BeginStep ==
  ASSUME TypeOK, SendInv, Begin
  PROVE  TypeOK' /\ SendInv'
<1>1. /\ call.pc = "idle" /\ payment < MaxPayments /\ payment' = payment + 1
      /\ call' \in Locals /\ call'.pc = "nonce" /\ call'.tries = 0 /\ ~ call'.taken
      /\ UNCHANGED <<chain, sent, result, lost, calm>>
  <2>1. /\ [Idle EXCEPT !.pc = "nonce"] \in Locals
        /\ [Idle EXCEPT !.pc = "nonce"].taken = FALSE
    BY IdleLocals, Zenon DEF Locals
  <2>2. [Idle EXCEPT !.pc = "nonce"].pc = "nonce" /\ [Idle EXCEPT !.pc = "nonce"].tries = 0
    BY SMT DEF Idle
  <2> QED
    BY <2>1, <2>2 DEF Begin
<1>2. ~ call.taken
  BY <1>1 DEF SendInv, InOrder
<1>3. payment + 1 \in 0 .. MaxPayments
  BY <1>1, Bounds, SMT
<1>4. TypeOK'
  BY <1>1, <1>3 DEF TypeOK, chain
<1>5. FromAttempts'
  BY <1>1, <1>2, AskingStep
<1>6. InOrder'
  <2>1. payment + 1 \in Payments /\ result[payment + 1] = "none" /\ payment + 1 # 0
    BY <1>1, Bounds, SMT DEF Payments, SendInv, InOrder
  <2>2. \A p \in Payments : p > payment + 1 => p > payment
    BY Bounds, SMT DEF Payments
  <2> QED
    BY <1>1, <2>1, <2>2 DEF SendInv, InOrder, Busy
<1>7. AttemptsCounted'
  <2>1. ASSUME NEW p \in Payments
        PROVE  AcceptedOf(p)' = AcceptedOf(p)
    BY <1>1, <1>2 DEF AcceptedOf
  <2>2. Len(sent[payment + 1]) = 0
    BY <1>1, Bounds, SMT DEF SendInv, InOrder, Payments
  <2>3. 0 <= 0
    OBVIOUS
  <2> QED
    BY <1>1, <2>1, <2>2, <2>3 DEF SendInv, AttemptsCounted
<1>8. NoncesCounted'
  <2>1. Begun = payment * EvmRetries /\ Begun' = ((payment + 1) - 1) * EvmRetries + 0
    BY <1>1 DEF Begun, Busy
  <2>2. Begun' = Begun
    <3>1. (payment + 1) - 1 = payment
      BY Bounds, SMT
    <3>2. payment * EvmRetries \in Nat
      BY Bounds, SMT
    <3> QED
      BY <2>1, <3>1, <3>2, SMT
  <2> QED
    BY <1>1, <2>2 DEF SendInv, NoncesCounted
<1> QED
  BY <1>4, <1>5, <1>6, <1>7, <1>8 DEF SendInv

LEMMA GetNonceStep ==
  ASSUME TypeOK, SendInv, GetNonce
  PROVE  TypeOK' /\ SendInv'
<1>1. PICK n \in Nodes :
        call' = [call EXCEPT !.pc = "price", !.nonce = PendingNonceAt(n)]
  BY DEF GetNonce
<1>2. PICK k : k = PendingNonceAt(n)
  OBVIOUS
<1>3. call.pc = "nonce" /\ UNCHANGED <<chain, payment, sent, result, lost, calm>>
  BY DEF GetNonce
<1>4. ~ call.taken
  BY <1>3 DEF SendInv, InOrder
<1>5. k \in Nat /\ k <= Begun
  BY <1>2, <1>4, PendingNonceFacts
<1>6. /\ call'.pc = "price" /\ call'.nonce = k /\ call'.tries = call.tries
      /\ call'.taken = call.taken /\ call' = [call EXCEPT !.pc = "price", !.nonce = k]
  BY <1>1, <1>2, SMT DEF TypeOK, Locals
<1>7. TypeOK'
  <2>1. call' \in Locals
    BY <1>5, <1>6, Zenon DEF TypeOK, Locals
  <2> QED
    BY <1>3, <2>1 DEF TypeOK, chain
<1>8. FromAttempts'
  BY <1>3, <1>4, <1>6, AskingStep
<1>9. InOrder' /\ AttemptsCounted'
  BY <1>3, <1>4, <1>6 DEF SendInv, InOrder, AttemptsCounted, AcceptedOf, Busy
<1>10. NoncesCounted'
  <2>1. Begun' = Begun
    BY <1>3, <1>6 DEF Begun, Busy
  <2> QED
    BY <1>3, <1>5, <1>6, <2>1 DEF SendInv, NoncesCounted
<1> QED
  BY <1>7, <1>8, <1>9, <1>10 DEF SendInv

LEMMA GetPriceStep ==
  ASSUME TypeOK, SendInv, GetPrice
  PROVE  TypeOK' /\ SendInv'
<1>1. PICK p \in Prices :
        call' = [call EXCEPT !.pc = "transfer", !.price = p, !.node = 1]
  BY DEF GetPrice
<1>2. call.pc = "price" /\ UNCHANGED <<chain, payment, sent, result, lost, calm>>
  BY DEF GetPrice
<1>3. ~ call.taken
  BY <1>2 DEF SendInv, InOrder
<1>4. /\ call'.pc = "transfer" /\ call'.nonce = call.nonce /\ call'.tries = call.tries
      /\ call'.taken = call.taken /\ call'.price = p
  BY <1>1, SMT DEF TypeOK, Locals
<1>6. TypeOK'
  <2>1. call' \in Locals
    BY <1>1, IdleLocals, Zenon DEF TypeOK, Locals
  <2> QED
    BY <1>2, <2>1 DEF TypeOK, chain
<1>7. FromAttempts'
  BY <1>2, <1>3, <1>4, AskingStep
<1>8. InOrder' /\ AttemptsCounted'
  BY <1>2, <1>3, <1>4 DEF SendInv, InOrder, AttemptsCounted, AcceptedOf, Busy
<1>9. NoncesCounted'
  <2>1. Begun' = Begun
    BY <1>2, <1>4 DEF Begun, Busy
  <2> QED
    BY <1>2, <1>4, <2>1 DEF SendInv, NoncesCounted
<1> QED
  BY <1>6, <1>7, <1>8, <1>9 DEF SendInv

(***************************************************************************)
(* The outcomes of a transfer.  In each of them at most the transfer of    *)
(* this iteration is new at a node, and it is then counted as accepted: b. *)
(***************************************************************************)
Outcome(b) ==
  /\ Busy
  /\ b \in BOOLEAN
  /\ UNCHANGED <<mined, height, payment, calm>>
  /\ pool' \in [Nodes -> SUBSET Tx]
  /\ \A n \in Nodes : \A tx \in pool'[n] : tx \in pool[n] \/ (b /\ tx = Transfer)
  /\ lost' \in [Payments -> 0 .. MaxLostAnswers]
  /\ \A p \in Payments : p # payment => lost'[p] = lost[p]
  /\ call.taken => b
  /\ b => call.pc = "transfer"
  /\ Len(sent[payment]) + (IF b THEN 1 ELSE 0)
       <= lost'[payment] + (IF result'[payment] = "sent" THEN 1 ELSE 0)

(* What an outcome has in common: the payment under way and its transfer. *)
LEMMA PaymentUnderWay ==
  ASSUME TypeOK, SendInv, Busy
  PROVE  /\ payment \in Payments /\ payment # 0 /\ result[payment] = "none"
         /\ sent[payment] \in Seq(Tx) /\ Len(sent[payment]) \in Nat
         /\ Len(sent[payment]) <= call.tries
         /\ Len(sent[payment]) + (IF call.taken THEN 1 ELSE 0) <= lost[payment]
         /\ Len(sent[payment]) <= lost[payment]
         /\ call.pc = "transfer" => Transfer \in Tx /\ call.nonce <= Begun
<1>1. payment # 0 /\ result[payment] = "none"
  BY DEF SendInv, InOrder
<1>2. payment \in Payments
  BY <1>1, Bounds, SMT DEF Payments
<1>3. sent[payment] \in Seq(Tx) /\ Len(sent[payment]) \in Nat
  BY <1>2, Bounds, SMT
<1>4. /\ AcceptedOf(payment) <= lost[payment] + 0
      /\ Len(sent[payment]) <= call.tries
  BY <1>1, <1>2 DEF SendInv, AttemptsCounted
<1>5. Len(sent[payment]) + (IF call.taken THEN 1 ELSE 0) <= lost[payment]
  <2>1. AcceptedOf(payment) = Len(sent[payment]) + (IF call.taken THEN 1 ELSE 0)
    BY DEF AcceptedOf
  <2>2. lost[payment] + 0 = lost[payment]
    BY <1>2, Bounds, SMT
  <2> QED
    BY <1>4, <2>1, <2>2
<1>6. ASSUME call.pc = "transfer" PROVE Transfer \in Tx /\ call.nonce <= Begun
  BY <1>2, <1>6, Bounds DEF SendInv, InOrder, NoncesCounted, Transfer, Tx
<1> QED
  <2>1. (IF call.taken THEN 1 ELSE 0) \in {0, 1}
    OBVIOUS
  <2>2. PICK one : one = IF call.taken THEN 1 ELSE 0
    OBVIOUS
  <2>3. one \in {0, 1} /\ Len(sent[payment]) + one <= lost[payment]
    BY <1>5, <2>1, <2>2
  <2>4. Len(sent[payment]) <= lost[payment]
    BY <1>2, <1>3, <2>3, Bounds, SMT
  <2> QED
    BY <1>1, <1>2, <1>3, <1>4, <1>5, <1>6, <2>4

(* WithClient goes on to the next node. *)
LEMMA NextNodeStep ==
  ASSUME TypeOK, SendInv, NEW b, Outcome(b), call.pc = "transfer",
         NEW m \in Nodes, call' = [call EXCEPT !.node = m, !.taken = b],
         UNCHANGED <<sent, result>>
  PROVE  TypeOK' /\ SendInv'
<1>1. /\ call'.pc = "transfer" /\ call'.nonce = call.nonce /\ call'.price = call.price
      /\ call'.tries = call.tries /\ call'.taken = b
  BY SMT DEF TypeOK, Locals
<1>2. call' \in Locals
  BY Zenon DEF TypeOK, Locals, Outcome
<1>3. TypeOK'
  BY <1>2 DEF TypeOK, Outcome
<1>4. Transfer' = Transfer
  BY <1>1 DEF Transfer, Outcome
<1>5. \A tx : Attempt(tx) => Attempt(tx)'
  BY <1>1, <1>4 DEF Attempt, Concluded, UnderWay, Outcome
<1>6. FromAttempts'
  <2>1. ASSUME NEW n \in Nodes, NEW tx \in pool'[n] PROVE Attempt(tx)'
    <3>1. CASE tx \in pool[n]
      BY <1>5, <3>1 DEF SendInv, FromAttempts
    <3>2. CASE b /\ tx = Transfer
      BY <1>1, <1>4, <3>2 DEF Attempt, UnderWay
    <3> QED
      BY <2>1, <3>1, <3>2 DEF Outcome
  <2> QED
    BY <1>5, <2>1 DEF SendInv, FromAttempts, Outcome
<1>7. InOrder'
  BY <1>1 DEF SendInv, InOrder, Busy, Outcome
<1>8. AttemptsCounted'
  <2>1. ASSUME NEW p \in Payments, p # payment
        PROVE  AcceptedOf(p)' <= lost'[p] + (IF result'[p] = "sent" THEN 1 ELSE 0)
    <3>1. AcceptedOf(p)' = AcceptedOf(p)
      BY <2>1 DEF AcceptedOf, Outcome
    <3> QED
      BY <2>1, <3>1 DEF SendInv, AttemptsCounted, Outcome
  <2>2. ASSUME NEW p \in Payments, p = payment
        PROVE  AcceptedOf(p)' = Len(sent[payment]) + (IF b THEN 1 ELSE 0)
    BY <1>1, <2>2 DEF AcceptedOf, Outcome
  <2>3. Len(sent[payment]) <= call.tries
    BY PaymentUnderWay DEF Outcome
  <2>4. payment' = payment /\ sent' = sent
    BY DEF Outcome
  <2>5. ASSUME NEW p \in Payments
        PROVE  /\ AcceptedOf(p)' <= lost'[p] + (IF result'[p] = "sent" THEN 1 ELSE 0)
               /\ p = payment' => Len(sent'[p]) <= call'.tries
    <3>1. CASE p = payment
      BY <1>1, <2>2, <2>3, <2>4, <3>1 DEF Outcome
    <3>2. CASE p # payment
      BY <2>1, <2>4, <3>2
    <3> QED
      BY <3>1, <3>2
  <2> QED
    BY <2>5 DEF AttemptsCounted
<1>9. NoncesCounted'
  <2>1. Begun' = Begun
    BY <1>1 DEF Begun, Busy, Outcome
  <2> QED
    BY <1>1, <2>1 DEF SendInv, NoncesCounted
<1> QED
  BY <1>3, <1>6, <1>7, <1>8, <1>9 DEF SendInv

(* The iteration ends: the call begins another, or returns. *)
Ends ==
  \/ /\ call' \in Locals /\ call'.pc = "nonce" /\ call'.tries = call.tries + 1
     /\ call'.taken = FALSE
     /\ UNCHANGED result
  \/ \E answer \in {"sent", "error"} : Return(answer)

LEMMA FailedEnds ==
  ASSUME TypeOK, NEW b, Failed(b)
  PROVE  Ends /\ (result' = result \/ result' = [result EXCEPT ![payment] = "error"])
<1>1. CASE /\ call.tries + 1 < EvmRetries
           /\ call' = [Idle EXCEPT !.pc = "nonce", !.tries = call.tries + 1]
           /\ UNCHANGED result
  <2>1. call.tries + 1 \in 0 .. EvmRetries - 1
    BY <1>1, Bounds, SMT
  <2> QED
    BY <1>1, <2>1, AgainLocals DEF Ends
<1>2. CASE Return("error")
  BY <1>2 DEF Ends, Return
<1> QED
  BY <1>1, <1>2 DEF Failed

LEMMA EndStep ==
  ASSUME TypeOK, SendInv, NEW b, Outcome(b), Attempted(b), Ends
  PROVE  TypeOK' /\ SendInv'
<1> DEFINE s == sent[payment]
           one == IF b THEN 1 ELSE 0
<1>0. /\ payment \in Payments /\ payment # 0 /\ result[payment] = "none"
      /\ s \in Seq(Tx) /\ Len(s) \in Nat /\ Len(s) <= call.tries
      /\ call.pc = "transfer" => Transfer \in Tx /\ call.nonce <= Begun
  BY PaymentUnderWay DEF Outcome
<1>1. /\ call' \in Locals /\ call'.pc \in {"nonce", "idle"} /\ call'.taken = FALSE
      /\ call'.pc # "nonce" => call' = Idle
      /\ call'.pc = "nonce" => call'.tries = call.tries + 1 /\ result' = result
      /\ result' \in [Payments -> {"none", "sent", "error"}]
      /\ \A p \in Payments : p # payment => result'[p] = result[p]
  <2>1. CASE /\ call' \in Locals /\ call'.pc = "nonce" /\ call'.tries = call.tries + 1
             /\ call'.taken = FALSE
             /\ UNCHANGED result
    BY <2>1 DEF TypeOK
  <2>2. ASSUME NEW answer \in {"sent", "error"}, Return(answer)
        PROVE  /\ call' = Idle
               /\ result' \in [Payments -> {"none", "sent", "error"}]
               /\ \A p \in Payments : p # payment => result'[p] = result[p]
    BY <1>0, <2>2 DEF Return, TypeOK
  <2>3. "nonce" # "idle"
    OBVIOUS
  <2> QED
    BY <2>1, <2>2, <2>3, IdleLocals, Zenon DEF Ends
<1>2. /\ sent' = [sent EXCEPT ![payment] = IF b THEN Append(s, Transfer) ELSE s]
      /\ sent'[payment] = IF b THEN Append(s, Transfer) ELSE s
      /\ \A p \in Payments : p # payment => sent'[p] = sent[p]
  BY <1>0 DEF Attempted, TypeOK
<1>3. /\ sent'[payment] \in Seq(Tx)
      /\ Len(sent'[payment]) = Len(s) + one
      /\ \A k \in DOMAIN s : k \in DOMAIN sent'[payment] /\ sent'[payment][k] = s[k]
      /\ \A k \in DOMAIN sent'[payment] :
           \/ k \in DOMAIN s /\ sent'[payment][k] = s[k]
           \/ b /\ sent'[payment][k] = Transfer
      /\ b => \E k \in DOMAIN sent'[payment] : sent'[payment][k] = Transfer
  <2>1. CASE b
    <3>1. Transfer \in Tx
      BY <1>0, <2>1 DEF Outcome
    <3>2. PICK tx : tx = Transfer
      OBVIOUS
    <3>3. sent'[payment] = Append(s, tx) /\ tx \in Tx
      BY <1>2, <2>1, <3>1, <3>2
    <3>4. /\ Append(s, tx) \in Seq(Tx) /\ Len(Append(s, tx)) = Len(s) + 1
          /\ DOMAIN s = 1 .. Len(s) /\ DOMAIN Append(s, tx) = 1 .. Len(s) + 1
          /\ \A k \in 1 .. Len(s) : Append(s, tx)[k] = s[k]
          /\ Append(s, tx)[Len(s) + 1] = tx
      BY <1>0, <3>3, SMT
    <3>5. 1 .. Len(s) + 1 = 1 .. Len(s) \union {Len(s) + 1}
      BY <1>0, SMT
    <3> HIDE DEF s
    <3> QED
      BY <2>1, <3>2, <3>3, <3>4, <3>5
  <2>2. CASE ~ b
    BY <1>0, <1>2, <2>2, SMT
  <2> QED
    BY <2>1, <2>2
<1> HIDE DEF s, one
<1>4. TypeOK'
  <2>1. sent' \in [Payments -> Seq(Tx)]
    BY <1>0, <1>2, <1>3 DEF TypeOK
  <2>2. one \in {0, 1}
    BY DEF one
  <2>3. ASSUME NEW p \in Payments PROVE Len(sent'[p]) <= EvmRetries
    <3>1. CASE p = payment
      BY <1>0, <1>3, <2>2, <3>1, Bounds, SMT
    <3>2. CASE p # payment
      BY <1>2, <3>2 DEF TypeOK
    <3> QED
      BY <3>1, <3>2
  <2> QED
    BY <1>1, <2>1, <2>3 DEF TypeOK, Outcome
<1>5. FromAttempts'
  <2>1. ASSUME NEW tx, tx.payment \in Payments, Attempt(tx) PROVE Attempt(tx)'
    <3>1. CASE Concluded(tx)
      <4>1. PICK k \in DOMAIN sent[tx.payment] : sent[tx.payment][k] = tx
        BY <3>1 DEF Concluded
      <4>2. k \in DOMAIN sent'[tx.payment] /\ sent'[tx.payment][k] = tx
        BY <1>2, <1>3, <2>1, <4>1 DEF s
      <4> QED
        BY <4>2 DEF Attempt, Concluded
    <3>2. CASE UnderWay(tx)
      <4>1. b /\ tx = Transfer /\ tx.payment = payment
        BY <3>2 DEF UnderWay, Outcome, Transfer
      <4> QED
        BY <1>3, <4>1 DEF Attempt, Concluded
    <3> QED
      BY <2>1, <3>1, <3>2 DEF Attempt
  <2>2. ASSUME NEW n \in Nodes, NEW tx \in pool'[n] PROVE Attempt(tx)'
    <3>0. tx.payment \in Payments
      BY SMT DEF Outcome, Tx
    <3>1. CASE tx \in pool[n]
      BY <2>1, <3>0, <3>1 DEF SendInv, FromAttempts
    <3>2. CASE b /\ tx = Transfer
      <4>1. tx.payment = payment
        BY <3>2 DEF Transfer
      <4> QED
        BY <1>3, <3>2, <4>1 DEF Attempt, Concluded
    <3> QED
      BY <2>2, <3>1, <3>2 DEF Outcome
  <2>3. ASSUME NEW i \in DOMAIN mined PROVE Attempt(mined[i])' /\ mined[i].nonce = i - 1
    <3>1. mined[i].payment \in Payments
      BY <2>3, TransfersTyped
    <3>2. PICK tx : tx = mined[i]
      OBVIOUS
    <3>3. mined' = mined
      BY DEF Outcome
    <3> QED
      BY <2>1, <3>1, <3>2, <3>3 DEF SendInv, FromAttempts
  <2>4. mined' = mined
    BY DEF Outcome
  <2> QED
    BY <2>2, <2>3, <2>4 DEF FromAttempts
<1>6. InOrder'
  <2>1. ASSUME NEW p \in Payments, p > payment
        PROVE  sent'[p] = <<>> /\ result'[p] = "none"
    <3>1. p # payment
      BY <1>0, <2>1, Bounds, SMT
    <3> QED
      BY <1>1, <1>2, <2>1, <3>1 DEF SendInv, InOrder
  <2> QED
    BY <1>0, <1>1, <2>1 DEF InOrder, Busy, Outcome
<1>7. AttemptsCounted'
  <2>1. ASSUME NEW p \in Payments, p # payment
        PROVE  AcceptedOf(p)' <= lost'[p] + (IF result'[p] = "sent" THEN 1 ELSE 0)
    <3>1. AcceptedOf(p)' = AcceptedOf(p)
      BY <1>1, <1>2, <2>1 DEF AcceptedOf, Outcome
    <3> QED
      BY <1>1, <2>1, <3>1 DEF SendInv, AttemptsCounted, Outcome
  <2>2. ASSUME NEW p \in Payments, p = payment
        PROVE  AcceptedOf(p)' = Len(s) + one
    <3>1. AcceptedOf(p)' = Len(sent'[payment]) + 0
      BY <1>1, <2>2 DEF AcceptedOf, Outcome
    <3> QED
      BY <1>0, <1>3, <3>1, SMT DEF one
  <2>3. call'.pc = "nonce" => Len(sent'[payment]) <= call'.tries
    <3>1. one \in {0, 1}
      BY DEF one
    <3> QED
      BY <1>0, <1>1, <1>3, <3>1, Bounds, SMT
  <2>4. Len(s) + one <= lost'[payment] + (IF result'[payment] = "sent" THEN 1 ELSE 0)
    BY DEF Outcome, s, one
  <2>5. payment' = payment
    BY DEF Outcome
  <2>6. ASSUME NEW p \in Payments
        PROVE  /\ AcceptedOf(p)' <= lost'[p] + (IF result'[p] = "sent" THEN 1 ELSE 0)
               /\ Busy' /\ p = payment' => Len(sent'[p]) <= call'.tries
    <3>1. CASE p = payment
      <4>1. Busy' => call'.pc = "nonce"
        BY <1>1, Zenon DEF Busy
      <4>2. AcceptedOf(p)' <= lost'[p] + (IF result'[p] = "sent" THEN 1 ELSE 0)
        BY <2>2, <2>4, <3>1, Zenon
      <4>3. Busy' => Len(sent'[p]) <= call'.tries
        BY <2>3, <3>1, <4>1, Zenon
      <4> QED
        BY <4>2, <4>3
    <3>2. CASE p # payment
      BY <2>1, <2>5, <3>2
    <3> QED
      BY <3>1, <3>2
  <2> QED
    BY <2>6 DEF AttemptsCounted
<1>8. Begun \in Nat /\ Begun' \in Nat /\ Begun < Begun'
  <2> DEFINE before == (payment - 1) * EvmRetries
             with   == payment * EvmRetries
  <2>1. before \in Int /\ with = before + EvmRetries
    BY Bounds, SMT
  <2>2. Begun = before + call.tries
    BY DEF Begun, Outcome
  <2>3. Begun' = IF call'.pc = "nonce" THEN before + (call.tries + 1) ELSE with
    BY <1>1 DEF Begun, Busy, Outcome
  <2>4. Begun \in Nat
    BY BegunFacts DEF SendInv
  <2> HIDE DEF before, with
  <2> QED
    BY <2>1, <2>2, <2>3, <2>4, Bounds, SMT
<1>9. NoncesCounted'
  <2>1. ASSUME NEW p \in Payments, NEW k \in DOMAIN sent'[p]
        PROVE  sent'[p][k].nonce < Begun'
    <3>1. ASSUME k \in DOMAIN sent[p], sent'[p][k] = sent[p][k]
          PROVE  sent'[p][k].nonce < Begun'
      <4>1. sent[p][k].nonce < Begun
        BY <3>1 DEF SendInv, NoncesCounted
      <4>2. sent[p][k].nonce \in Nat
        BY <3>1, TransfersTyped
      <4> QED
        BY <1>8, <3>1, <4>1, <4>2, SMT
    <3>2. ASSUME b, sent'[p][k] = Transfer
          PROVE  sent'[p][k].nonce < Begun'
      <4>1. sent'[p][k].nonce = call.nonce
        BY <3>2 DEF Transfer
      <4>2. call.nonce <= Begun /\ call.nonce \in Nat
        BY <1>0, <3>2, Bounds DEF Outcome
      <4> QED
        BY <1>8, <4>1, <4>2, SMT
    <3>3. CASE p = payment
      BY <1>3, <2>1, <3>1, <3>2, <3>3 DEF s
    <3>4. CASE p # payment
      BY <1>2, <2>1, <3>1, <3>4
    <3> QED
      BY <3>3, <3>4
  <2> QED
    BY <1>1, <2>1 DEF NoncesCounted
<1> QED
  BY <1>4, <1>5, <1>6, <1>7, <1>9 DEF SendInv

(* What a node takes is the transfer under way, in place of another.       *)
LEMMA Adding ==
  ASSUME TypeOK, SendInv, call.pc = "transfer", Add(call.node, Transfer)
  PROVE  /\ pool' \in [Nodes -> SUBSET Tx]
         /\ \A n \in Nodes : \A tx \in pool'[n] : tx \in pool[n] \/ tx = Transfer
<1>1. Busy
  BY DEF Busy
<1>2. PICK tx : tx = Transfer
  OBVIOUS
<1>3. tx \in Tx /\ call.node \in Nodes /\ pool \in [Nodes -> SUBSET Tx]
  BY <1>1, <1>2, PaymentUnderWay, Bounds DEF TypeOK
<1>4. PICK n : n = call.node
  OBVIOUS
<1>5. pool' = [pool EXCEPT ![n] = {t \in pool[n] : t.nonce # tx.nonce} \union {tx}]
  BY <1>2, <1>4 DEF Add
<1>6. pool' \in [Nodes -> SUBSET Tx]
  BY <1>3, <1>4, <1>5
<1>7. \A k \in Nodes : \A t \in pool'[k] : t \in pool[k] \/ t = tx
  BY <1>3, <1>4, <1>5
<1> QED
  BY <1>2, <1>6, <1>7

LEMMA NoAnswerStep ==
  ASSUME TypeOK, SendInv, NoAnswer
  PROVE  TypeOK' /\ SendInv'
<1>1. /\ call.pc \in {"nonce", "price"} /\ Failed(FALSE)
      /\ UNCHANGED <<mined, height, pool, payment, lost, calm>>
  BY DEF NoAnswer, chain
<1>2. Busy /\ call.pc # "transfer"
  BY <1>1 DEF Busy
<1>3. ~ call.taken
  BY <1>2 DEF SendInv, InOrder
<1>4. Len(sent[payment]) + 0 <= lost[payment]
  BY <1>2, <1>3, PaymentUnderWay
<1>5. /\ Ends /\ result'[payment] # "sent"
  BY <1>1, <1>2, FailedEnds, PaymentUnderWay DEF TypeOK
<1>6. Len(sent[payment]) + 0
        <= lost'[payment] + (IF result'[payment] = "sent" THEN 1 ELSE 0)
  <2>1. lost[payment] + 0 = lost[payment]
    BY <1>2, PaymentUnderWay, Bounds, SMT
  <2> QED
    BY <1>1, <1>4, <1>5, <2>1
<1>7. Outcome(FALSE)
  BY <1>1, <1>2, <1>3, <1>6 DEF Outcome, TypeOK
<1>8. Attempted(FALSE)
  BY <1>1 DEF Failed
<1> QED
  BY <1>5, <1>7, <1>8, EndStep

LEMMA SubmittedStep ==
  ASSUME TypeOK, SendInv, Submitted
  PROVE  TypeOK' /\ SendInv'
<1>1. /\ call.pc = "transfer" /\ Add(call.node, Transfer)
      /\ Attempted(TRUE) /\ Return("sent")
      /\ UNCHANGED <<mined, height, payment, lost, calm>>
  BY DEF Submitted
<1>2. Busy
  BY <1>1 DEF Busy
<1>3. /\ Len(sent[payment]) <= lost[payment] /\ Len(sent[payment]) \in Nat
      /\ payment \in Payments /\ lost[payment] \in Nat
  BY <1>2, PaymentUnderWay, Bounds
<1>4. result'[payment] = "sent"
  BY <1>1, <1>3 DEF Return, TypeOK
<1>5. Len(sent[payment]) + 1 <= lost[payment] + 1
  BY <1>3, SMT
<1>6. Outcome(TRUE)
  BY <1>1, <1>2, <1>4, <1>5, Adding DEF Outcome, TypeOK
<1>7. Ends
  BY <1>1 DEF Ends
<1> QED
  BY <1>1, <1>6, <1>7, EndStep

(* WithClient: the next node, or the end of the iteration. *)
LEMMA NextNodeOrEnd ==
  ASSUME TypeOK, SendInv, NEW b \in BOOLEAN, call.pc = "transfer", NextNode(b),
         result'[payment] # "sent" => Outcome(b)
  PROVE  TypeOK' /\ SendInv'
<1>1. Busy
  BY DEF Busy
<1>2. payment \in Payments /\ result[payment] = "none"
  BY <1>1, PaymentUnderWay
<1>3. CASE /\ call.node < NumNodes
           /\ call' = [call EXCEPT !.node = @ + 1, !.taken = b]
           /\ UNCHANGED <<sent, result>>
  <2>1. PICK m : m = call.node + 1
    OBVIOUS
  <2>2. m \in Nodes
    BY <1>3, <2>1, Bounds, SendWBGLAssumption, SMT DEF Nodes
  <2>3. call' = [call EXCEPT !.node = m, !.taken = b]
    BY <1>3, <2>1
  <2>4. Outcome(b)
    BY <1>2, <1>3
  <2> QED
    BY <1>3, <2>2, <2>3, <2>4, NextNodeStep
<1>4. CASE Failed(b)
  <2>1. Ends /\ result'[payment] # "sent"
    BY <1>2, <1>4, FailedEnds DEF TypeOK
  <2>2. Attempted(b)
    BY <1>4 DEF Failed
  <2> QED
    BY <2>1, <2>2, EndStep
<1> QED
  BY <1>3, <1>4 DEF NextNode

LEMMA RefusedStep ==
  ASSUME TypeOK, SendInv, Refused
  PROVE  TypeOK' /\ SendInv'
<1>1. /\ call.pc = "transfer" /\ NextNode(call.taken)
      /\ UNCHANGED <<mined, height, pool, payment, lost, calm>>
  BY DEF Refused, chain
<1>2. Busy
  BY <1>1 DEF Busy
<1>3. /\ Len(sent[payment]) + (IF call.taken THEN 1 ELSE 0) <= lost[payment]
      /\ payment \in Payments
  BY <1>2, PaymentUnderWay
<1>4. lost[payment] + 0 = lost[payment]
  BY <1>3, Bounds, SMT
<1>5. result'[payment] # "sent" => Outcome(call.taken)
  BY <1>1, <1>2, <1>3, <1>4, Bounds DEF Outcome, TypeOK
<1> QED
  BY <1>1, <1>5, Bounds, NextNodeOrEnd

LEMMA AnswerLostStep ==
  ASSUME TypeOK, SendInv, AnswerLost
  PROVE  TypeOK' /\ SendInv'
<1>1. /\ call.pc = "transfer" /\ lost[payment] < MaxLostAnswers
      /\ lost' = [lost EXCEPT ![payment] = lost[payment] + 1]
      /\ Add(call.node, Transfer) /\ NextNode(TRUE)
      /\ UNCHANGED <<mined, height, payment, calm>>
  BY DEF AnswerLost
<1>2. Busy
  BY <1>1 DEF Busy
<1>3. /\ Len(sent[payment]) <= lost[payment]
      /\ payment \in Payments /\ Len(sent[payment]) \in Nat /\ lost[payment] \in Nat
  BY <1>2, PaymentUnderWay, Bounds
<1>5. lost[payment] + 1 \in 0 .. MaxLostAnswers
  BY <1>1, <1>3, SendWBGLAssumption, SMT
<1>6. /\ lost' \in [Payments -> 0 .. MaxLostAnswers]
      /\ lost'[payment] = lost[payment] + 1
      /\ \A p \in Payments : p # payment => lost'[p] = lost[p]
  BY <1>1, <1>3, <1>5 DEF TypeOK
<1>7. /\ Len(sent[payment]) + 1 <= lost[payment] + 1
      /\ (lost[payment] + 1) + 0 = lost[payment] + 1
  BY <1>3, SMT
<1>8. result'[payment] # "sent" => Outcome(TRUE)
  BY <1>1, <1>2, <1>6, <1>7, Adding DEF Outcome
<1> QED
  BY <1>1, <1>8, NextNodeOrEnd

(***************************************************************************)
(* The inductive invariant.                                                *)
(***************************************************************************)
LEMMA SendInit ==
  Init => TypeOK /\ SendInv
<1> SUFFICES ASSUME Init PROVE TypeOK /\ SendInv
  OBVIOUS
<1>1. payment = 0 /\ ~ Busy /\ call = Idle /\ 0 \in 0 .. MaxPayments
  BY SendWBGLAssumption, IdleLocals, SMT DEF Init, Busy
<1>2. /\ <<>> \in Seq(Tx) /\ Len(<<>>) = 0 /\ DOMAIN <<>> = {}
      /\ 0 \in 0 .. 0 /\ 0 \in 0 .. MaxLostAnswers /\ 0 <= EvmRetries /\ 0 + 0 <= 0 + 0
  BY SendWBGLAssumption, SMT
<1>3. /\ \A p \in Payments : sent[p] = <<>> /\ result[p] = "none" /\ lost[p] = 0
      /\ \A n \in Nodes : pool[n] = {}
      /\ mined = <<>>
  BY DEF Init
<1>4. TypeOK
  BY <1>1, <1>2, IdleLocals DEF Init, TypeOK
<1>5. InOrder
  BY <1>1, <1>3, IdleLocals DEF InOrder, Busy
<1>6. FromAttempts
  BY <1>2, <1>3 DEF FromAttempts
<1>7. AttemptsCounted
  <2>1. \A p \in Payments : AcceptedOf(p) = 0 + 0
    BY <1>1, <1>2, <1>3, IdleLocals DEF AcceptedOf
  <2> QED
    BY <1>1, <1>2, <1>3, <2>1 DEF AttemptsCounted
<1>8. NoncesCounted
  BY <1>1, <1>2, <1>3, IdleLocals DEF NoncesCounted
<1> QED
  BY <1>4, <1>5, <1>6, <1>7, <1>8 DEF SendInv

LEMMA SendStep ==
  TypeOK /\ SendInv /\ [Next]_vars => TypeOK' /\ SendInv'
<1> SUFFICES ASSUME TypeOK, SendInv, [Next]_vars PROVE TypeOK' /\ SendInv'
  OBVIOUS
<1>1. CASE Begin
  BY <1>1, BeginStep
<1>2. CASE GetNonce
  BY <1>2, GetNonceStep
<1>3. CASE GetPrice
  BY <1>3, GetPriceStep
<1>4. CASE NoAnswer
  BY <1>4, NoAnswerStep
<1>5. CASE Submitted
  BY <1>5, SubmittedStep
<1>6. CASE Refused
  BY <1>6, RefusedStep
<1>7. CASE AnswerLost
  BY <1>7, AnswerLostStep
<1>8. CASE Gossip \/ Mine \/ SeeBlock
  BY <1>8, NodesStep
<1>9. CASE UNCHANGED vars
  BY <1>9
     DEF vars, chain, TypeOK, SendInv, InOrder, FromAttempts, AttemptsCounted,
         NoncesCounted, Attempt, Concluded, UnderWay, Transfer, AcceptedOf, Begun, Busy
<1> QED
  BY <1>1, <1>2, <1>3, <1>4, <1>5, <1>6, <1>7, <1>8, <1>9 DEF Next, Sending

(* sendWBGL keeps count of its attempts and of the nonces they took,       *)
(* however the nodes it asks disagree, in every reachable state.           *)
THEOREM AttemptsAreCounted == Spec => [](TypeOK /\ SendInv)
BY SendInit, SendStep, PTL DEF Spec

(* The chain, the nodes and the locals of sendWBGL keep their types: in    *)
(* particular a node always has a pending nonce to offer, and a transfer   *)
(* is only ever signed with a price that was suggested.                    *)
THEOREM SendTypes == Spec => []TypeOK
BY AttemptsAreCounted, PTL

(***************************************************************************)
(* What the invariant is for.                                              *)
(***************************************************************************)

(* Each block that pays p was an attempt of its own: their nonces differ.  *)
LEMMA MinedArePaid ==
  ASSUME TypeOK, SendInv, NEW p \in Payments
  PROVE  Cardinality(MinedFor(p)) <= AcceptedOf(p)
<1> DEFINE n == AcceptedOf(p)
           N(k) == IF k \in DOMAIN sent[p] THEN sent[p][k].nonce ELSE call.nonce
           f == [i \in MinedFor(p) |-> CHOOSE k \in 1 .. n : N(k) = i - 1]
<1>1. /\ sent[p] \in Seq(Tx) /\ Len(sent[p]) \in Nat
      /\ DOMAIN sent[p] = 1 .. Len(sent[p])
  BY Bounds, SMT
<1>2. n \in Nat /\ (\A k \in DOMAIN sent[p] : k \in 1 .. n)
  <2>1. PICK one : one = IF call.taken /\ p = payment THEN 1 ELSE 0
    OBVIOUS
  <2>2. one \in {0, 1} /\ n = Len(sent[p]) + one
    BY <2>1 DEF AcceptedOf
  <2> HIDE DEF n
  <2> QED
    BY <1>1, <2>2, SMT
<1>3. ASSUME NEW i \in MinedFor(p) PROVE \E k \in 1 .. n : N(k) = i - 1
  <2>1. i \in DOMAIN mined /\ mined[i].payment = p
    BY DEF MinedFor
  <2>2. PICK tx : tx = mined[i]
    OBVIOUS
  <2>3. Attempt(tx) /\ tx.nonce = i - 1 /\ tx.payment = p
    BY <2>1, <2>2 DEF SendInv, FromAttempts
  <2>4. CASE Concluded(tx)
    BY <1>2, <2>3, <2>4 DEF Concluded
  <2>5. CASE UnderWay(tx)
    <3>1. call.taken /\ p = payment /\ call.nonce = i - 1
      BY <2>3, <2>5 DEF UnderWay, Transfer
    <3>2. n = Len(sent[p]) + 1
      BY <3>1 DEF AcceptedOf
    <3> HIDE DEF n
    <3>3. Len(sent[p]) + 1 \in 1 .. n /\ Len(sent[p]) + 1 \notin DOMAIN sent[p]
      BY <1>1, <3>2, SMT
    <3>4. N(Len(sent[p]) + 1) = i - 1
      BY <3>1, <3>3
    <3> QED
      BY <3>3, <3>4
  <2> QED
    BY <2>3, <2>4, <2>5 DEF Attempt
<1> HIDE DEF n, N
<1>4. ASSUME NEW i \in MinedFor(p) PROVE f[i] \in 1 .. n /\ N(f[i]) = i - 1
  BY <1>3
<1>5. f \in Injection(MinedFor(p), 1 .. n)
  <2>1. f \in [MinedFor(p) -> 1 .. n]
    BY <1>4
  <2>2. ASSUME NEW i \in MinedFor(p), NEW j \in MinedFor(p), f[i] = f[j]
        PROVE  i = j
    <3>1. i \in Nat /\ j \in Nat
      BY Bounds, SMT DEF MinedFor
    <3>2. i - 1 = j - 1
      BY <1>4, <2>2
    <3> QED
      BY <3>1, <3>2, SMT
  <2> HIDE DEF f
  <2> QED
    BY <2>1, <2>2 DEF Injection, IsInjective
<1>6. IsFiniteSet(1 .. n) /\ Cardinality(1 .. n) = n
  <2>1. 1 \in Int /\ n \in Int
    BY <1>2, SMT
  <2>2. /\ IsFiniteSet(1 .. n)
        /\ Cardinality(1 .. n) = IF 1 > n THEN 0 ELSE n - 1 + 1
    BY <2>1, FS_Interval
  <2> QED
    BY <1>2, <2>2, SMT
<1> HIDE DEF f
<1>7. Cardinality(MinedFor(p)) <= Cardinality(1 .. n)
  BY <1>5, <1>6, FS_Injection
<1> QED
  BY <1>6, <1>7 DEF n

(* processExecution.go:327-331: however many nodes and retries there are,  *)
(* and however the nodes disagree, a payment is in the chain once more     *)
(* than intended only for an answer that was lost.                         *)
THEOREM PaidOncePerLostAnswer == Spec => []MinedOncePerLostAnswer
<1>1. ASSUME TypeOK, SendInv PROVE MinedOncePerLostAnswer
  <2> SUFFICES ASSUME NEW p \in Payments
               PROVE  Cardinality(MinedFor(p)) <= 1 + lost[p]
    BY DEF MinedOncePerLostAnswer
  <2>1. Cardinality(MinedFor(p)) <= AcceptedOf(p)
    BY <1>1, MinedArePaid
  <2>2. PICK new : new = IF result[p] = "sent" THEN 1 ELSE 0
    OBVIOUS
  <2>3. new \in {0, 1} /\ AcceptedOf(p) <= lost[p] + new
    BY <1>1, <2>2 DEF SendInv, AttemptsCounted
  <2>4. AcceptedOf(p) \in Nat /\ lost[p] \in Nat
    <3>1. PICK one : one = IF call.taken /\ p = payment THEN 1 ELSE 0
      OBVIOUS
    <3>2. one \in {0, 1} /\ AcceptedOf(p) = Len(sent[p]) + one
      BY <3>1 DEF AcceptedOf
    <3> QED
      BY <1>1, <3>2, Bounds, SMT
  <2>5. Cardinality(MinedFor(p)) \in Nat
    <3>1. IsFiniteSet(1 .. Len(mined))
      BY <1>1, Bounds, FS_Interval, SMT
    <3>2. MinedFor(p) \in SUBSET (1 .. Len(mined))
      BY <1>1, Bounds DEF MinedFor
    <3> QED
      BY <3>1, <3>2, FS_Subset, FS_CardinalityType
  <2> QED
    BY <2>1, <2>3, <2>4, <2>5, SMT
<1>2. TypeOK /\ SendInv => MinedOncePerLostAnswer
  BY <1>1
<1> QED
  BY <1>2, AttemptsAreCounted, PTL

(* processExecution.go:336: a payment that sendWBGL reports as failed is   *)
(* neither in the chain nor on its way to it, at any node, unless an       *)
(* answer was lost: the deposit may be given back.                         *)
THEOREM FailedPaymentsAreUnsent == Spec => []ErrorMeansUnsent
<1>1. ASSUME TypeOK, SendInv PROVE ErrorMeansUnsent
  <2> SUFFICES ASSUME NEW p \in Payments, result[p] = "error", lost[p] = 0
               PROVE  /\ MinedFor(p) = {}
                      /\ \A n \in Nodes : \A t \in pool[n] : t.payment # p
    BY DEF ErrorMeansUnsent
  <2>1. AcceptedOf(p) <= 0 + 0
    BY <1>1 DEF SendInv, AttemptsCounted
  <2>2. Len(sent[p]) \in Nat /\ DOMAIN sent[p] = 1 .. Len(sent[p])
    BY <1>1, Bounds, SMT
  <2>3. ~ (call.taken /\ p = payment) /\ Len(sent[p]) = 0
    <3>1. PICK one : one = IF call.taken /\ p = payment THEN 1 ELSE 0
      OBVIOUS
    <3>2. one \in {0, 1} /\ AcceptedOf(p) = Len(sent[p]) + one
      BY <3>1 DEF AcceptedOf
    <3>3. one = 0 /\ Len(sent[p]) = 0
      BY <2>1, <2>2, <3>2, SMT
    <3> QED
      BY <3>1, <3>3
  <2>4. ASSUME NEW tx, tx.payment = p, Attempt(tx) PROVE FALSE
    <3>1. DOMAIN sent[p] = {}
      BY <2>2, <2>3, SMT
    <3> QED
      BY <2>3, <2>4, <3>1 DEF Attempt, Concluded, UnderWay, Transfer
  <2> QED
    BY <1>1, <2>4 DEF MinedFor, SendInv, FromAttempts
<1>2. TypeOK /\ SendInv => ErrorMeansUnsent
  BY <1>1
<1> QED
  BY <1>2, AttemptsAreCounted, PTL

(***************************************************************************)
(* Refinement: what a call of sendWBGL comes to.                           *)
(***************************************************************************)

(* Attempts of the nodes, and questions, are nothing to the caller.        *)
LEMMA CallsStutter ==
  ASSUME Busy, Busy', payment' = payment, call'.tries = call.tries,
         UNCHANGED <<sent, result>>
  PROVE  UNCHANGED Calls!vars
BY DEF Calls!vars, Busy

(* An iteration that is accepted counts as one attempt accepted. *)
LEMMA CallsAccept ==
  ASSUME TypeOK, SendInv, Busy, NEW b \in BOOLEAN, Attempted(b)
  PROVE  IF b THEN Calls!Accept
              ELSE UNCHANGED [p \in Payments |-> Len(sent[p])]
<1>1. /\ payment \in Payments /\ payment # 0
      /\ sent[payment] \in Seq(Tx)
  BY PaymentUnderWay
<1>2. CASE b
  <2>1. PICK tx : tx = Transfer
    OBVIOUS
  <2>2. sent' = [sent EXCEPT ![payment] = Append(sent[payment], tx)]
    BY <1>2, <2>1 DEF Attempted
  <2>3. Len(Append(sent[payment], tx)) = Len(sent[payment]) + 1
    BY <1>1, SMT
  <2>4. \A p \in Payments :
          Len(sent'[p]) = IF p = payment THEN Len(sent[p]) + 1 ELSE Len(sent[p])
    BY <1>1, <2>2, <2>3 DEF TypeOK
  <2>5. [p \in Payments |-> Len(sent'[p])]
          = [[p \in Payments |-> Len(sent[p])] EXCEPT ![payment] = @ + 1]
    BY <1>1, <2>4
  <2> QED
    BY <1>2, <2>5 DEF Calls!Accept, Busy
<1>3. CASE ~ b
  <2>1. sent' = [sent EXCEPT ![payment] = sent[payment]]
    BY <1>3 DEF Attempted
  <2>2. sent' = sent
    BY <1>1, <2>1 DEF TypeOK
  <2> QED
    BY <1>3, <2>2
<1> QED
  BY <1>2, <1>3

LEMMA CallsFailed ==
  ASSUME TypeOK, SendInv, Busy, NEW b \in BOOLEAN, Failed(b), payment' = payment
  PROVE  Calls!Refused \/ Calls!AnswerLost
<1>1. payment # 0
  BY PaymentUnderWay
<1>2. Calls!AttemptFailed
  <2>1. CASE /\ call.tries + 1 < EvmRetries
             /\ call' = [Idle EXCEPT !.pc = "nonce", !.tries = call.tries + 1]
             /\ UNCHANGED result
    <3>1. call.tries + 1 \in 0 .. EvmRetries - 1
      BY <2>1, Bounds, SMT
    <3>2. call'.pc = "nonce" /\ call'.tries = call.tries + 1
      BY <2>1, <3>1, AgainLocals
    <3> QED
      BY <2>1, <3>2 DEF Calls!AttemptFailed, Busy
  <2>2. CASE call.tries + 1 >= EvmRetries /\ Return("error")
    <3>1. call'.pc = "idle" /\ call'.tries = 0
      BY <2>2, SMT DEF Return, Idle
    <3> QED
      BY <2>2, <3>1 DEF Calls!AttemptFailed, Calls!Return, Return, Busy
  <2> QED
    BY <2>1, <2>2 DEF Failed
<1>3. IF b THEN Calls!Accept ELSE UNCHANGED [p \in Payments |-> Len(sent[p])]
  BY CallsAccept DEF Failed
<1> QED
  BY <1>1, <1>2, <1>3 DEF Calls!Refused, Calls!AnswerLost, Busy

LEMMA CallsNextNode ==
  ASSUME TypeOK, SendInv, call.pc = "transfer", NEW b \in BOOLEAN, NextNode(b),
         payment' = payment
  PROVE  [Calls!Next]_(Calls!vars)
<1>1. Busy
  BY DEF Busy
<1>2. CASE /\ call' = [call EXCEPT !.node = @ + 1, !.taken = b]
           /\ UNCHANGED <<sent, result>>
  <2>1. call'.pc = call.pc /\ call'.tries = call.tries
    BY <1>2, SMT DEF TypeOK, Locals
  <2> QED
    BY <1>1, <1>2, <2>1, CallsStutter DEF Busy
<1>3. CASE Failed(b)
  BY <1>1, <1>3, CallsFailed DEF Calls!Next
<1> QED
  BY <1>2, <1>3 DEF NextNode

LEMMA CallsStep ==
  ASSUME TypeOK, SendInv, [Next]_vars
  PROVE  [Calls!Next]_(Calls!vars)
<1>1. CASE Begin
  <2>1. /\ ~ Busy /\ payment' = payment + 1 /\ payment < MaxPayments
        /\ UNCHANGED <<sent, result>>
    BY <1>1 DEF Begin, Busy
  <2>2. call = Idle
    BY <2>1 DEF SendInv, InOrder
  <2>3. call.tries = 0 /\ call'.tries = 0 /\ call'.pc = "nonce"
    BY <1>1, <2>2, SMT DEF Begin, Idle
  <2>4. PICK p : p = payment + 1
    OBVIOUS
  <2>5. p \in Payments /\ p > payment
    BY <2>1, <2>4, Bounds, SMT DEF Payments
  <2>6. result[p] = "none"
    BY <2>5 DEF SendInv, InOrder
  <2>7. Calls!Call(p)
    BY <2>1, <2>3, <2>4, <2>6 DEF Calls!Call, Busy
  <2> QED
    BY <2>5, <2>7 DEF Calls!Next
<1>2. CASE GetNonce \/ GetPrice
  <2>1. /\ Busy /\ call'.pc \in {"price", "transfer"} /\ call'.tries = call.tries
        /\ UNCHANGED <<payment, sent, result>>
    <3>1. CASE GetNonce
      <4>1. PICK n \in Nodes :
              call' = [call EXCEPT !.pc = "price", !.nonce = PendingNonceAt(n)]
        BY <3>1 DEF GetNonce
      <4>2. PICK k : k = PendingNonceAt(n)
        OBVIOUS
      <4>3. call'.pc = "price" /\ call'.tries = call.tries
        BY <4>1, <4>2, SMT DEF TypeOK, Locals
      <4> QED
        BY <3>1, <4>3 DEF GetNonce, Busy
    <3>2. CASE GetPrice
      <4>1. PICK p \in Prices :
              call' = [call EXCEPT !.pc = "transfer", !.price = p, !.node = 1]
        BY <3>2 DEF GetPrice
      <4>2. call'.pc = "transfer" /\ call'.tries = call.tries
        BY <4>1, SMT DEF TypeOK, Locals
      <4> QED
        BY <3>2, <4>2 DEF GetPrice, Busy
    <3> QED
      BY <1>2, <3>1, <3>2
  <2>2. Busy'
    BY <2>1 DEF Busy
  <2> QED
    BY <2>1, <2>2, CallsStutter
<1>3. CASE NoAnswer
  BY <1>3, CallsFailed DEF NoAnswer, Busy, Calls!Next
<1>4. CASE Submitted
  <2>1. Busy /\ Attempted(TRUE) /\ Return("sent")
    BY <1>4 DEF Submitted, Busy
  <2>2. payment # 0 /\ Calls!Accept
    BY <2>1, PaymentUnderWay, CallsAccept
  <2>3. call'.pc = "idle" /\ call'.tries = 0
    BY <2>1, SMT DEF Return, Idle
  <2>4. Calls!Return("sent")
    BY <2>1, <2>3 DEF Calls!Return, Return, Busy
  <2> QED
    BY <2>1, <2>2, <2>4 DEF Calls!Paid, Calls!Next, Busy
<1>5. CASE Refused
  BY <1>5, Bounds, CallsNextNode DEF Refused
<1>6. CASE AnswerLost
  BY <1>6, CallsNextNode DEF AnswerLost
<1>7. CASE Gossip \/ Mine \/ SeeBlock \/ UNCHANGED vars
  BY <1>7 DEF Gossip, Mine, SeeBlock, vars, Calls!vars
<1> QED
  BY <1>1, <1>2, <1>3, <1>4, <1>5, <1>6, <1>7 DEF Next, Sending

(* processExecution.go:271-337: for the sending worker, a call of sendWBGL *)
(* is no worse than Executor.tla takes it to be: at most EVM_RETRIES       *)
(* attempts, none begun after one that is known to have been accepted.     *)
THEOREM ImplementsCalls == Spec => SendsAsAssumed
<1>1. Init => Calls!Init
  <2> SUFFICES ASSUME Init PROVE Calls!Init
    OBVIOUS
  <2>1. /\ call.pc = "idle" /\ call.tries = 0
        /\ result = [p \in Payments |-> "none"]
        /\ \A p \in Payments : sent[p] = <<>>
    BY SMT DEF Init, Idle
  <2>2. Len(<<>>) = 0
    BY SMT
  <2>3. [p \in Payments |-> Len(sent[p])] = [p \in Payments |-> 0]
    BY <2>1, <2>2
  <2> QED
    BY <2>1, <2>3 DEF Calls!Init
<1>2. TypeOK /\ SendInv /\ [Next]_vars => [Calls!Next]_(Calls!vars)
  BY CallsStep
<1> QED
  BY <1>1, <1>2, AttemptsAreCounted, PTL DEF Spec, SendsAsAssumed, Calls!Spec

=============================================================================
