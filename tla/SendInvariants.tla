--------------------------- MODULE SendInvariants ---------------------------
(***************************************************************************)
(* The inductive invariant behind the safety properties of SendWBGL, in    *)
(* named parts: what the nodes and the chain hold goes back to attempts    *)
(* that were accepted, attempts are counted, and so are nonces.  TLC       *)
(* checks it on small instances (MCSendWBGL), SendWBGLProofs proves it.    *)
(***************************************************************************)
EXTENDS SendWBGL

Busy == call.pc # "idle"

(* Payments come one after the other, and each is concluded once. *)
InOrder ==
  /\ Busy => payment # 0 /\ result[payment] = "none"
  /\ ~ Busy => call = Idle
  /\ \A p \in Payments : p > payment => sent[p] = <<>> /\ result[p] = "none"
  /\ call.pc = "transfer" => call.price \in Prices
  /\ call.taken => call.pc = "transfer"

(* An attempt that was accepted: concluded, or under way. *)
Concluded(tx) == \E k \in DOMAIN sent[tx.payment] : sent[tx.payment][k] = tx
UnderWay(tx)  == call.taken /\ tx = Transfer
Attempt(tx)   == Concluded(tx) \/ UnderWay(tx)

(* What is pending or mined was accepted from sendWBGL, and the chain      *)
(* takes the nonces in order.                                              *)
FromAttempts ==
  /\ \A n \in Nodes : \A tx \in pool[n] : Attempt(tx)
  /\ \A i \in DOMAIN mined : Attempt(mined[i]) /\ mined[i].nonce = i - 1

(* Of the attempts to make one payment, all but one had an answer lost. *)
AcceptedOf(p) ==
  Len(sent[p]) + (IF call.taken /\ p = payment THEN 1 ELSE 0)

AttemptsCounted ==
  \A p \in Payments :
    /\ AcceptedOf(p) <= lost[p] + (IF result[p] = "sent" THEN 1 ELSE 0)
    /\ Busy /\ p = payment => Len(sent[p]) <= call.tries

(* Attempts begun before the one under way: each adds one nonce at most. *)
Begun ==
  IF Busy THEN (payment - 1) * EvmRetries + call.tries ELSE payment * EvmRetries

NoncesCounted ==
  /\ \A p \in Payments : \A k \in DOMAIN sent[p] : sent[p][k].nonce < Begun
  /\ call.pc \in {"price", "transfer"} => call.nonce <= Begun

(* Inductive, together with TypeOK (SendWBGLProofs). *)
SendInv == InOrder /\ FromAttempts /\ AttemptsCounted /\ NoncesCounted

=============================================================================
