---------------------------- MODULE PaymentCalls ----------------------------
(***************************************************************************)
(* What Executor.tla takes a call of sendWBGL to be: up to EvmRetries      *)
(* attempts, each of which is paid and answered, not paid, or paid without *)
(* an answer, the last two looking alike to the caller.  SendWBGL.tla      *)
(* shows that sendWBGL is no worse.                                        *)
(***************************************************************************)
EXTENDS Naturals

CONSTANTS Payments, EvmRetries

VARIABLES
  paying,     \* the payment under way, 0 if none
  tries,      \* attempts of it that failed
  accepted,   \* accepted[p]: attempts to pay p that were accepted
  result      \* result[p]: "none", "sent" or "error"

vars == <<paying, tries, accepted, result>>

Init ==
  /\ paying = 0
  /\ tries = 0
  /\ accepted = [p \in Payments |-> 0]
  /\ result = [p \in Payments |-> "none"]

Call(p) ==
  /\ paying = 0
  /\ result[p] = "none"
  /\ paying' = p
  /\ UNCHANGED <<tries, accepted, result>>

Return(answer) ==
  /\ result' = [result EXCEPT ![paying] = answer]
  /\ paying' = 0
  /\ tries' = 0

AttemptFailed ==
  \/ /\ tries + 1 < EvmRetries
     /\ tries' = tries + 1
     /\ UNCHANGED <<paying, result>>
  \/ /\ tries + 1 >= EvmRetries
     /\ Return("error")

Accept == accepted' = [accepted EXCEPT ![paying] = @ + 1]

Paid       == paying # 0 /\ Accept /\ Return("sent")
Refused    == paying # 0 /\ AttemptFailed /\ UNCHANGED accepted
AnswerLost == paying # 0 /\ Accept /\ AttemptFailed

Next ==
  \/ \E p \in Payments : Call(p)
  \/ Paid \/ Refused \/ AnswerLost

Spec == Init /\ [][Next]_vars

=============================================================================
