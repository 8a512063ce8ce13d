--------------------------- MODULE PayoutPromise ---------------------------
(***************************************************************************)
(* What the sending worker promises about money, without Redis, statuses   *)
(* or chains: an operation is paid once, forward and return together.  A   *)
(* second payment of an operation is owed to a fault: every restart and    *)
(* every payment whose answer was lost may be the reason of one further    *)
(* payment, of one operation, once.  A Redis command that fails is no such *)
(* reason: "emergency exit to avoid looping" (processExecution.go:139).    *)
(***************************************************************************)
EXTENDS Naturals, Sequences

CONSTANT Operation

VARIABLES
  taken,     \* operations the bridge has created
  ledger,    \* the operations of the payments made, in order
  excuses    \* faults that have not yet led to a further payment

vars == <<taken, ledger, excuses>>

Init ==
  /\ taken = {}
  /\ ledger = <<>>
  /\ excuses = 0

IsPaid(o) == \E i \in DOMAIN ledger : ledger[i] = o

Take(o) ==
  /\ o \notin taken
  /\ taken' = taken \union {o}
  /\ UNCHANGED <<ledger, excuses>>

(* Faults at hand when o is paid: new is 1 if the answer is lost. *)
PayWith(o, new) ==
  /\ o \in taken
  /\ ledger' = Append(ledger, o)
  /\ IF IsPaid(o) THEN /\ excuses > 0
                       /\ excuses' = excuses + new - 1
                  ELSE excuses' = excuses + new

Pay(o)           == PayWith(o, 0) /\ UNCHANGED taken
PayUnanswered(o) == PayWith(o, 1) /\ UNCHANGED taken

Restart ==
  /\ excuses' = excuses + 1
  /\ UNCHANGED <<taken, ledger>>

Next ==
  \/ \E o \in Operation : Take(o) \/ Pay(o) \/ PayUnanswered(o)
  \/ Restart

Spec == Init /\ [][Next]_vars

=============================================================================
