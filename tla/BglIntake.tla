----------------------------- MODULE BglIntake -----------------------------
(***************************************************************************)
(* The BGL scanner of ScanBGL.tla with a growing chain, failing Redis      *)
(* commands and a process that dies and restarts.  No other goroutine      *)
(* touches the store, but one (the sending worker after a failed update,   *)
(* Worker_HTTP on a signal) may raise WorkerShutdown at any time.          *)
(***************************************************************************)
EXTENDS ScanBGL

vars == <<sharedVars, bglVars>>

(* Which BGL addresses have an address book record does not change while a *)
(* deposit to them is under way: SubmitBGL stores the record before it     *)
(* tells anyone the address, and no record is ever deleted.                *)
Init ==
  /\ SharedInit
  /\ BglInit
  /\ bound \in SUBSET BGLDeposits

Next ==
  \/ BglStep
  \/ BglMine
  \/ RaiseShutdown /\ UNCHANGED bglVars
  \/ SharedReset /\ BglReset

Spec == Init /\ [][Next]_vars

(* The store, the cursor and the scanner's locals have their types. *)
TypeOK == SharedTypeOK /\ BglTypeOK

(***************************************************************************)
(* What the saved block promises: "check incoming transfers and put        *)
(* sending WBGL to worker queue" (README.md:8).  The node will not list    *)
(* the transactions up to the saved block again, so each of them must be   *)
(* on record by then, wherever the process died, as long as Redis answers. *)
(* Which of the outputs of one transaction is recorded is left to the      *)
(* order in which the node lists them: the search for a duplicate compares *)
(* the hash, so it is one of those with an address book record, if any,    *)
(* unless an output without one came first.                                *)
(***************************************************************************)
SameTx(d) == {e \in BGLDeposits : SourceTx[e] = SourceTx[d]}

NothingBehindCursor ==
  redisErrors = 0 =>
    \A d \in BGLDeposits :
      bglBlock[d] \in 1 .. bglCursor =>
        /\ \E e \in SameTx(d) : Recorded(e)
        /\ d \notin bound \/ SameTx(d) = {d} => Recorded(d)

(***************************************************************************)
(* What the comments of the code say and the code does not do.             *)
(***************************************************************************)

(* The scanner has created an operation for d and tried to store it. *)
Attempted(d) == \E p \in issued : p[2] = d

(* scanBGL.go:63,90: after a failed store, "don't consider this block as   *)
(* processed".                                                             *)
FailedStoreNotProcessed ==
  \A d \in BGLDeposits :
    bglBlock[d] \in 1 .. bglCursor /\ Attempted(d) => Recorded(d)

=============================================================================
