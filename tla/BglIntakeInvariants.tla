------------------------ MODULE BglIntakeInvariants ------------------------
(***************************************************************************)
(* The inductive invariant behind the safety properties of BglIntake, in   *)
(* named parts: what a search has yet to read, what a store has written so *)
(* far, and which deposits the scan under way still answers for.  TLC      *)
(* checks it on a small instance (MCBglIntake), BglIntakeProofs proves it. *)
(***************************************************************************)
EXTENDS BglIntake

Caller == client[BglScan]

SameHash(k, d) == SourceTx[records[k].deposit] = SourceTx[d]

(* The store: no key without its record, no key without its operation,     *)
(* and no operation but for deposits of this chain.                        *)
KeysAreIssued ==
  \A k \in indexed :
    /\ records[k] # NoOp /\ records[k].deposit \in BGLDeposits
    /\ \E p \in issued : p[1] = k[2]

(* A search for the hash of d: every operation with it is still to be      *)
(* read, or has been found; without a fault, a search does not fail.       *)
Searching(d) ==
  /\ Caller.cmd \in {"sscan", "get", "ok", "err"}
  /\ Caller.cmd \in {"sscan", "get"} =>
       /\ Caller.op = NoOp
       /\ Caller.field = "SourceTxHash" /\ Caller.value = SourceTx[d]
  /\ Caller.keys \subseteq indexed
  /\ Caller.cmd = "sscan" => Caller.keys = {}
  /\ Caller.cmd = "ok" => Caller.keys = {} /\ Caller.todo = {}
  /\ Caller.cmd # "err" /\ Caller.op = NoOp =>
       \A k \in indexed :
         SameHash(k, d) => k \in Caller.keys \/ k[1] \in Caller.todo
  /\ Caller.op # NoOp =>
       \E k \in indexed : records[k] = Caller.op /\ SameHash(k, d)

(* A store of an operation for d, under an id of its own: to be paid only  *)
(* if no operation with the same hash is there.                            *)
Storing(d) ==
  /\ Caller.cmd \in {"set", "sadd", "ok", "err"}
  /\ Caller.cmd \in {"set", "sadd"} =>
       /\ Caller.op.deposit = d
       /\ \A k \in indexed : k[2] # Caller.op.id
       /\ \E p \in issued : p[1] = Caller.op.id
       /\ Caller.op.status = "pending" => \A k \in indexed : ~ SameHash(k, d)
  /\ Caller.cmd = "sadd" =>
       records[<<Caller.op.status, Caller.op.id>>] = Caller.op
  /\ Caller.cmd = "ok" => Recorded(d)

(* What the scanner waits for is what it has asked for. *)
ScannerInv ==
  /\ bgl.pc \notin {"dedupe", "store"} => Caller = Idle
  /\ bgl.pc \in {"dedupe", "store"} => bgl.tx \in BGLDeposits
  /\ \A d \in BGLDeposits :
       d = bgl.tx =>
         /\ bgl.pc = "dedupe" => d \in bound /\ Searching(d)
         /\ bgl.pc = "store" => Storing(d)
  /\ Caller.cmd = "err" => redisErrors > 0

(* A deposit that may be passed by: see NothingBehindCursor. *)
Covered(d) ==
  /\ \E e \in SameTx(d) : Recorded(e)
  /\ d \notin bound \/ SameTx(d) = {d} => Recorded(d)

InHand(d) == bgl.pc \in {"dedupe", "store"} /\ d = bgl.tx

(* Once the node has answered, each deposit up to the block that will be   *)
(* saved is covered or still to be handled.                                *)
ScanCovers ==
  /\ bglHeight >= Confirmations /\ bglCursor <= bglHeight
  /\ bgl.pc = "list" => bgl.since = bglCursor
  /\ bgl.pc \in {"next", "dedupe", "store"} =>
       /\ bgl.last <= bglHeight
       /\ redisErrors = 0 =>
            \A d \in BGLDeposits :
              bglBlock[d] \in 1 .. bgl.last =>
                d \in bgl.txs \/ InHand(d) \/ Covered(d)

(* Inductive, together with TypeOK (BglIntakeProofs). *)
BglInv ==
  /\ KeysAreIssued /\ QueuedOnce
  /\ ScannerInv
  /\ ScanCovers /\ NothingBehindCursor

=============================================================================
