---------------------------- MODULE ScanEVMProofs ----------------------------
(***************************************************************************)
(* Lemmas about the scan of an EVM chain (ScanEVM): its batches, what a    *)
(* node's answer holds, how blocks are added, and the bounds of the blocks *)
(* it computes, whoever else uses the store.                               *)
(***************************************************************************)
EXTENDS ScanEVM, SequenceTheorems, FiniteSetTheorems, TLAPS

(* The locals of the scanner. *)
EvmLocals ==
  [pc : {"sleep", "latest", "filter", "next", "dedupe", "settle", "store", "exited"},
   from : Nat \union {NoCursor}, latest : Nat, to : Nat, logs : Seq(Log)]

LEMMA ConstantFacts ==
  /\ EvmScan \in Workers
  /\ SafetyWindow \in Nat /\ SafetyWindow >= 1
  /\ BlockBatch \in Nat /\ SafetyWindow <= BlockBatch
  /\ Lag \in Nat /\ Lag <= SafetyWindow
  /\ FirstHeight = SafetyWindow + Lag
  /\ EVMDeposits \subseteq Deposits /\ EVMDeposits \intersect Nat = {}
  /\ EVMDeposits \subseteq Transfers
BY ScanEVMAssumption, SMT DEF FirstHeight, EVMDeposits, Transfers

LEMMA AsleepFacts ==
  EvmAsleep \in EvmLocals /\ EvmAsleep.pc = "sleep"
<1>1. <<>> \in Seq(Log)
  BY EmptySeq
<1> QED
  BY <1>1, SMT DEF EvmAsleep, EvmLocals

(* The locals, field by field. *)
LEMMA LocalsFacts ==
  ASSUME NEW e \in EvmLocals
  PROVE  /\ e.from \in Int /\ e.latest \in Nat /\ e.to \in Nat
         /\ e.logs \in Seq(Log) /\ Len(e.logs) \in Nat
         /\ DOMAIN e.logs = 1 .. Len(e.logs)
<1>1. e.from \in Int /\ e.latest \in Nat /\ e.to \in Nat /\ e.logs \in Seq(Log)
  BY SMT DEF EvmLocals, NoCursor
<1> QED
  BY <1>1, LenProperties

LEMMA LocalsAre ==
  ASSUME EvmTypeOK
  PROVE  /\ evm \in EvmLocals
         /\ evm.from \in Int /\ evm.latest \in Nat /\ evm.to \in Nat
         /\ evm.logs \in Seq(Log) /\ Len(evm.logs) \in Nat
         /\ DOMAIN evm.logs = 1 .. Len(evm.logs)
BY LocalsFacts DEF EvmTypeOK, EvmLocals

LEMMA LogsAre ==
  ASSUME evmLogs \in Seq(Log)
  PROVE  /\ Len(evmLogs) \in Nat /\ DOMAIN evmLogs = 1 .. Len(evmLogs)
         /\ \A i \in DOMAIN evmLogs :
              evmLogs[i].block \in Nat /\ evmLogs[i].transfer \in Transfers
<1>1. Len(evmLogs) \in Nat /\ DOMAIN evmLogs = 1 .. Len(evmLogs)
  BY LenProperties
<1>2. \A i \in DOMAIN evmLogs : evmLogs[i] \in Log
  BY <1>1, ElementOfSeq
<1> QED
  BY <1>1, <1>2, SMT DEF Log

(* The log in hand. *)
LEMMA HeadFacts ==
  ASSUME EvmTypeOK, evm.logs # <<>>
  PROVE  /\ Len(evm.logs) >= 1 /\ 1 \in DOMAIN evm.logs
         /\ Transfer = evm.logs[1].transfer /\ Transfer \in Transfers
         /\ Transfer \in EVMDeposits \/ Transfer \in Nat \ {0}
<1>1. evm.logs \in Seq(Log) /\ Len(evm.logs) \in Nat /\ DOMAIN evm.logs = 1 .. Len(evm.logs)
  BY LocalsAre
<1>2. Len(evm.logs) \in Nat \ {0}
  BY <1>1, EmptySeq
<1>3. Len(evm.logs) >= 1 /\ 1 \in 1 .. Len(evm.logs)
  BY <1>2, SMT
<1>4. Head(evm.logs) = evm.logs[1]
  BY <1>1, <1>3, SMT
<1>5. evm.logs[1] \in Log
  BY <1>1, <1>3, ElementOfSeq
<1>6. evm.logs[1].transfer \in Transfers
  BY <1>5, SMT DEF Log
<1> QED
  BY <1>1, <1>3, <1>4, <1>6 DEF Transfer, Transfers

(* What the rest of the logs is. *)
LEMMA TailFacts ==
  ASSUME EvmTypeOK, evm.logs # <<>>
  PROVE  /\ Tail(evm.logs) \in Seq(Log)
         /\ Len(Tail(evm.logs)) = Len(evm.logs) - 1
         /\ DOMAIN Tail(evm.logs) = 1 .. Len(evm.logs) - 1
         /\ \A j \in 1 .. Len(evm.logs) - 1 : Tail(evm.logs)[j] = evm.logs[j + 1]
<1>1. evm.logs \in Seq(Log)
  BY LocalsAre
<1>2. /\ Tail(evm.logs) \in Seq(Log)
      /\ Len(Tail(evm.logs)) = Len(evm.logs) - 1
      /\ \A j \in 1 .. Len(Tail(evm.logs)) : Tail(evm.logs)[j] = evm.logs[j + 1]
  BY <1>1, HeadTailProperties
<1>3. DOMAIN Tail(evm.logs) = 1 .. Len(Tail(evm.logs))
  BY <1>2, LenProperties
<1> QED
  BY <1>2, <1>3

(* A batch is well typed and begins where it is asked to. *)
LEMMA BatchFacts ==
  ASSUME NEW f \in Int, f >= 1, NEW latest \in Nat
  PROVE  /\ Batch(f, latest) \in EvmLocals
         /\ \/ Batch(f, latest).pc = "sleep"
            \/ /\ Batch(f, latest).pc = "filter" /\ f < latest
               /\ Batch(f, latest).from = f /\ Batch(f, latest).latest = latest
               /\ Batch(f, latest).logs = <<>>
               /\ f <= Batch(f, latest).to /\ Batch(f, latest).to <= latest
               /\ Batch(f, latest).to <= f + BlockBatch - 1
               /\ \/ Batch(f, latest).to = latest
                  \/ Batch(f, latest).to = f + BlockBatch - 1
<1>1. CASE ~ (f < latest)
  BY <1>1, AsleepFacts DEF Batch
<1>2. CASE f < latest
  <2>1. PICK t : t = IF f + BlockBatch - 1 > latest THEN latest ELSE f + BlockBatch - 1
    OBVIOUS
  <2>2. /\ t \in Nat /\ f \in Nat
        /\ f <= t /\ t <= latest /\ t <= f + BlockBatch - 1
        /\ t = latest \/ t = f + BlockBatch - 1
    BY <1>2, <2>1, ConstantFacts, SMT
  <2>3. Batch(f, latest) =
          [pc |-> "filter", from |-> f, latest |-> latest, logs |-> <<>>, to |-> t]
    BY <1>2, <2>1 DEF Batch
  <2>4. <<>> \in Seq(Log)
    BY EmptySeq
  <2>5. Batch(f, latest) \in EvmLocals
    BY <2>2, <2>3, <2>4, SMT DEF EvmLocals
  <2> QED
    BY <1>2, <2>2, <2>3, <2>5
<1> QED
  BY <1>1, <1>2

(* A block is added: older logs keep their places. *)
LEMMA MineFacts ==
  ASSUME EvmTypeOK, NEW new \in SUBSET Transfers, EvmMine(new)
  PROVE  /\ evmHeight' = evmHeight + 1 /\ evmHeight' \in Nat
         /\ evmLogs' \in Seq(Log) /\ Len(evmLogs) <= Len(evmLogs')
         /\ \A i \in DOMAIN evmLogs : i \in DOMAIN evmLogs' /\ evmLogs'[i] = evmLogs[i]
         /\ \A i \in DOMAIN evmLogs' \ DOMAIN evmLogs :
              /\ i > Len(evmLogs)
              /\ evmLogs'[i].block = evmHeight + 1 /\ evmLogs'[i].transfer \in new
         /\ UNCHANGED <<sharedVars, evmCursor, evm>>
<1>1. PICK S \in SUBSET new : IsFiniteSet(S) /\ \E s \in SetToSeqs(S) :
        evmLogs' = evmLogs \o [i \in DOMAIN s |->
                                 [block |-> evmHeight + 1, transfer |-> s[i]]]
  BY DEF EvmMine
<1>2. PICK s \in SetToSeqs(S) :
        evmLogs' = evmLogs \o [i \in DOMAIN s |->
                                 [block |-> evmHeight + 1, transfer |-> s[i]]]
  BY <1>1
<1>3. PICK c \in Nat : c = Cardinality(S)
  BY <1>1, FS_CardinalityType
<1>4. s \in [1 .. c -> S]
  BY <1>3 DEF SetToSeqs
<1>5. evmHeight \in Nat /\ evmHeight + 1 \in Nat /\ evmLogs \in Seq(Log)
  BY SMT DEF EvmTypeOK
<1>6. S \subseteq Transfers
  OBVIOUS
<1> DEFINE q == [i \in 1 .. c |-> [block |-> evmHeight + 1, transfer |-> s[i]]]
<1>7. q \in [1 .. c -> Log]
  BY <1>4, <1>5, <1>6, SMT DEF Log
<1>8. q \in Seq(Log) /\ Len(q) = c
  BY <1>7, SMT
<1>9. evmLogs' = evmLogs \o q
  BY <1>2, <1>4
<1>10. \A i \in 1 .. c : q[i].block = evmHeight + 1 /\ q[i].transfer \in S
  BY <1>4, SMT
<1> HIDE DEF q
<1>11. /\ evmLogs' \in Seq(Log)
       /\ Len(evmLogs') = Len(evmLogs) + Len(q)
       /\ \A i \in 1 .. Len(evmLogs) + Len(q) :
            evmLogs'[i] = IF i <= Len(evmLogs) THEN evmLogs[i] ELSE q[i - Len(evmLogs)]
  BY <1>5, <1>8, <1>9, ConcatProperties
<1>12. /\ Len(evmLogs) \in Nat /\ DOMAIN evmLogs = 1 .. Len(evmLogs)
       /\ DOMAIN evmLogs' = 1 .. Len(evmLogs')
  BY <1>5, <1>11, LenProperties
<1>13. \A i \in DOMAIN evmLogs : i \in DOMAIN evmLogs' /\ evmLogs'[i] = evmLogs[i]
  BY <1>8, <1>11, <1>12, SMT
<1>14. ASSUME NEW i \in DOMAIN evmLogs' \ DOMAIN evmLogs
       PROVE  /\ i > Len(evmLogs)
              /\ evmLogs'[i].block = evmHeight + 1 /\ evmLogs'[i].transfer \in new
  <2>1. i > Len(evmLogs) /\ i - Len(evmLogs) \in 1 .. c
        /\ i \in 1 .. Len(evmLogs) + Len(q)
    BY <1>8, <1>11, <1>12, SMT
  <2>2. evmLogs'[i] = q[i - Len(evmLogs)]
    BY <1>11, <1>12, <2>1, SMT
  <2> QED
    BY <1>10, <2>1, <2>2
<1>15. Len(evmLogs) <= Len(evmLogs')
  BY <1>8, <1>11, <1>12, SMT
<1> QED
  BY <1>5, <1>11, <1>13, <1>14, <1>15 DEF EvmMine

(* Where a scan begins. *)
LEMMA LatestFacts ==
  ASSUME EvmTypeOK, ScanBounds, EvmLatest
  PROVE  \E latest \in Nat, f \in Int :
           /\ SafetyWindow <= latest /\ latest <= evmHeight
           /\ f >= 1 /\ evm' = Batch(f, latest)
           /\ f = (IF evmCursor = NoCursor THEN latest ELSE evmCursor) - SafetyWindow + 1
<1>1. PICK latest \in NodeHeight : evm' = Batch(ScanFrom(evm.from, latest), latest)
  BY DEF EvmLatest
<1>2. evm.from = evmCursor
  BY DEF EvmLatest, ScanBounds
<1>3. evmHeight \in Nat /\ evmCursor \in Nat \union {NoCursor}
  BY SMT DEF EvmTypeOK
<1>4. FirstHeight <= evmHeight /\ (evmCursor # NoCursor => evmCursor \in SafetyWindow .. evmHeight)
  BY DEF ScanBounds
<1>5. latest \in Nat /\ SafetyWindow <= latest /\ latest <= evmHeight
  BY <1>3, <1>4, ConstantFacts, SMT DEF NodeHeight
<1> DEFINE f == (IF evmCursor = NoCursor THEN latest ELSE evmCursor) - SafetyWindow + 1
<1>6. f \in Int /\ f >= 1
  BY <1>3, <1>4, <1>5, ConstantFacts, SMT
<1>7. ScanFrom(evm.from, latest) = f
  BY <1>2 DEF ScanFrom
<1> HIDE DEF f
<1>8. evm' = Batch(f, latest)
  BY <1>1, <1>7
<1> QED
  BY <1>5, <1>6, <1>8 DEF f

(* The logs that a node answers with are in a row. *)
LEMMA FilterFacts ==
  ASSUME EvmTypeOK, EvmFilter
  PROVE  \E head \in NodeHeight, m \in 0 .. Len(evmLogs), s \in Seq(Log) :
           /\ \A i \in DOMAIN evmLogs :
                i \in m + 1 .. m + Len(s) <=>
                  /\ evm.from <= evmLogs[i].block /\ evmLogs[i].block <= evm.to
                  /\ evmLogs[i].block <= head
           /\ m + Len(s) <= Len(evmLogs)
           /\ \A j \in 1 .. Len(s) : s[j] = evmLogs[m + j]
           /\ evm' = [evm EXCEPT !.pc = "next", !.logs = s]
<1>1. PICK head \in NodeHeight, m \in 0 .. Len(evmLogs), n \in 0 .. Len(evmLogs) :
        /\ Filtered(head) = m + 1 .. n
        /\ evm' = [evm EXCEPT !.pc = "next", !.logs = SubSeq(evmLogs, m + 1, n)]
  BY DEF EvmFilter
<1>2. evmLogs \in Seq(Log) /\ Len(evmLogs) \in Nat /\ DOMAIN evmLogs = 1 .. Len(evmLogs)
  BY LogsAre, SMT DEF EvmTypeOK
<1>3. \A i \in m + 1 .. n : evmLogs[i] \in Log
  BY <1>2, ElementOfSeq, SMT
<1>4. m + 1 \in Int /\ n \in Int /\ m \in Int
  BY <1>2, SMT
<1>5. PICK s : s = SubSeq(evmLogs, m + 1, n)
  OBVIOUS
<1>6. /\ s \in Seq(Log)
      /\ Len(s) = IF m + 1 <= n THEN n - (m + 1) + 1 ELSE 0
      /\ \A j \in 1 .. n - (m + 1) + 1 : s[j] = evmLogs[m + 1 + j - 1]
  BY <1>3, <1>4, <1>5, SubSeqProperties
<1>7. /\ m + Len(s) <= Len(evmLogs)
      /\ \A i : i \in m + 1 .. m + Len(s) <=> i \in m + 1 .. n
      /\ \A j \in 1 .. Len(s) : s[j] = evmLogs[m + j]
  <2>1. CASE m + 1 <= n
    <3>1. Len(s) = n - m
      BY <1>4, <1>6, <2>1, SMT
    <3>2. m + Len(s) = n
      BY <1>4, <3>1, SMT
    <3>3. ASSUME NEW j \in 1 .. Len(s) PROVE s[j] = evmLogs[m + j]
      <4>1. j \in 1 .. n - (m + 1) + 1 /\ m + 1 + j - 1 = m + j
        BY <1>4, <3>1, SMT
      <4> QED
        BY <1>6, <4>1
    <3> QED
      BY <1>2, <3>2, <3>3, SMT
  <2>2. CASE ~ (m + 1 <= n)
    BY <1>2, <1>4, <1>6, <2>2, SMT
  <2> QED
    BY <2>1, <2>2
<1>8. \A i \in DOMAIN evmLogs :
        i \in m + 1 .. m + Len(s) <=>
          /\ evm.from <= evmLogs[i].block /\ evmLogs[i].block <= evm.to
          /\ evmLogs[i].block <= head
  <2>1. evm.from \in Int /\ evm.to \in Nat
    BY LocalsAre
  <2>2. \A i \in DOMAIN evmLogs : evmLogs[i].block \in Nat
    BY <1>2, LogsAre
  <2>3. \A i \in DOMAIN evmLogs :
          i \in m + 1 .. n <=> evmLogs[i].block \in evm.from .. evm.to /\ evmLogs[i].block <= head
    BY <1>1 DEF Filtered
  <2>4. \A i \in DOMAIN evmLogs :
          evmLogs[i].block \in evm.from .. evm.to <=>
            evm.from <= evmLogs[i].block /\ evmLogs[i].block <= evm.to
    BY <2>1, <2>2, SMT
  <2> QED
    BY <1>7, <2>3, <2>4
<1> QED
  BY <1>1, <1>5, <1>6, <1>7, <1>8, Zenon

(* The scanner goes on with well typed locals. *)
LEMMA LocalsStep ==
  ASSUME EvmTypeOK, ScanBounds, EvmStep
  PROVE  evm' \in EvmLocals /\ UNCHANGED <<evmHeight, evmLogs>>
<1>0. evm \in EvmLocals /\ evmCursor \in Nat \union {NoCursor}
  BY LocalsAre, SMT DEF EvmTypeOK
<1>1. UNCHANGED <<evmHeight, evmLogs>>
  BY Zenon
     DEF EvmStep, EvmWake, EvmExit, EvmLatest, EvmFilter, EvmCallFails, EvmIncoming,
         EvmNew, EvmOutgoing, EvmSettle, EvmBreak, EvmSkip, EvmStored, EvmAdvance,
         EvmAdvanceFails, EvmDone, evmChain, evmVars
<1> SUFFICES evm' \in EvmLocals
  BY <1>1
<1>2. CASE EvmWake
  <2>1. "latest" \in {"sleep", "latest", "filter", "next", "dedupe", "settle", "store", "exited"}
    OBVIOUS
  <2> QED
    BY <1>0, <1>2, <2>1, Zenon DEF EvmWake, EvmLocals
<1>3. CASE EvmExit \/ EvmIncoming \/ EvmNew \/ EvmOutgoing \/ EvmSettle
  <2>1. PICK pc \in {"exited", "dedupe", "store", "settle"} : evm' = [evm EXCEPT !.pc = pc]
    BY <1>3 DEF EvmExit, EvmIncoming, EvmNew, EvmOutgoing, EvmSettle, EvmAt
  <2> QED
    BY <1>0, <2>1, SMT DEF EvmLocals
<1>4. CASE EvmLatest
  <2>1. PICK latest \in Nat, f \in Int : f >= 1 /\ evm' = Batch(f, latest)
    BY <1>4, LatestFacts
  <2> QED
    BY <2>1, BatchFacts
<1>5. CASE EvmFilter
  <2>1. PICK s \in Seq(Log) : evm' = [evm EXCEPT !.pc = "next", !.logs = s]
    BY <1>5, FilterFacts
  <2> QED
    BY <1>0, <2>1, Zenon DEF EvmLocals
<1>6. CASE EvmCallFails
  BY <1>6, AsleepFacts DEF EvmCallFails
<1>7. CASE EvmBreak \/ EvmSkip \/ EvmStored
  <2>1. evm.logs # <<>>
    BY <1>7 DEF ScanBounds, AtLog, EvmBreak, EvmSkip, EvmStored
  <2>2. Tail(evm.logs) \in Seq(Log) /\ <<>> \in Seq(Log)
    BY <2>1, TailFacts, EmptySeq
  <2>3. PICK s \in Seq(Log) : evm' = [evm EXCEPT !.pc = "next", !.logs = s]
    BY <1>7, <2>2 DEF EvmBreak, EvmSkip, EvmStored, NextLog, BreakOut
  <2> QED
    BY <1>0, <2>3, Zenon DEF EvmLocals
<1>8. CASE EvmAdvance \/ EvmAdvanceFails
  <2>1. evm' = Batch(evm.from + BlockBatch, evm.latest) /\ evm.pc = "next"
    BY <1>8 DEF EvmAdvance, EvmAdvanceFails, EvmDone
  <2>2. evm.from >= 1
    BY <2>1 DEF ScanBounds, Scanning, BatchBounds
  <2>3. evm.from + BlockBatch \in Int /\ evm.from + BlockBatch >= 1 /\ evm.latest \in Nat
    BY <2>2, LocalsAre, ConstantFacts, SMT
  <2> QED
    BY <2>1, <2>3, BatchFacts
<1>9. CASE UNCHANGED evmVars
  BY <1>0, <1>9 DEF evmVars
<1> QED
  BY <1>2, <1>3, <1>4, <1>5, <1>6, <1>7, <1>8, <1>9 DEF EvmStep

=============================================================================
