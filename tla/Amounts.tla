------------------------------ MODULE Amounts -------------------------------
(***************************************************************************)
(* The arithmetic of the sending worker (workers/processExecution.go): a   *)
(* WBGL amount, in units of 10^-18, becomes a BGL amount, in units of      *)
(* 10^-8, less the fee, and the other way round.  Both ways go through     *)
(* binary floating point: float64 for BGL, and for WBGL big.Float, which   *)
(* NewFloat makes as precise as float64.                                   *)
(*                                                                         *)
(* SatPerBGL is 10^8, WeiPerSat 10^10 and Bits 53 in the code.  All the    *)
(* BGL there will ever be, 21 * 10^14 units, leave two of the 53 bits to   *)
(* spare, and so do the amounts in the bounds of the runs.                 *)
(***************************************************************************)
EXTENDS Integers

CONSTANTS
  SatPerBGL,      \* 100000000, processExecution.go:67,74
  WeiPerSat,      \* "10000000000", processExecution.go:64
  Bits,           \* bits of the significand of a floating-point number
  FeePercentage   \* config.Config.FeePercentage

Pow2[n \in Nat] == IF n = 0 THEN 1 ELSE 2 * Pow2[n - 1]

(* The units are integers that a float64 holds, and of a deposit the fee   *)
(* leaves something to pay.                                                *)
ASSUME AmountsAssumption ==
  /\ Bits \in Nat /\ Bits >= 10
  /\ {SatPerBGL, WeiPerSat} \subseteq 2 .. Pow2[Bits - 1]
  /\ FeePercentage \in 0 .. 99

(***************************************************************************)
(* Floating point: [m, e] stands for m * 2^e.  Float(n, d, e) is the       *)
(* number nearest to (n / d) * 2^e, ties to even: the significand has its  *)
(* Bits bits when n is shifted so far that n / d has.                      *)
(***************************************************************************)
Nearest(a, b) ==
  LET q == a \div b
      r == a % b
  IN  IF 2 * r > b \/ (2 * r = b /\ q % 2 = 1) THEN q + 1 ELSE q

Shifted(n, s) == IF s < 0 THEN n \div Pow2[-s] ELSE n * Pow2[s]

Normal == Pow2[Bits - 1]

Enough(n, d, s) == Shifted(n, s) >= Normal * d

Float(n, d, e) ==
  LET s == CHOOSE s \in -2 * Bits .. 2 * Bits :
             Enough(n, d, s) /\ ~ Enough(n, d, s - 1)
  IN  IF n = 0 THEN [m |-> 0, e |-> 0]
      ELSE IF s < 0 THEN [m |-> Nearest(n, d * Pow2[-s]), e |-> e - s]
                    ELSE [m |-> Nearest(n * Pow2[s], d), e |-> e - s]

Times(x, k) == Float(x.m * k, 1, x.e)
Over(x, k)  == Float(x.m, k, x.e)

Minus(x, y) ==
  LET e == IF y.m = 0 \/ x.e < y.e THEN x.e ELSE y.e
  IN  Float(Shifted(x.m, x.e - e) - (IF y.m = 0 THEN 0 ELSE Shifted(y.m, y.e - e)), 1, e)

(* int(x), x.Int(): towards zero. *)
Truncated(x) == Shifted(x.m, x.e)

(***************************************************************************)
(* Both directions.                                                        *)
(***************************************************************************)

(* The fee of a WBGL payment is an integer. *)
Fee(amount) == (amount * FeePercentage) \div 100

(* Mutant: the fee is computed and not deducted. *)
BGLAmountGross(wei) ==
  LET amount == Over(Float(wei \div WeiPerSat, 1, 0), SatPerBGL)
  IN  Truncated(Times(amount, SatPerBGL))

(* What SendToAddress is called with, in 10^-8 BGL: eight decimals of a    *)
(* float64 name it exactly.                                                *)
BGLAmount(wei) ==
  LET amount == Over(Float(wei \div WeiPerSat, 1, 0), SatPerBGL)
      fee    == Over(Times(amount, FeePercentage), 100)
  IN  Truncated(Times(Minus(amount, fee), SatPerBGL))

(* What sendWBGL is called with for a deposit of so many 10^-8 BGL. *)
WBGLAmount(sat) ==
  LET amount == Truncated(Times(Float(sat, SatPerBGL, 0), SatPerBGL * WeiPerSat))
  IN  amount - Fee(amount)

=============================================================================
