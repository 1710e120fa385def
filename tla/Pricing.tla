------------------------------- MODULE Pricing -------------------------------
(***************************************************************************)
(* The arithmetic of the provider's prices. The operator sets a cost in    *)
(* TON per 200 GB and month; the provider daemon is configured with a rate *)
(* per MB and day, a decimal of nine digits, and with the longest time     *)
(* between proofs for which its smallest bag still pays for one.           *)
(*                                                                         *)
(* Units: a cost is counted in ten-thousandths of a TON, a rate in         *)
(* billionths, a cost as shown in hundredths; a span in tens of seconds,   *)
(* which keeps it below 2^31.                                              *)
(***************************************************************************)
EXTENDS Integers

(* One month of 200 GB is 200 * 1024 * 30 = 6144000 MB-days, so that a cost  *)
(* of u ten-thousandths is u * 10^5 / 6144000 = u * 25 / 1536 billionths per *)
(* MB and day.                                                               *)

\* Mutant: the rate is cut off instead of rounded.
RateCutOff(u) == (25 * u) \div 1536

\* f"{rate:.9f}": the nearest billionth. The code rounds a binary fraction, which
\* at a tie may go either way: see ProviderConfig_proofs.
Rate(u) == (2 * 25 * u + 1536) \div (2 * 1536)

\* round(rate * 200 * 1024 * 30, 2): what the status shows of a rate.
CostShown(r) == (2 * 384 * r + 625) \div (2 * 625)

MaxSpanLimit == 429496729
MinMaxSpan == 259200
MinSpan == 60480

Clip(span) ==
  IF span < MinMaxSpan THEN MinMaxSpan
  ELSE IF span > MaxSpanLimit THEN MaxSpanLimit ELSE span

\* Mutant: the smallest bag is taken to be of 800 MB.
MaxSpanOfDoubleBag(u) ==
  IF u < 155 THEN MaxSpanLimit
  ELSE Clip(50 * (663552000 \div u) + (50 * (663552000 % u)) \div u)

\* 0.05 TON of proof over the rate of 400 MB per second: 66355200000 / u. The
\* quotient is taken in two parts to stay below 2^31; a cost of less than 0.0155
\* TON reaches the limit anyway.
MaxSpan(u) ==
  IF u < 155 THEN MaxSpanLimit
  ELSE LET q == 663552000 \div u
           r == 663552000 % u
       IN  Clip(100 * q + (100 * r) \div u)

\* A rate shows a cost of whole hundredths of a TON as it was set: neither rounding,
\* nine digits of a rate nor two of a cost, loses a hundredth. Any other cost is
\* shown within 0.008 TON.
ShowsCost(rate, u) ==
  LET shown == 100 * CostShown(rate)
  IN  IF u % 100 = 0 THEN shown = u ELSE shown - u <= 80 /\ u - shown <= 80

\* What the smallest bag, of 400 MB, pays over the longest span is rate * span, in
\* units of which the 0.05 TON of a proof are this many.
ProofCost == 1080000000

\* It pays for its proof once in the longest span, to within the half billionth by
\* which the rate was rounded, and no sooner unless the span is at its lower bound.
\* (At its upper bound, below 0.0155 TON, it does not.)
PaysForProof(rate, span) ==
  span < MaxSpanLimit =>
    LET error == span \div 2 + rate + 1
    IN  /\ rate * span >= ProofCost - error
        /\ span > MinMaxSpan => rate * span <= ProofCost + error

\* What set-cost and the installer accept.
AcceptedCost(u) == u > 0
=============================================================================
