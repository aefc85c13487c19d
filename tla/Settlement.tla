----------------------------- MODULE Settlement -----------------------------
(***************************************************************************)
(* The scoring arithmetic of core/settlement.py, core/scoring.py,          *)
(* core/reputation.py and clamp_probability (core/types.py).               *)
(*                                                                         *)
(* Every quantity is an exact integer.  A probability is a number of       *)
(* hundredths (0..100), so a Brier score and an improvement are numbers of *)
(* ten-thousandths, a quantised improvement a number of hundredths, and a  *)
(* reputation a number of hundred-thousandths.  Credits are credits.       *)
(***************************************************************************)
EXTENDS Integers

ProbFloor == 1          \* 0.01
ProbCeil == 99          \* 0.99
RepFloor == 10000       \* 0.1
RepCeil == 100000       \* 1.0
Scale == 100            \* the default "scale" of settle_forecast

Clamp(x, low, high) == IF x < low THEN low ELSE IF x > high THEN high ELSE x

ClampProbability(p) == Clamp(p, ProbFloor, ProbCeil)

(***************************************************************************)
(* (probability - outcome)^2.                                              *)
(***************************************************************************)
InvertedScore(p, o) == (100 - p - 100 * o) * (100 - p - 100 * o)    \* mutant
AbsoluteScore(p, o) == IF o = 1 THEN 100 * (100 - p) ELSE 100 * p    \* mutant
BrierScore(p, o) == (p - 100 * o) * (p - 100 * o)

Improvement(prior, p, o) == BrierScore(prior, o) - BrierScore(p, o)

(***************************************************************************)
(* Decimal.quantize(..., ROUND_HALF_EVEN) of n / d: the nearest integer,   *)
(* the even one of two equally near.                                       *)
(***************************************************************************)
RoundHalfUp(n, d) == (2 * n + d) \div (2 * d)                      \* mutant
RoundHalfEven(n, d) ==
  LET q == n \div d
      twice == 2 * (n % d)
  IN IF twice < d \/ (twice = d /\ q % 2 = 0) THEN q ELSE q + 1

(***************************************************************************)
(* settle_forecast: the improvement is rounded to 1/scale, multiplied by   *)
(* the stake and rounded to whole credits; a loss is capped at the stake.  *)
(***************************************************************************)
TruncatedDelta(stake, prior, p, o) ==                              \* mutant
  (stake * ((Improvement(prior, p, o)) \div Scale)) \div Scale
UnstakedDelta(stake, prior, p, o) ==                               \* mutant
  RoundHalfEven(50 * RoundHalfEven(Improvement(prior, p, o), Scale), Scale)
CreditDelta(stake, prior, p, o) ==
  LET quantised == RoundHalfEven(Improvement(prior, p, o), Scale)
      rounded == RoundHalfEven(stake * quantised, Scale)
  IN IF rounded < -stake THEN -stake ELSE rounded

(***************************************************************************)
(* update_reputation with decay 0.3: 0.7 * current + 0.3 * (current +      *)
(* improvement), clamped.  Three tenths of an improvement counted in       *)
(* ten-thousandths is three times as many hundred-thousandths.             *)
(***************************************************************************)
AbsoluteSkillReputation(current, improvement) ==                   \* mutant
  Clamp((7 * current + 3 * (50000 + 10 * improvement)) \div 10, RepFloor, RepCeil)
UpdateReputation(current, improvement) ==
  Clamp(current + 3 * improvement, RepFloor, RepCeil)
=============================================================================
