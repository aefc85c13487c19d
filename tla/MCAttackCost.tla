----------------------------- MODULE MCAttackCost -----------------------------
EXTENDS AttackCost, TLC

CONSTANTS a1, a2, a3, shared

Report(a, p, stake, r, c) ==
  [agent |-> a, probability |-> p, stake |-> stake, reputation |-> r, cluster |-> c]

(* Roots in halves and discounts in thirds, to the nearest: the numbers of *)
(* TLC have 32 bits, and squares of sums of weights must fit.              *)
MCRoot == 1 :> 2 @@ 2 :> 3 @@ 3 :> 3 @@ 4 :> 4 @@ 8 :> 6 @@ 9 :> 6 @@ 50 :> 14
MCIndependence == <<3, 2>>

(* Reputations in tenths: 0.4 and less for the agents, 0.1 for newcomers.  *)
(* Two of the agents may cite the same evidence.                           *)
MCSubmissions ==
  {Report(a1, 20, 4, 4, a1), Report(a1, 60, 1, 4, shared), Report(a2, 30, 1, 2, shared),
   Report(a2, 99, 9, 2, a2), Report(a3, 50, 2, 1, a3)}

(* 0.1 and 0.5 of the sweep.                                               *)
MCReputations == {1, 5}
MCMaxJoined == [r \in MCReputations |-> IF r = 1 THEN 16 ELSE 6]

Rival(market, majority, confidence) ==
  [market |-> market, majority |-> majority, confidence |-> confidence]
Ratio(n, d) == [num |-> n, den |-> d]

(* The market bar: below the prior, level with a forecast, between, half a *)
(* hundredth off, at the ceiling and above it.  The others under a         *)
(* baseline: at no votes, below the prior, level with it, between, at all  *)
(* votes, and at the ceiling and above it.                                 *)
MCRivals ==
  {Rival(Ratio(25, 1), Ratio(100, 3), 30), Rival(Ratio(60, 1), Ratio(50, 1), 60),
   Rival(Ratio(45, 1), Ratio(200, 3), 98), Rival(Ratio(131, 2), Ratio(75, 1), 99),
   Rival(Ratio(99, 1), Ratio(100, 1), 100), Rival(Ratio(120, 1), Ratio(0, 1), 20)}

(* Others that the target passes with its second forecast at the latest.   *)
MCPassedRivals == {Rival(Ratio(60, 1), Ratio(100, 3), 40)}
===============================================================================
