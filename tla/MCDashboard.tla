---------------------------- MODULE MCDashboard ----------------------------
EXTENDS Dashboard

CONSTANTS a1, s1, s2, h1, nowhere, f1, f2, f3

MCPrior == [h \in HypothesisIds |-> 30]
MCStartingReputation == [a \in AgentIds |-> IF a = a1 THEN 90000 ELSE RepFloor]
MCEventIds == SourceIds \X (0..MaxSecond)

Forecast(name, h, a, stake, p) ==
  [kind |-> "forecast", id |-> name, hypothesis |-> h, agent |-> a,
   stake |-> stake, probability |-> p]

MCWorld == <<Forecast(f1, h1, a1, 3, 20)>>

(* A flood of one hypothesis, a smaller one by an agent of the first, and  *)
(* one whose target does not exist.                                        *)
MCInjections ==
  {[agents |-> {s1, s2},
    forecasts |-> <<Forecast(f2, h1, s1, 2, 90), Forecast(f3, h1, s2, 1, 88)>>],
   [agents |-> {s1}, forecasts |-> <<Forecast(f2, h1, s1, 4, 92)>>],
   [agents |-> {s1, s2},
    forecasts |-> <<Forecast(f2, nowhere, s1, 2, 90),
                    Forecast(f3, nowhere, s2, 1, 88)>>]}
=============================================================================
