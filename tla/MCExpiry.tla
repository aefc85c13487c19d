------------------------------ MODULE MCExpiry ------------------------------
EXTENDS Expiry

CONSTANTS a1, h1, h2, e1, e2, e3, e4

MCPrior == [h \in HypothesisIds |-> IF h = h1 THEN 50 ELSE 30]
MCStartingReputation == [a \in AgentIds |-> 50000]
MCDeadline == [h \in HypothesisIds |-> IF h = h1 THEN 0 ELSE 1]

Forecast(id, h, a, stake, p) ==
  [kind |-> "forecast", id |-> id, hypothesis |-> h, agent |-> a,
   stake |-> stake, probability |-> p]
Outcome(id, h, o) ==
  [kind |-> "outcome", id |-> id, hypothesis |-> h, outcome |-> o]

(* Stakes of one agent on two hypotheses with different deadlines, a       *)
(* resubmission, and a resolution.                                         *)
MCMessages ==
  {Forecast(e1, h1, a1, 2, 95), Forecast(e2, h1, a1, 4, 10),
   Forecast(e3, h2, a1, 3, 80), Outcome(e4, h1, 1)}
=============================================================================
