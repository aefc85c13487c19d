------------------------------ MODULE MCWorker ------------------------------
EXTENDS Worker

CONSTANTS a1, a2, ghost, h1, h2, nowhere, e1, e2, e3, e4, e5, e6

MCPrior == [h \in HypothesisIds |-> IF h = h1 THEN 50 ELSE 30]
MCStartingReputation == [a \in AgentIds |-> IF a = a1 THEN 99000 ELSE 15000]

Forecast(id, h, a, stake, p) ==
  [kind |-> "forecast", id |-> id, hypothesis |-> h, agent |-> a,
   stake |-> stake, probability |-> p]
Outcome(id, h, o) ==
  [kind |-> "outcome", id |-> id, hypothesis |-> h, outcome |-> o]

Signal(id) == [kind |-> "signal", id |-> id]

(* A forecast, a larger resubmission, a forecast that competes for the     *)
(* same balance, two contradictory resolutions, and a forecast on an       *)
(* unknown hypothesis under the event id of one of them.                   *)
OneAgent ==
  {Forecast(e1, h1, a1, 2, 99), Forecast(e2, h1, a1, 4, 0),
   Forecast(e3, h2, a1, 3, 80),
   Outcome(e4, h1, 1), Outcome(e5, h1, 0), Forecast(e4, nowhere, a1, 1, 50)}

(* A forecast, its settlement and a resubmission that comes too late.      *)
TooLate ==
  {Forecast(e1, h1, a1, 2, 99), Outcome(e4, h1, 1), Forecast(e2, h1, a1, 3, 90)}

(* Nothing here makes a handler raise, in whatever order it arrives.       *)
Digestible ==
  {Forecast(e1, h1, a1, 2, 99), Forecast(e2, h2, a1, 4, 0),
   Forecast(e3, h1, a2, 3, 60), Outcome(e4, h1, 1)}

(* Nor here: with an unknown agent, a stake out of range, and one event    *)
(* id (e6) for two messages.                                               *)
Tolerated ==
  Digestible \cup
  {Forecast(e5, h1, ghost, 2, 50), Forecast(e6, h1, a1, 0, 50), Signal(e6)}
=============================================================================
