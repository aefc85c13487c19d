SPECIFICATION Spec
CONSTANTS
  h1 = h1  h2 = h2  h3 = h3
  Hypotheses = {h1, h2, h3}
  Impact <- MCImpact
  IdOrder <- MCIdOrder
  Priorities = {1, 2}
  Strategies <- MCStrategies
  Worlds <- MCWorlds
  Score <- MCScore
  Budget = 2
  MaxNow = 1
  MaxResolved = 1
INVARIANTS
  QueueWithinBudget
CHECK_DEADLOCK FALSE
