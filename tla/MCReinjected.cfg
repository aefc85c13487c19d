SPECIFICATION Spec
CONSTANTS
  a1 = a1  s1 = s1  s2 = s2
  h1 = h1  nowhere = nowhere
  f1 = f1  f2 = f2  f3 = f3
  EventIds <- MCEventIds
  AgentIds = {a1, s1, s2}
  HypothesisIds = {h1, nowhere}
  Agents = {a1}
  Hypotheses = {h1}
  Prior <- MCPrior
  StartingReputation <- MCStartingReputation
  Grant = 5
  StakeMin = 1
  StakeMax = 4
  SourceIds = {f1, f2, f3, h1, nowhere}
  World <- MCWorld
  Injections <- MCInjections
  Resolutions = {h1, nowhere}
  WorkerRuns = FALSE
  BatchSize = 1
  MaxRequests = 5
  MaxSecond = 1
INVARIANTS
  CreditsNonNegative
CHECK_DEADLOCK FALSE
