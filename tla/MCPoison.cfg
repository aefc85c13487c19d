SPECIFICATION FairSpec
CONSTANTS
  a1 = a1  a2 = a2  ghost = ghost
  h1 = h1  h2 = h2  nowhere = nowhere
  e1 = e1  e2 = e2  e3 = e3  e4 = e4  e5 = e5  e6 = e6
  EventIds = {e1, e2, e3, e4, e5, e6}
  AgentIds = {a1, a2, ghost}
  HypothesisIds = {h1, h2, nowhere}
  Agents = {a1, a2}
  Hypotheses = {h1, h2}
  Prior <- MCPrior
  StartingReputation <- MCStartingReputation
  Grant = 5
  StakeMin = 1
  StakeMax = 4
  Messages <- TooLate
  MaxPublished = 3
  MaxCrashes = 0
  BatchSize = 2
PROPERTIES
  EveryEventRecorded
