SPECIFICATION Spec
CONSTANTS
  a1 = a1
  h1 = h1  h2 = h2
  e1 = e1  e2 = e2  e3 = e3  e4 = e4
  EventIds = {e1, e2, e3, e4}
  AgentIds = {a1}
  HypothesisIds = {h1, h2}
  Agents = {a1}
  Hypotheses = {h1, h2}
  Prior <- MCPrior
  StartingReputation <- MCStartingReputation
  Grant = 5
  StakeMin = 1
  StakeMax = 4
  Messages <- MCMessages
  Deadline <- MCDeadline
  Horizon = 2
  Subjects = {"forecasts", "outcomes"}
  MaxRedeliveries = 1
  MaxPublished = 3
INVARIANTS
  GoneAreRecorded
  GivenUpInTime
PROPERTIES
  CreditsAreConserved
  ResolutionIsFinal
  NoneCirculates
CHECK_DEADLOCK FALSE
