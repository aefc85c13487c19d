SPECIFICATION CoreSpec
CONSTANTS
  Stakes <- MCStakes
  Priors <- MCPriors
  Probabilities <- MCProbabilities
  Earned <- MCEarned
  a1 = a1  a2 = a2  a3 = a3  shared = shared
  Root <- MCRoot
  Independence <- MCIndependence
  MaxSharing = 2
  Prior = 30
  Submissions <- MCSubmissions
  Rivals <- MCRivals
  Reputations <- MCReputations
  Stake = 2
  MaxJoined <- MCMaxJoined
  h1 = h1  h2 = h2  h3 = h3
  p1 = p1  p2 = p2
  Hypotheses = {h1, h2, h3}
  Impact <- MCImpact
  IdOrder <- MCIdOrder
  Priorities = {1, 2}
  Strategies <- MCStrategies
  Worlds <- MCWorlds
  Score <- MCScore
  Budget = 2
  MaxNow = 1
  MaxResolved = 2
  Pages = {p1, p2}
  MaxQueue = 1
  MaxBroadcasts = 2
  MaxConnects <- MCMaxConnects
INVARIANTS
  RoundsToNearestEven
  LossCapped
  DeltaNearExact
  SameDirection
  CloserNeverPaysLess
  HonestyPays
  MarketPriceIsLeast
  BaselinePricesAreLeast
  SpreadingCostsNoMore
  AttacksArePaidFor
  TypeOK
  OpenWithinBudget
  RanksAreAPermutation
  NothingOutranked
  NoFlicker
  ComparesLikeWithLike
  BaselinesHearTheSame
  PagesCatchUp
CHECK_DEADLOCK FALSE
