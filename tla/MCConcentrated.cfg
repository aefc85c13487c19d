SPECIFICATION PricesSpec
CONSTANTS
  a1 = a1  a2 = a2  a3 = a3  shared = shared
  Root <- MCRoot
  Independence <- MCIndependence
  MaxSharing = 2
  Prior = 30
  Submissions <- MCSubmissions
  Rivals <- MCRivals
  Reputations <- MCReputations
  Stake = 2
  MaxJoined <- MCMaxJoined
INVARIANTS
  ConcentratingCostsLess
CHECK_DEADLOCK FALSE
