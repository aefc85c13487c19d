SPECIFICATION PricesSpec
CONSTANTS
  a1 = a1  a2 = a2  a3 = a3  shared = shared
  Root <- MCRoot
  Independence <- MCIndependence
  MaxSharing = 2
  Prior = 30
  Submissions <- MCSubmissions
  Rivals <- MCPassedRivals
  Reputations <- MCReputations
  Stake = 2
  MaxJoined <- MCMaxJoined
INVARIANTS
  FlippedIsFree
CHECK_DEADLOCK FALSE
