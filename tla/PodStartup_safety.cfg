\* Setup, the udp test and Finish over a cluster of three nodes.
CONSTANTS
  N = 3
  PollTimes = 2
  MaxPolls = 5
  MaxUpsets = 2
SPECIFICATION FairSpec
INVARIANTS
  TypeOK
  ModelMatchesCluster
  OnlyStalePodsAreDropped
  AddressesFollowThePolls
  GivenUpOnPendingPolls
  SuccessMeansCleanedUp
PROPERTIES
  SuiteEnds
