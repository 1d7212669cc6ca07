\* What the load balancer feature reports.
CONSTANTS
  Clusters <- MCClusters
  MaxWrites = 1
SPECIFICATION Spec
INVARIANTS
  UDPAddressesAreChecked
