\* What the label features say that they verify.
CONSTANTS
  Clusters <- MCClusters
  MaxWrites = 1
SPECIFICATION Spec
INVARIANTS
  ToggledServiceIsProbed
