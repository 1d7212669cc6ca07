\* The comment of Reset.
CONSTANTS
  Clusters <- MCClusters
  MaxWrites = 1
SPECIFICATION Spec
INVARIANTS
  NoTaint
