\* Every selection of features that the documents name, every call failing.
CONSTANTS
  Clusters <- MCClusters
  MaxWrites = 1
SPECIFICATION MCSpec
CONSTRAINT FewLackIPs
INVARIANTS
  TypeOK
  CacheAgrees
  EveryProbeHasARow
  HeldSliceIsCurrent
  ModelledPodsExist
  NoStaleReads
  BlankReadsAreReported
  LabelFollowsTheTest
  EmptyModelIsNoticed
PROPERTIES
  LeftoversAreReported
  AtomicSpec
