\* The pool of goroutines and its channels, what the verdict says of every kind
\* of probe, and the refinement.
CONSTANTS
  N = 2
  Worker = {w1, w2}
  TestCases <- AllCases
  MaxRetries = 2
  Networks <- TwoNetworks
  MaxUpsets = 1
SPECIFICATION Spec
SYMMETRY WorkerSymmetry
INVARIANTS
  TypeOK
  JobsAreConserved
  NoProbeOutlivesItsAttempt
  SendsNeverBlock
  PassIsBackedByTheLastAttempt
  FailureIsJustified
  TableIsOfTheAttempt
  LogSaysTheVerdict
PROPERTIES
  AbstractSpec
