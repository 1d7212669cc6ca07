\* Termination: who is waited for, what each step uses up, and, under the fairness
\* of the Go scheduler and of the cluster, that the call and the goroutines end.
CONSTANTS
  N = 2
  Worker = {w1, w2}
  TestCases <- LiveCases
  MaxRetries = 2
  Networks <- OneNetwork
  MaxUpsets = 1
SPECIFICATION FairSpec
INVARIANTS
  CallerIsServed
PROPERTIES
  StepsRunOut
  ValidationEnds
  NoGoroutineLeaks
