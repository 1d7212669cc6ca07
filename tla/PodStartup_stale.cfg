\* The comment of podRunning.
CONSTANTS
  N = 2
  PollTimes = 2
  MaxPolls = 5
  MaxUpsets = 2
SPECIFICATION Spec
INVARIANTS
  StaleOnOwnEvidence
