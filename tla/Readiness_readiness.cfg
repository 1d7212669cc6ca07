\* Two pods at most, two cases, three rounds, one probe that fails on its own.
CONSTANTS
  Node = {p1, p2}
  Case = {tcp, udp}
  MaxTries = 3
  MaxUpsets = 1
SPECIFICATION FairSpec
INVARIANTS
  TypeOK
  ReadyIsBacked
  FailureIsBacked
PROPERTIES
  WaitEnds
