\* The seven Setups over a namespace with one other service.
CONSTANTS
  s1 = s1
  s2 = s2
  Service = {s1, s2}
  Mine = s1
  Nobody = Nobody
  MaxBacklog = 2
SPECIFICATION FairSpec
INVARIANTS
  TypeOK
  AnswersWereTrue
PROPERTIES
  NothingIsMissed
  SetupSpec
  SetupEnds
