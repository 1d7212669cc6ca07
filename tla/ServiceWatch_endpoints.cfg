\* The comment of WaitForEndpoint.
CONSTANTS
  s1 = s1
  s2 = s2
  Service = {s1, s2}
  Mine = s1
  Nobody = Nobody
  MaxBacklog = 2
SPECIFICATION Spec
INVARIANTS
  EndpointsWereReady
