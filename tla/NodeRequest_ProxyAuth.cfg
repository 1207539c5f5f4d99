CONSTANTS
  C1 = C1
  C2 = C2
  None = None
  Configs <- MCConfigs
  FollowRedirects = 3
  MaxConfigChanges = 2
SPECIFICATION Spec
INVARIANT ProxyAuthMatchesProxy
CHECK_DEADLOCK FALSE
