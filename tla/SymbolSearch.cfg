CONSTANTS
  p1 = p1
  p2 = p2
  p3 = p3
  None = None
  Providers = {p1, p2, p3}
  Resolvable <- MCResolvable
  Answers <- MCAnswers
  MaxRegistrations = 3
  MaxEdits = 1
  MaxRuns = 2
  D = D
  P1 = P1
  P2 = P2
  Profiles = {D, P1, P2}
  Default = D
  NameRank <- MCNameRank
  ServiceRank <- MCServiceRank
  MaxPending = 1
  MaxChanges = 2
  t1 = t1
  t2 = t2
  Target = Target
  Other = Other
  Instances = {t1, t2}
  MaxAdds = 2
  Renderers = {r1, r2}
  Contributed = {r1}
  Subscribers = {s1, s2}
  MaxEmitters = 3
  MaxPosts = 2
  Types = {Files, Commands}
  MaxHandles = 2
SPECIFICATION SymbolsSpec
INVARIANTS
  RegistryMatchesLiveRegistrations
  FilterSplitAsDocumented
  BreadcrumbsOutermostFirst
  TreeGroupsConflictsByProfile
  ListedCapabilitiesForwarded
  RelaysTypeOK
  EveryMessageReachesSubscribers
CHECK_DEADLOCK FALSE
