CONSTANTS
  C1 = C1
  C2 = C2
  None = None
  FollowRedirects = 3
  MaxConfigChanges = 2
  Texts = {T1, T2}
  Empty = Empty
  A1 = A1
  A2 = A2
  MaxConnects = 2
SPECIFICATION FairSpec
INVARIANT TypeOK
INVARIANT RedirectsFollowedUpToLimit
INVARIANT CancelAbortsEveryHop
INVARIANT ResolvesWithLastAttempt
INVARIANT DeliveredMatchesMenuWhenSettled
PROPERTY CancelledRequestSettles
CHECK_DEADLOCK FALSE
