CONSTANTS
  None = None
  Corrupt = Corrupt
  MaxPrompts = 3
  MaxOSChanges = 2
  MaxReloads = 1
  A1 = A1
  A2 = A2
  A3 = A3
  MaxActions = 2
  MaxRuns = 2
  IsResponse = TRUE
  MaxRenders = 3
  MaxOther = 2
SPECIFICATION Spec
INVARIANT TypeOK
INVARIANT SettlesOnOSScheme
INVARIANT ButtonsFollowMenu
INVARIANT AnsweredOnce
CHECK_DEADLOCK FALSE
