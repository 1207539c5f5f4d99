CONSTANTS
  MaxExtChannels = 2
  MaxOpening = 2
  L1 = L1
  None = None
  LogChannels <- MCLogChannels
  Levels <- MCLevels
  StoredId <- MCStoredId
  Notebooks = {n1}
  NoEditor = NoEditor
  NoNotebook = NoNotebook
  G1 = G1
  G2 = G2
  G3 = G3
  R1 = R1
  T1 = T1
  T2 = T2
  Interactive = T2
  Groups <- MCGroups
  WindowOf <- MCWindowOf
  Resources <- MCResources
  Types <- MCTypes
  MaxWidgets = 3
  MaxTokens = 4
SPECIFICATION WorkbenchSpec
INVARIANT WorkbenchTypeOK
INVARIANT ContextKeysDescribeActive
INVARIANT ExtHostSeesVisibleChannel
INVARIANT ViewKeyTracksSettingAndRegistration
INVARIANT WidgetHeldOnceOrDisposed
INVARIANT NoDuplicateType
INVARIANT WidgetBelongsToOpenEditor
INVARIANT BorrowNeverYieldsDisposed
INVARIANT InteractiveKeyTracksEditors
