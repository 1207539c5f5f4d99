CONSTANTS
  a = a
  B = B
  C = C
  D = D
  logD = logD
  logB = logB
  isOriginalFocused = isOriginalFocused
  isModifiedFocused = isModifiedFocused
  isFocused = isFocused
  contextKeyAutorun = contextKeyAutorun
  excecutionError = excecutionError
  sparkleAutorun = sparkleAutorun
  editorOptions = editorOptions
  renderSideBySide = renderSideBySide
  optionsAutorun = optionsAutorun
  Done = Done
  None = None
  AValues <- MCAValues
  Errors = {"none", "noLocation", "location"}
  MaxDepth = 2
  MaxSets = 2
SPECIFICATION Spec
INVARIANTS
  TypeOK
  UpToDateIsCurrent
  RecomputedAtMostOncePerTransaction
  SparkleItemTracksError
  OptionsReachEditors
PROPERTIES
  ImplementsObservableValues
