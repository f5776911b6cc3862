CONSTANTS
  repplus = repplus
  rep = rep
  prefixed = prefixed
  Names <- ThreeNames
  Priority <- Priorities
  Contents = {a, b}
  Torn = Torn
  Blocks = {1, 2}
  ClockRight = TRUE
  None = None
  Writes = 3
SPECIFICATION Spec
CHECK_DEADLOCK FALSE
INVARIANTS TypeOK BatchIsToldTheTruth CommittedIsShown
PROPERTY UploadIsAtomic
