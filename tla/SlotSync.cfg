CONSTANTS
  Slots = {s1, s2}
  Versions = {a, b, c}
  Corrupt = Corrupt
  None = None
  Plans <- AllPlans
SYMMETRY Symmetry
CONSTRAINT TwoEvents
SPECIFICATION Spec
CHECK_DEADLOCK FALSE
INVARIANTS TypeOK BaseWasVerified PullIsJustified
PROPERTIES UploadsAreAsked SavesAreKept
PROPERTY IdleMeansSynced
