CONSTANTS
  Contents = {a, b}
  Torn = Torn
  Ids = {i1, i2, i3, i4}
  Sources <- ThreeSources
  Retain = 2
  ClockSteps = FALSE
  None = None
SYMMETRY IdsAndContents
SPECIFICATION Spec
INVARIANTS TypeOK NeverTorn OkIsDurable EarlyFailureKeepsFile EnoughKept
PROPERTIES ReplacedIsKept RollbackRestores DequeuedIsRestored
