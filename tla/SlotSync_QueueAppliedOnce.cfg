CONSTANTS
  Slots = {s1, s2}
  Versions = {a, b}
  Corrupt = Corrupt
  None = None
  Plans <- Relaunched
SYMMETRY Symmetry
SPECIFICATION Spec
CHECK_DEADLOCK FALSE
INVARIANT QueueAppliedOnce
