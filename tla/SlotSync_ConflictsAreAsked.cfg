CONSTANTS
  Slots = {s1, s2}
  Versions = {a, b, c}
  Corrupt = Corrupt
  None = None
  Plans <- Restored
SYMMETRY Symmetry
SPECIFICATION Spec
CHECK_DEADLOCK FALSE
INVARIANT ConflictsAreAsked
