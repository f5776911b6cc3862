CONSTANTS
  Slots = {s1}
  Absent = Absent
SPECIFICATION Spec
INVARIANT NothingReplacedAfterReturn
