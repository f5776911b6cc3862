CONSTANTS
  Slots = {s1, s2}
  Absent = Absent
SPECIFICATION FairSpec
INVARIANTS TypeOK BarrierHolds ReturnedMeansClosed PrelaunchSeesRestore FreeLaneIsSettled
PROPERTIES PreflightReturns LaneIsFreed
