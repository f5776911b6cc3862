CONSTANTS
  Slots = {1, 2}
  Dirs = {1, 2}
  Repentance = {1}
  Disks <- SomeDisks
  Others <- SomeOthers
  Changes = 2
  None = None
SPECIFICATION Spec
INVARIANTS
  TypeOK
  ExcludedIsLeftAlone
PROPERTIES
  NewestGenerationOnly
  RestoreReachesLiveSave
