SPECIFICATION Spec
CONSTANTS
  mom = mom
  boss = boss
  readUp = readUp
  plus = plus
  Slots = {s1}
  Base <- TheBase
  Plus <- ThePlus
  Mom = mom
  ReadUp = readUp
  Schema <- TheSchema
  Group <- TheGroup
  Attempts = 2
  CrcChecked = TRUE
  MaxCount = 2
  Events = 3
  None = None
INVARIANTS TypeOK OkMeansUnlocked UnlocksAreEarned
PROPERTIES SteamOnlyGrows ExtrasAreKept
CHECK_DEADLOCK FALSE
