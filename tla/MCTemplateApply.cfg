SPECIFICATION FairSpec
CONSTANTS
  Texts <- MCTexts
  BodyOf <- MCBodyOf
  Initial = 1
  Submitted = {1, 2}
  MaxEdits = 2
  MaxFaults = 2
  None = None
  Partial = Partial
  Torn = Torn
INVARIANTS
  BaseFollowsActive
  EditsKept
PROPERTIES
  ApplyFinishes
CHECK_DEADLOCK FALSE
