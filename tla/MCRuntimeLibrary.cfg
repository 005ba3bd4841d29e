SPECIFICATION FairSpec
CONSTANTS
  Revisions = {1, 2}
  Digests = {1, 2, 3}
  Compatible = {1, 2}
  ReceiptLimit = 2
  MaxAttempts = 2
  MaxStops = 2
  MaxFaults = 1
  MaxVanishes = 1
  MaxUses = 1
INVARIANTS
  HistoryBacked
  RetirementFollows
  RuntimeLeavesNothing
PROPERTIES
  TagsKept
  
CHECK_DEADLOCK FALSE
