SPECIFICATION FairSpec
CONSTANTS
  Revisions = {1, 2}
  Digests = {1, 2, 3}
  Compatible = {1, 2}
  ReceiptLimit = 2
  MaxAttempts = 2
  MaxStops = 0
  MaxFaults = 0
  MaxVanishes = 0
  MaxUses = 0
PROPERTY PruneFinishes
CHECK_DEADLOCK FALSE
