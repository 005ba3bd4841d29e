SPECIFICATION FairSpec

CONSTANTS
  Plans <- AllPlans
  Purges = {TRUE}
  Addrs = {1, 2}
  ContainerIDs <- IDs
  Drifts = {"upgrade"}
  MaxRevision = 3
  MaxFaults = 2
  MaxDrifts = 1
  None = None
  Fence = Fence

PROPERTY SettlementCompletes
