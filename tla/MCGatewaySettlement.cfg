SPECIFICATION Spec

CONSTANTS
  Plans <- AllPlans
  Purges = {FALSE, TRUE}
  Addrs = {1, 2}
  ContainerIDs <- IDs
  Drifts <- AllDrifts
  MaxRevision = 3
  MaxFaults = 2
  MaxDrifts = 2
  None = None
  Fence = Fence

INVARIANT FenceCoversDisagreement
INVARIANT ReceiptsTrue
PROPERTY ImplementsPromise
