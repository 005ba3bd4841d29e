SPECIFICATION FairSpec

CONSTANTS
  Entries = {e1, e2}
  Forces = {FALSE, TRUE}
  Lease = 2
  WaitTicks = 3
  MaxDrifts = 1
  MaxRollbacks = 1
  Free = Free
  NoRow = NoRow
  None = None

INVARIANT SessionsUndisturbed
INVARIANT OneOwner
INVARIANT DeletionLeavesNothing
INVARIANT WaitOutlastsLease
PROPERTY OrphansFailClosed
PROPERTY LifecycleLockFreed
