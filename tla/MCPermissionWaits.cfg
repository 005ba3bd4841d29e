SPECIFICATION FairSpec
CONSTANTS
  Waits = {w1, w2}
  MaxCalls = 2
  MaxLive = 1
  MaxAttempts = 2
  Lease = 2
  WaitLease = 2
  Reviews = {"allow"}
  MaxRev = 2
  NoRow = NoRow
INVARIANTS
  OneResult
  ResultWasInForce
PROPERTIES
  ResultUnderLease
  CallsEnd
