CONSTANTS
  p1 = p1
  p2 = p2
  a = a
  b = b
  None = None
  Procs <- MCProcs
  Contexts <- MCContexts
  Requests <- MCRequests
  MaxGen = 5
  MaxFaults = 2
SPECIFICATION FairSpec
INVARIANTS
  IInv
  ReceiptsEnforced
  StageLostOnlyWhenSettled
PROPERTIES
  ImplementsEnforcedAuthority
  SuccessIsEnforced
  DecisionCompletes
