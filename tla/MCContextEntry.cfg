SPECIFICATION FairSpec
CONSTANTS
  None = None
  Pointer = Pointer
  Other = Other
  PolicyOf <- MCPolicyOf
  Materials = {1, 2}
  MaxGen = 9
  MaxFaults = 2
  MaxLosses = 2
INVARIANTS
  AttachedToCurrent
  RuntimeFollowsAuthority
PROPERTIES
  HomeMadeOnce
  EntryServed
