CONSTANTS
  Width = 2
  Loopback = 0
  Variables = {1, 2, 3}
  MaxEntries = 2
  None = None
CONSTANT Netblocks <- MCNetblocks
CONSTANT Policies <- MCPolicies
SPECIFICATION Spec
INVARIANTS Decided WriteNeedsGrant
CHECK_DEADLOCK FALSE
