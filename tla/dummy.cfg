CONSTANTS
  Clients = {c1, c2, c3}
  MaxLines = 2
  None = None
SPECIFICATION FairSpec
INVARIANTS DummyInvariant UnblockReachesAll
PROPERTIES ShutdownCompletes
CHECK_DEADLOCK FALSE
