CONSTANTS
  Calls = {c1, c2}
  SN = SN
  Nil = Nil
  Prompt = Prompt
  Broadcast = TRUE
SPECIFICATION FairSpec
PROPERTIES ImplementsRoundTrip CallReturns KeepAliveExits
CHECK_DEADLOCK FALSE
