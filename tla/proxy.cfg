CONSTANTS
  h1 = h1
  h2 = h2
  p1 = p1
  p2 = p2
  Hosts = {h1, h2}
  Ports = {p1, p2}
  Clients = {c1}
  MaxVersion = 3
  Nil = Nil
CONSTANT Configs <- MCConfigs
SPECIFICATION FairSpec
INVARIANTS ProxyInvariant ListenersMatch OneQueue
PROPERTIES ImplementsRoutingSpec CommitRepairs Conserved ShutdownCompletes NewestApplied
CHECK_DEADLOCK FALSE
