\* Console calls against server threads: the properties that hold.
CONSTANTS
  MaxServers = 3
  PortArgs = {0, 1, 65535, 65536}
  None = None
SPECIFICATION Spec
INVARIANT LiveServerReachable
INVARIANT PortHeldByListener
PROPERTY StoppedServerExits
PROPERTY ServiceRefinement
