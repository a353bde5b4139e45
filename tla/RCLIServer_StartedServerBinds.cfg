\* Expected violation of StartedServerBinds (see README).
CONSTANTS
  MaxServers = 3
  PortArgs = {0, 1, 65535, 65536}
  None = None
SPECIFICATION Spec
INVARIANT StartedServerBinds
