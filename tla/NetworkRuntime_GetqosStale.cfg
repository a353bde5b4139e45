CONSTANTS
  sA = sA
  sB = sB
  sC = sC
  sD = sD
  r1n1 = r1n1
  r1n2 = r1n2
  h1 = h1
  b1 = b1
  b2 = b2
  n1 = n1
  c0 = c0
  c1 = c1
  nbad = nbad
  None = None
  Console = Console
  Intfs <- MCIntfs
  OvsPorts <- MCOvsPorts
  Available <- MCAvailable
  Bands = {b1, b2}
  Netems = {n1}
  BadNetems = {nbad}
  Threads = {Console}
  ConfigScripts <- MCConfigScripts
  SwitchNames = {sA, sB, sC, sD, r1n1, r1n2}
  HostNames = {h1, c1}
  ControllerNames = {c0}
  RingNums = {0, 1}
  AutoName <- MCAutoName
  DpidBase = 16
  DemoBand = b1
  DemoNetem = n1
  Controllers = {c0}
  Hosts = {c1}
  Collector = c1
  ConsolePairs <- MCConsolePairs
  ControlArgs <- MCControlArgs
  ControlOps = {"start", "stop", "view", "restart"}
  MaxDaemons = 2
  NoVaranusScripts <- MCNoVaranusScripts
SPECIFICATION Spec
INVARIANT GetqosReportsDevice
