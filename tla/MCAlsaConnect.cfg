SPECIFICATION Spec
CONSTANTS
  Routes = {"t", "t2"}
  PrefixOf <- MCDistinct
  PortIds <- MCPortIds
  Inputs <- MCInputs
  Sources <- MCSources
  Sinks <- MCSinks
  Scripts <- MCScripts
  Ports <- MCPorts
  Connects <- MCConnects
  Free = Free
  Boot = {"t"}
  MaxClients = 6
  MaxStarts = 2
  MaxPlugs = 2
CHECK_DEADLOCK FALSE
INVARIANTS
  TypeOK
  LoadedOnly
  Wired
