SPECIFICATION Spec
CONSTANTS
  Routes = {"t", "t2"}
  PrefixOf <- MCPrefix
  PortIds <- MCPortIds
  Inputs <- MCInputs
  Sources <- MCSources
  Sinks <- MCSinks
  Scripts = {"b"}
  Ports <- MCPorts
  Connects <- MCConnects
  Free = Free
  Boot = {"t2"}
  MaxClients = 6
  MaxStarts = 2
  MaxPlugs = 2
CHECK_DEADLOCK FALSE
INVARIANT
  HotPlugged
