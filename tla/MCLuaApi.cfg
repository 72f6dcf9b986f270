SPECIFICATION Spec
CONSTANTS
  NotAString = NotAString
  Hosts <- MCHosts
  Paths <- MCPaths
  Unsendable <- MCUnsendable
  Givens <- MCGivens
  Busy <- MCBusy
  Arrivals <- MCArrivals
  Packets <- MCPackets
  Numbers <- MCNumbers
  Calls <- MCCalls
  Bindings <- MCBindings
  Caches <- MCCaches
  Idle = Idle
CHECK_DEADLOCK FALSE
INVARIANTS
  TypeOK
  ConnectResolved
  SendsPossible
  ArgumentsKept
  MidiKept
  ParamsFollow
