SPECIFICATION FairSpec
CONSTANTS
  Cap = 2
  TickMod = 4
  DefaultBpm = 12000
  NaN = NaN
  BpmArgs = {1}
CHECK_DEADLOCK FALSE
PROPERTY
  ShutdownJoins
