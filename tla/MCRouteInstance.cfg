SPECIFICATION FairSpec
CONSTANTS
  Cap = 2
  TickMod = 4
  DefaultBpm = 12000
  NaN = NaN
  BpmArgs <- MCBpmArgs
CHECK_DEADLOCK FALSE
INVARIANTS
  TypeOK
  HooksPaired
PROPERTIES
  TickStreamSpec
  AcceptedShutdownEnds
  TimerProgresses
