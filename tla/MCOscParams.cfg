\* A client may lose one message in a row, beats every second, and expires
\* after three.
SPECIFICATION FairSpec
CONSTANTS
  Addrs = {a1, a2}
  Params <- MCParams
  Readable <- MCReadable
  Writable <- MCWritable
  Flaky = {}
  Bound <- MCBound
  Values = {0, 1}
  Nothing = Nothing
  Timeout = 3
  EVICTION_INTERVAL = 2
  HeartbeatInterval = 2
  TickGap = 1
  HeartbeatDelay = 1
  MaxLost = 1
CHECK_DEADLOCK FALSE
INVARIANTS
  TypeOK
  SubscribersCaughtUp
  CacheCurrent
  StaleBound
  BeatingStays
PROPERTIES
  SubscriptionsSettle
