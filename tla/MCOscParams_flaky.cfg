\* A get() that may raise: what a subscriber is then not told.
SPECIFICATION Spec
CONSTANTS
  Addrs = {a1, a2}
  Params = {"volume", "meter"}
  Readable = {"volume", "meter"}
  Writable = {"volume"}
  Flaky = {"meter"}
  Bound <- MCFlakyBound
  Values = {0, 1}
  Nothing = Nothing
  Timeout = 2
  EVICTION_INTERVAL = 1
  HeartbeatInterval = 1
  TickGap = 1
  HeartbeatDelay = 1
  MaxLost = 0
INVARIANT
  HealthyParamsPushed
