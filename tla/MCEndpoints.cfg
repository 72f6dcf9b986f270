SPECIFICATION Spec
CONSTANTS
  Daemons = {d1, d2}
  System = {d1}
  Clients = {c1, c2}
  Ports = {9001}
  Needs <- MCNeeds
  Packets <- MCPackets
  QueueCap = 1
  MaxStarts = 2
  Nobody = Nobody
CHECK_DEADLOCK FALSE
INVARIANTS
  TypeOK
  AloneServes
  ReleasedIsClosed
PROPERTIES
  Answered
