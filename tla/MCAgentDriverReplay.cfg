\* A latched wake is replayed although its own message was removed.
SPECIFICATION Spec
CONSTANTS
  m1 = m1
  m2 = m2
  m3 = m3
  Messages = {m1, m2}
  Causes = {"user"}
  Parked <- MCParkedNone
  FirstTurn = 0
  MaxStep = 2
  MaxMaintenance = 1
  MaxCancels = 1
  MaxDepth = 2
\* The agent may stop for good: idle or disposed, with nothing left to send.
CHECK_DEADLOCK FALSE
PROPERTIES
  ReplayHoldsItsWake
