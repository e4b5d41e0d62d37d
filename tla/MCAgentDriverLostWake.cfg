\* A listener of a clearing cancel's discards wakes the agent.
SPECIFICATION Spec
CONSTANTS
  m1 = m1
  m2 = m2
  m3 = m3
  Messages = {m1, m2}
  Causes = {"user"}
  Parked <- MCParkedNone
  FirstTurn = 0
  MaxStep = 2
  MaxMaintenance = 0
  MaxCancels = 2
  MaxDepth = 3
\* The agent may stop for good: idle or disposed, with nothing left to send.
CHECK_DEADLOCK FALSE
INVARIANTS
  AtRestOwesNoWake
