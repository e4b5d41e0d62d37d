\* A token-limited step is steered into one that calls tools.
SPECIFICATION Spec
CONSTANTS
  m1 = m1
  m2 = m2
  m3 = m3
  Messages = {m1, m2}
  Causes = {"user"}
  Parked <- MCParkedNone
  FirstTurn = 0
  MaxStep = 3
  MaxMaintenance = 0
  MaxCancels = 0
  MaxDepth = 2
\* The agent may stop for good: idle or disposed, with nothing left to send.
CHECK_DEADLOCK FALSE
INVARIANTS
  StoppingOwesNothing
