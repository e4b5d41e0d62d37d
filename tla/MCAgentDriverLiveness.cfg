\* Two messages and two cancels under the driver's fairness; one step may owe another.
SPECIFICATION FairSpec
CONSTANTS
  m1 = m1
  m2 = m2
  m3 = m3
  Messages = {m1, m2}
  Causes = {"user"}
  Parked <- MCParkedNone
  FirstTurn = 0
  MaxStep = 1
  MaxMaintenance = 1
  MaxCancels = 2
  MaxDepth = 2
\* The agent may stop for good: idle or disposed, with nothing left to send.
CHECK_DEADLOCK FALSE
PROPERTIES
  OwedWakeIsDelivered
  DisposalQuiesces
