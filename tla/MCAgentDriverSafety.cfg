\* Three messages, one of them a prompt restored from the log of a session that
\* ended at turn 4; a cancel and a disposal; listeners two deep: every notification
\* may send, cancel, remove or dispose, and so may a notification inside it.
SPECIFICATION Spec
CONSTANTS
  m1 = m1
  m2 = m2
  m3 = m3
  Messages = {m1, m2, m3}
  Causes = {"user"}
  Parked <- MCParkedOne
  FirstTurn = 4
  MaxStep = 1
  MaxMaintenance = 1
  MaxCancels = 1
  MaxDepth = 3
\* The agent may stop for good: idle or disposed, with nothing left to send.
CHECK_DEADLOCK FALSE
INVARIANTS
  IdleLogIsClosed
  EveryExitHasItsEnding
  EveryMessageInOnePlace
  SolePromptOfItsTurn
  WakeAfterAbortStartsAnotherTurn
  LatchOnlyBehindAbort
  DrainedForGood
PROPERTIES
  NothingBeginsAborted
  NothingVanishes
  LogIsWellFormed
