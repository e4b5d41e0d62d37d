\* Six events, three flushes, three failed writes.
SPECIFICATION FairSpec
CONSTANTS
  MaxEvents = 6
  MaxFlushes = 3
  MaxFailures = 3
\* Events and flushes are bounded, so the controller goes quiet.
CHECK_DEADLOCK FALSE
INVARIANTS
  Conservation
  NeverStranded
PROPERTIES
  OneWriteAtATime
  FlushMeansStored
  EverythingSettles
