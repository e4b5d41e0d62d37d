\* Both encodings: two crashes, one failed append.
SPECIFICATION Spec
CONSTANTS
  MaxCalls = 2
  Encodings = {TRUE, FALSE}
  MaxEvents = 10
  MaxCrashes = 2
  MaxFailures = 1
\* The bounds end the session.
CHECK_DEADLOCK FALSE
INVARIANTS
  AckedIsKept
PROPERTIES
  LoadedLogIsWhole
  LoadedRepairsAPrefix
