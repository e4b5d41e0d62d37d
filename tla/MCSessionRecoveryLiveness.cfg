\* Crashes and failures in the middle of repairs.
SPECIFICATION FairSpec
CONSTANTS
  MaxCalls = 2
  Encodings = {TRUE, FALSE}
  MaxEvents = 6
  MaxCrashes = 2
  MaxFailures = 1
\* The bounds end the session.
CHECK_DEADLOCK FALSE
PROPERTIES
  LoadSucceeds
