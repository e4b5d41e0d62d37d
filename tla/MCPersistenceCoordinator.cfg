\* Two readers and two sessions published.
SPECIFICATION FairSpec
CONSTANTS
  past = past
  repairs = repairs
  import = import
  Past = past
  Repair = repairs
  Import = import
  MaxSessions = 4
  Readers = {r1, r2}
  Starts <- MCStarts
\* Callers may have nothing more to ask.
CHECK_DEADLOCK FALSE
INVARIANTS
  CursorNamesTheLog
  ReservedIsCurrent
PROPERTIES
  RetiredIsStored
  CallsSettle
