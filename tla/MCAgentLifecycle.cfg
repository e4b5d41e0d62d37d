\* One or two attempts of the factory and a guest, see MCPlans.
SPECIFICATION FairSpec
CONSTANTS
  a1 = a1
  a2 = a2
  g1 = g1
  i1 = i1
  i2 = i2
  Attempts = {a1, a2}
  Guests = {g1}
  Ids = {i1, i2}
  Plans <- MCPlans
  NoOne = NoOne
  MaxDepth = 2
\* Everything may be over.
CHECK_DEADLOCK FALSE
INVARIANTS
  LeavesQuiescent
  RejectedLeavesNothing
  FactoryQuiescent
PROPERTIES
  Directories
  HandedOutAlive
  LifecyclesSettle
  InitiatorsDrain
