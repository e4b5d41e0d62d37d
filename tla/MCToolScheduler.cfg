\* Four calls in a pool of two, any mix of classes, two changes of class.
SPECIFICATION FairSpec
CONSTANTS
  N = 4
  MaxParallel = 2
  MaxChanges = 2
\* The step is over once it has closed.
CHECK_DEADLOCK FALSE
INVARIANTS
  EveryCallAnsweredInOrder
  PoolIsBounded
  DrainedBeforeClosing
  CitesItsCall
  GroupsCommitWhatTheyStart
PROPERTIES
  NothingStartsOnceStopped
  LogIsWellFormed
  StepCloses
