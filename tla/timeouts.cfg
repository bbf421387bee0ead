SPECIFICATION FairSpec
CONSTANTS
  None = None
  MaxTimeout = 3
  Durations = {0, 2, 4}
  MaxBuffered = 2
INVARIANT TimeoutsAreExact
PROPERTY DeadlineEndsOperation
CHECK_DEADLOCK FALSE
