\* Three threads (an operation, an interrupter, the next operation), no clean-up.
SPECIFICATION FairSpec
CONSTANTS
  Threads = {owner, t1, t2}
  Owner = owner
  NoThread = none
  Ids = {}
  TokenMod = 2
INVARIANTS
  TypeOK
  OpenIsUsable
  InterruptsHitTheirOperation
PROPERTIES
  ImplementsLifecycle
  TimedOperationEnds
  CancelEndsOperation
  ClosingEndsEverything
  JoinReturns
