\* Two threads that queue two result sets and two statements for clean-up.
SPECIFICATION Spec
CONSTANTS
  Threads = {owner, t1}
  Owner = owner
  NoThread = none
  Ids = {1, 2}
  TokenMod = 2
INVARIANTS
  CleanupConserved
  DeallocateFalseMeansClosed
