SPECIFICATION FairSpec
CONSTANTS
  Replies <- AllReplies
  MaxReplies = 2
  MaxResults = 2
  UsizeMax = 3
  MaxPrefetches <- PrefetchLimits
  InitialReplySize = 1
  ReplySizes = {2}
INVARIANTS ResultsAccounted ExportedResultIsLive RowsInOrder WindowBounds
PROPERTIES CallsReturn EndMeansAllRows
