SPECIFICATION FairSpec
CONSTANTS
  Replies <- PlanReplies
  MaxReplies = 1
  MaxResults = 0
  UsizeMax = 2
  MaxPrefetches <- NoLimit
  InitialReplySize = 1
  ReplySizes = {}
PROPERTY EarlierResultsAreDiscarded
