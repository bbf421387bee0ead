SPECIFICATION FairSpec
CONSTANTS
  ChunkSize = 2
  MaxWrite = 5
  MaxBytes = 6
  MaxRequests = 2
INVARIANTS TransferInStep FileIsWhole OkMeansNoTrouble
PROPERTY UploadEnds
