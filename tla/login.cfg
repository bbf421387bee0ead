SPECIFICATION FairSpec
CONSTANTS
  MaxLogins = 3
  MaxAddresses = 2
  Levels = {2, 6}
  SecondsEast <- Offsets
  Queries <- SomeQueries
INVARIANTS TlsNeverDowngraded CredentialsBelongTogether OptionsReachTheServer
PROPERTY LoginEnds
