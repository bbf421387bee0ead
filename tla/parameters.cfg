SPECIFICATION Spec
CONSTANTS
  Numbers <- TheNumbers
  I32Max <- SmallI32
  MinHashDigits = 2
  MaxHashDigits = 3
  TypedInputs <- Typed
  NamedInputs <- Named
  Urls <- AllUrls
  Databases <- NamesAndUrls
  MaxCalls = 3
INVARIANTS UrlRoundTrip ValidatedIsSound
PROPERTY FailedCallsChangeNothing
CHECK_DEADLOCK FALSE
