SPECIFICATION Spec
CONSTANTS
  HeaderNumbers = {0, 1, 2, 3, 7}
  MaxSeen = 3
  MaxScale = 7
  MicroDigits = 6
  YearWidth <- YearWidthI16
  FieldWidth <- FieldWidthU8
  MicroWidth <- MicroWidthBits
  Responses <- AllResponses
  Cut <- CutResponses
  Widths <- TheWidths
  Compared <- TheCompared
  Temporals <- TheTemporals
INVARIANTS
  ReadsWhatWasSent
  ConversionsAreExact
CHECK_DEADLOCK FALSE
