SPECIFICATION Spec
CONSTANTS
  HeaderNumbers = {0, 1, 2, 3, 7}
  MaxSeen = 3
  MaxScale = 7
  MicroDigits = 6
  YearWidth <- YearWidthI16
  FieldWidth <- FieldWidthU8
  MicroWidth <- MicroWidthBits
  Responses <- EmptyThenExplain
  Cut = {}
  Widths <- TheWidths
  Compared <- TheCompared
  Temporals <- TheTemporals
INVARIANT NextRowTells
CHECK_DEADLOCK FALSE
