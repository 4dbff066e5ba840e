\* Entries of 1 to 3 in a table of 5, resized to 0, 2 or 7; integers of up to two further digits.
SPECIFICATION Spec
CONSTANTS
  Names = {"a", "b"}
  Values = {"x", "y"}
  EntrySize <- UnequalSizes
  StaticTable <- OneStatic
  DefaultMaxSize = 5
  Sizes = {0, 2, 7}
  Mask <- PrefixMasks
  Base = 4
  LastDigit = 2
  LastChunk = 1
  MaxHeaders = 2
  MaxInFlight = 2
INVARIANTS
  TypeOK
  TablesAgree
  SizeIsCounted
  InsertionKeepsWhatFits
  IntegersSurvive
CHECK_DEADLOCK FALSE
