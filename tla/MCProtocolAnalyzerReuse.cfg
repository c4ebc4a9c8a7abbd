SPECIFICATION MCSpec
CONSTANTS
  Layouts <- MCLayouts
  Given <- MCGiven
  OldBytes <- MCOldBytes
  BitBytes = 10
  Formats <- MCFormats
  NoIndex <- MCNoIndex
  LongNames <- MCLongNames
  Lens = {0, 4, 5}
  Octet <- MCOctet
  MaxProtoDataLen = 100
  Reused = {"3050", "3052"}
  SetLongNames = FALSE
INVARIANT ParseCorrect
CHECK_DEADLOCK TRUE
