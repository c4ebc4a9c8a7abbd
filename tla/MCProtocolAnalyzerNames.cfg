SPECIFICATION MCSpec
CONSTANTS
  Layouts <- MCLayouts
  Given <- MCGiven
  OldBytes <- MCOldBytes
  BitBytes = 10
  Formats <- MCFormats
  NoIndex <- MCNoIndex
  LongNames <- MCLongNames
  Lens = {4, 5}
  Octet <- MCOctet
  MaxProtoDataLen = 100
  Reused = {}
  SetLongNames = TRUE
INVARIANT GenerateCorrect
CHECK_DEADLOCK FALSE
