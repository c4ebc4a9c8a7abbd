SPECIFICATION MCSpec
CONSTANTS
  Layouts <- MCLayouts
  Given <- MCGiven
  OldBytes <- MCOldBytes
  BitBytes = 10
  Formats <- MCFormats
  NoIndex <- MCNoIndex
  LongNames <- MCLongNames
  Lens = {0, 4, 5}
  Octet <- MCOctet
  MaxProtoDataLen = 28
  Reused = {"3019", "3054"}
  SetLongNames = FALSE
INVARIANTS NoOtherBit
CHECK_DEADLOCK TRUE
