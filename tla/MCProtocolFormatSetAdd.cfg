SPECIFICATION Spec
CONSTANTS
    Writer = {w1, w2}
    Base = 12288
    MaxNum = 100
    MaxProtocolNum = 200
    Formats <- HighFormats
    Order <- HighOrder
    Wanted <- DriverWanted
    MaxLost = 2
INVARIANT WithinSet
CHECK_DEADLOCK FALSE
