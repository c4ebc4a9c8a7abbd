SPECIFICATION Spec
CONSTANTS
    Writer = {w1, w2}
    Base = 12288
    MaxNum = 100
    MaxProtocolNum = 200
    Formats <- DriverFormats
    Order <- DriverOrder
    Wanted <- DriverWanted
    MaxLost = 2
INVARIANTS WithinSet CopyComplete AllFreed
PROPERTY DestroyTerminates
CHECK_DEADLOCK FALSE
