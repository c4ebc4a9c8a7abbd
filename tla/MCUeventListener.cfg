SPECIFICATION Spec
CONSTANTS
    Datagrams <- TestDatagrams
    UEVENT_MSG_LEN = 11
    RcvBuf = 2
    MaxSent = 4
INVARIANTS PrintedGenuine PrintedInOrder
PROPERTY EventuallyPrinted
CHECK_DEADLOCK FALSE
