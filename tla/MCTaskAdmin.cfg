CONSTANTS
    Messages <- MCMessages
    Thread = {t1, t2}
    Request <- MCRequest
    Batches <- MCBatches
    Byte2 <- MCByte2
    HEAD = HEAD
    Consume = TRUE
SPECIFICATION MCSpec
CHECK_DEADLOCK FALSE
INVARIANTS
    TasksKept
    RealTimeOrder
    PartsInOrder
    WithinMessage
