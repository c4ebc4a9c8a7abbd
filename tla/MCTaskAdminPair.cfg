CONSTANTS
    Messages <- MCMessages
    Thread = {t1, t2}
    Request <- MapTasks
    Batches <- MapOnly
    Byte2 <- MCByte2
    HEAD = HEAD
    Consume = FALSE
SPECIFICATION MCSpec
CHECK_DEADLOCK FALSE
INVARIANTS
    EveryTaskKept
