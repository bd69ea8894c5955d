SPECIFICATION Spec
CONSTANTS
    opt_queue = 1
    InitialQueue = 0
    MaxCounter = 4
    MaxSpurious = 1
    ARRAY_SIZE = 3
    MAX_WORK_NUM = 2
    MAX_WORK_QUEUE_NUM = 2
    MAX_DEAL_QUEUE_NUM = 2
    SEND_FULL_SPACE = 2
    ERROR_LIMIT = 0
    DeviceFifo = 2
    MaxErrors = 1
    MaxNonces = 1
    MaxWire = 1
INVARIANTS StagedBounded RingIsQueued CountersExact
PROPERTIES MinerFed
CHECK_DEADLOCK FALSE
