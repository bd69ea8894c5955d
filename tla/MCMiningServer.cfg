CONSTANTS
    Miner = {m1, m2}
    MAX_COUNTER = 2
    SAVE_EVERY = 1
    RECORD = 2
    BUFSIZ = 3
    NET_CAP = 2
    MAX_SERVER_CRASH = 2
    MAX_MINER_CRASH = 1
SPECIFICATION FairSpec
INVARIANTS NoCounterSkipped FilesUpToDate
PROPERTIES HelloAnswered
CHECK_DEADLOCK FALSE
