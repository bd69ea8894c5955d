CONSTANTS
    Miner = {m1}
    MAX_COUNTER = 4
    SAVE_EVERY = 1
    RECORD = 2
    BUFSIZ = 3
    NET_CAP = 2
    MAX_SERVER_CRASH = 1
    MAX_MINER_CRASH = 1
SPECIFICATION FairSpec
INVARIANTS WorkFileAligned
CHECK_DEADLOCK FALSE
