CONSTANTS
    W = 4
    T_part = 2
    T_subj = 2
    p = 2
    HASH_SIZE = 3
    CHUNK = 2
    CACHE_LINE_SIZE = 2
    CHERNOFF = 4
    CAPACITY = 2
    SOLUTION_SIZE = 48
    Tasks <- MCPair
    Garbage = Garbage
SPECIFICATION FairSpec
INVARIANTS TaskExact
