CONSTANTS
    CM_HASH_SIZE = 3
    Value = {1, 2, 3}
    Lists <- MCLists
    BYTE = 3
    Matrices <- MCMatrices
    W = 6
    T_part = 2
    T_subj = 2
    p = 2
    HASH_SIZE = 3
    CHUNK = 2
    CACHE_LINE_SIZE = 2
    CHERNOFF = 4
    CAPACITY = 2
    SOLUTION_SIZE = 48
    Tasks <- MCTasks
    Garbage = Garbage
SPECIFICATION MCSpec
INVARIANTS LookupExact TableProduct JoinExact ReportsExact InBounds
PROPERTIES TableUsable TaskEnds
