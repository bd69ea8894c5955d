CONSTANTS
    a = a
    b = b
    SENTINEL = 3
    Preimage = {a, b}
    ZeroPreimage = a
    IN_BUFFER_SIZE = 2
    OUT_BUFFER_SIZE = 1
    Inputs <- MCInputs
    W = 3
    RandomTrials = 1
    MaxIterations = 2
    SlicerInputs <- MCSlicerInputs
    PreimageFile = {"p", "q"}
    Slots = 1
    MaxTime = 2
    MaxRuns = 2
    MaxCrashes = 1
    word_bits = 3
    DIGITS = 2
    BASE = 4
    Digests <- MCDigests
    Jobs <- MCJobs
SPECIFICATION MCSpec
INVARIANTS EveryInputPlays MergeExact SlicesSound DamageIsLocal SolutionsTraced
PROPERTIES MergerEnds SlicingEnds
CHECK_DEADLOCK FALSE
