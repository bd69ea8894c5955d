CONSTANTS
    m1 = m1
    m2 = m2
    invalid = invalid
    N = 5
    n_slots = 2
    Mapper <- MCMapper
    KeyOf <- MCKeyOf
    Invalid <- invalid
    READER_BUFFER_SIZE = 2
    WRITER_BUFFER_SIZE = 2
    SendModes <- MCSendModes
SPECIFICATION FairSpec
INVARIANTS TypeOK SplitExact
PROPERTIES Termination RefinesPartition
