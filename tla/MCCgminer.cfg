CONSTANTS
    Thread = {t1, t2, t3}
    NoThread = no
    Address <- MCAddress
    Local = "local"
    Config <- MCConfig
    Request <- MCRequest
    Node = {n1, n2}
    Nil = nil
    Value <- MCValue
    Number <- MCNumber
    SBEXTEND = 4
    SOCKBUFALLOCSIZ = 8
    MARKS = 3
    MaxPrints = 2
    SICK_TIME = 2
    DEAD_TIME = 3
    RETRY_TIME = 1
    MaxToggles = 3
    Options <- MCOptions
    Garbage = {0, 256}
    Baud = {115200, 57600}
    ASIC_NUM = 32
    MIN_FREQUENCY = 10
    MAX_FREQUENCY = 1000000
    Default <- MCDefault
    Chains = {0, 1, 200}
    Temps = {40, 70}
    OVERHEAT = 60
    TARGET = 50
    LENGTH = 4
    Stale <- MCStale
    MaxStatus = 1
    SetupMaxLength = 6
    Length <- MCLength
    StatusPackets = {1}
    HEAD = 2
    READ_SIZE = 3
    RSIZE = 4
    BUF_SIZE = 14
    MAX_LENGTH = 5
    MaxNoise = 2
    Noise = {0, 2, 9}
SPECIFICATION MCSpec
INVARIANTS LockExcludes ReplyIsJson DataPrinted SetupExact PacketsExact
PROPERTIES WriterServed ReadersOnlyRead RequestsEnd EnableObeyed WatchdogJust PacketsDrain
CHECK_DEADLOCK FALSE
