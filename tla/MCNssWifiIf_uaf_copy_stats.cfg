\* The stats file reads a handle that destroy frees after the lookup.
CONSTANTS
    t1 = t1
    t2 = t2
    WIFI = WIFI
    NSS_DYNAMIC_INTERFACE = NSS_DYNAMIC_INTERFACE
    NONE = NONE
    NULL = NULL
    NOTIFY = NOTIFY
    ACK = ACK
    NACK = NACK
    TX_SUCCESS = TX_SUCCESS
    TX_FAILURE = TX_FAILURE
    BAD_PARAM = BAD_PARAM
    TX_FAILURE_NOT_READY = TX_FAILURE_NOT_READY
    CORE_INITIALIZED = CORE_INITIALIZED
    CORE_FW_DEAD = CORE_FW_DEAD
    Types <- MCTypes
    BadTypes <- MCBadTypes
    DynIfStart <- MCDynIfStart
    SpecialIfStart <- MCSpecialIfStart
    BadIfNums <- MCBadIfNums
    ResponseReset <- MCResponseReset
    CmdQueueSize = 1
    N2HSize = 1
    MaxNotify = 1
    MaxQueueFull = 1
    Threads <- MCOneThread
    MaxCreates = 1
    MaxCalls = 2
    TimeoutsEnabled = FALSE
    WifiTimeoutsEnabled = FALSE
    AllocFailures = FALSE
    CoreDeath = FALSE
SPECIFICATION Spec
INVARIANT
    CopyStatsNeverReadsFreedHandle
